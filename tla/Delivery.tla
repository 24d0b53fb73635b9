------------------------------ MODULE Delivery ------------------------------
(***************************************************************************)
(* The end of a domain (delivery.py, DeliveryWorkflow.stage_skill): the    *)
(* active skill snapshot is packaged, staged and archived, and the         *)
(* lifecycle records the delivery.  The evolution before it is the         *)
(* lifecycle itself, one operation a step.                                 *)
(*                                                                         *)
(* Staging reads the state once, then the files one after another, and     *)
(* drafts one transaction; each test manifest it reads TWICE, once to      *)
(* check it and once for the hash it binds.  DomainWorkspace.apply then    *)
(* reads the state AGAIN, applies export or package-untested to whatever   *)
(* it finds, and COMMITS, binding the drafted files.  A request for a      *)
(* delivery that was made is answered from the files, without a            *)
(* transaction: see Replayed.                                              *)
(***************************************************************************)
EXTENDS Lifecycle

CONSTANTS
  Clients,    \* processes that stage the skill
  Empty,      \* the empty snapshot, which holds no skill
  Label,      \* the route a snapshot's documents declare (test_evaluation), None if it holds no skill
  Reports,    \* capability report digests; every probe of the runtime makes one
  Compats,    \* compatibility records, with license policy and attribution
  Variants,   \* what a request packages: a record [compat, at] with the archive's time
  Fitting,    \* <<snapshot, compat, report>>: labels and compatibility agree with the report
  Approvals,  \* action-time approvals: records [id, snapshot, variant]
  MaxTampers, \* bound: changes to governed files from outside
  Absent, Keep, \* of Plans
  Corrupt,    \* bytes that are not what the program wrote
  Prepared,   \* a test run directory without a manifest
  Idle        \* no draft

ASSUME DeliveryConstants ==
  /\ Empty \in Snapshots
  /\ Label \in [Snapshots -> Routes \union {None}]
  /\ Label[Empty] = None /\ None \notin Routes
  /\ Variants \subseteq [compat : Compats, at : Nat]
  /\ Fitting \subseteq Snapshots \X Compats \X Reports
  /\ \A a \in Approvals : a.snapshot \in Snapshots /\ a.variant \in Variants
  /\ None \notin Approvals /\ MaxTampers \in Nat
  /\ Deliveries = [snapshot : Snapshots, approval : Approvals \union {None}]

VARIABLES
  file,    \* governed files
  draft,   \* each client's draft: complete, or what it has read so far
  tampers  \* bound counter

deliveryVars == <<dom, file, draft, tampers>>

-----------------------------------------------------------------------------
(***************************************************************************)
(* Governed files: the test run directories, and per snapshot the staged   *)
(* tree, the archive and the consumed approval.  A snapshot's documents    *)
(* declare one route, so each has one staging prefix.                      *)
(***************************************************************************)

Test(ph) == <<"test", ph>>
Stage(s) == <<"stage", s>>
Archive(s) == <<"archive", s>>
Approval(s) == <<"approval", s>>

Staged == {Stage(s) : s \in Snapshots} \union {Archive(s) : s \in Snapshots}
TestFiles == {Test(ph) : ph \in TestPhases}

Paths == TestFiles \union Staged \union {Approval(s) : s \in Snapshots}

\* A test manifest: the snapshot it evaluated, under one capability report.
TestManifest == [report : Reports, snapshot : Snapshots]

\* The intact manifest of a test in the delivery of s.
ManifestOf(ph, s, report) ==
  [report |-> report, snapshot |-> IF ph = "test-baseline" THEN Empty ELSE s]

Contents ==
  TestManifest \union Compats \union Variants \union Approvals \union {Corrupt, Prepared}

ASSUME DeliveryMarkers ==
  /\ {Absent, Keep} \intersect Contents = {} /\ Absent # Keep
  /\ \A x \in Contents : [before |-> Absent, to |-> x, same |-> TRUE] # Keep

P == INSTANCE Plans

DeliveryInit ==
  /\ Init /\ dom.active = Empty
  /\ file = [q \in Paths |-> Absent]
  /\ draft = [c \in Clients |-> Idle]
  /\ tampers = 0

\* The delivery is for this snapshot; without an approval the route is validated.
RouteOf(entry) == IF entry.approval = None THEN "validated" ELSE "untested"

Recorded(entry) ==
  \E i \in 1..Len(dom.ledger) :
    dom.ledger[i] = [delivery |-> entry, route |-> RouteOf(entry)]

-----------------------------------------------------------------------------
(***************************************************************************)
(* The lifecycle up to the delivery.                                       *)
(***************************************************************************)

\* The baseline is scored on the active snapshot; a candidate holds a skill.
Evolution ==
  /\ \/ Found \/ Evolve \/ ResetManifest
     \/ \E m \in Manifests :
          \/ IngestTrain(m)
          \/ \E score \in Scores :
               FinalizeBaseline(m, score, dom.active) \/ IngestVal(m, score) \/ IngestConfirm(m, score)
  /\ dom'.candidate # Empty
  /\ UNCHANGED <<file, draft, tampers>>

\* test-prepare creates the run directory with its job.
PrepareTestRun(phase) ==
  /\ PrepareTest(phase)
  /\ file' = [file EXCEPT ![Test(phase)] = Prepared]
  /\ UNCHANGED <<draft, tampers>>

\* The run of a test, under some report, and its ingestion.
IngestTestRun(phase, m, report) ==
  /\ file[Test(phase)] = Prepared
  /\ IngestTest(phase, m)
  /\ file' = [file EXCEPT ![Test(phase)] = ManifestOf(phase, dom.active, report)]
  /\ UNCHANGED <<draft, tampers>>

-----------------------------------------------------------------------------
(***************************************************************************)
(* Staging.                                                                *)
(***************************************************************************)

\* What both answers to a request ask of the state: the active snapshot declares the route.
Requested(entry, variant, report) ==
  /\ entry.snapshot = dom.active
  /\ Label[dom.active] = RouteOf(entry)
  /\ <<dom.active, variant.compat, report>> \in Fitting
  /\ RouteOf(entry) = "validated" => \A ph \in TestPhases : dom.tests[ph] # None

\* Faulty: an approval is good for whatever is packaged from its snapshot.
CoversSnapshot(entry, variant) == entry.approval.snapshot = entry.snapshot

\* ApprovalRecord.validate_for: destination, projection and archive are the approved ones.
Covers(entry, variant) ==
  /\ entry.approval.snapshot = entry.snapshot
  /\ entry.approval.variant = variant

\* Faulty: a test manifest that was spent proves nothing.
EvidenceUnspent(entry, report) ==
  \A ph \in TestPhases : /\ file[Test(ph)] = ManifestOf(ph, entry.snapshot, report)
                         /\ dom.tests[ph] \notin ConsumedIn(dom)

(***************************************************************************)
(* _verify_validated_evidence: the manifests of both tests are intact,     *)
(* evaluated the empty and the active snapshot, and ran under the          *)
(* capability report of the request.                                       *)
(***************************************************************************)
Evidence(entry, report) ==
  \A ph \in TestPhases : file[Test(ph)] = ManifestOf(ph, entry.snapshot, report)

(***************************************************************************)
(* _exact_existing_delivery: the request made the recorded delivery, and   *)
(* what it staged is there to the byte.                                    *)
(***************************************************************************)
Replayed(entry, variant, report) ==
  /\ Requested(entry, variant, report)
  /\ RouteOf(entry) = "validated" => Evidence(entry, report)
  /\ Recorded(entry)
  /\ file[Stage(entry.snapshot)] = variant.compat
  /\ file[Archive(entry.snapshot)] = variant
  /\ RouteOf(entry) = "untested" => file[Approval(entry.snapshot)] = entry.approval

(***************************************************************************)
(* A draft: the request, the manifest of each test as its check read it    *)
(* (seen) and as the transaction is to expect it (bound), Absent as long   *)
(* as it was not read; and whether there is a transaction (ready).         *)
(***************************************************************************)

Unread == [ph \in TestPhases |-> Absent]

(***************************************************************************)
(* stage_skill reads the state, in which the active snapshot has no        *)
(* delivery.  The approval is checked later in the code, but depends on    *)
(* nothing that changes.                                                   *)
(***************************************************************************)
StageSkill(c, entry, variant, report) ==
  /\ draft[c] = Idle
  /\ Requested(entry, variant, report)
  /\ \A i \in 1..Len(dom.ledger) : dom.ledger[i].delivery.snapshot # entry.snapshot
  /\ RouteOf(entry) = "untested" => Covers(entry, variant)
  /\ draft' = [draft EXCEPT ![c] =
                 [entry |-> entry, variant |-> variant, report |-> report,
                  seen |-> Unread, bound |-> Unread, ready |-> FALSE]]
  /\ UNCHANGED <<dom, file, tampers>>

\* The bytes of a test manifest are read and checked, of test-baseline first.
CheckTest(c, ph) ==
  LET d == draft[c]
  IN  /\ d # Idle /\ RouteOf(d.entry) = "validated"
      /\ d.seen[ph] = Absent
      /\ ph = "test-final" => d.bound["test-baseline"] # Absent
      /\ file[Test(ph)] = ManifestOf(ph, d.entry.snapshot, d.report)
      /\ draft' = [draft EXCEPT ![c].seen[ph] = file[Test(ph)]]
      /\ UNCHANGED <<dom, file, tampers>>

\* sha256_file reads the manifest again, for the hash that the transaction expects.
BindTest(c, ph) ==
  LET d == draft[c]
  IN  /\ d # Idle
      /\ d.seen[ph] # Absent /\ d.bound[ph] = Absent
      /\ file[Test(ph)] # Absent
      /\ draft' = [draft EXCEPT ![c].bound[ph] = file[Test(ph)]]
      /\ UNCHANGED <<dom, file, tampers>>

\* Faulty: the test manifests are checked and not bound.
DependsOnStaging(d) ==
  [q \in {Stage(d.entry.snapshot), Archive(d.entry.snapshot)} |-> Absent]

\* Bound to the transaction: nothing is staged, and the test runs as they were read, or none.
DependsOn(d) ==
  [q \in {Stage(d.entry.snapshot), Archive(d.entry.snapshot)} \union TestFiles |->
     IF q \in TestFiles THEN d.bound[q[2]] ELSE Absent]

\* There is no trace of the delivery on disk, and the transaction is complete.
CompleteDraft(c) ==
  LET d == draft[c]
      s == d.entry.snapshot
  IN  /\ d # Idle /\ ~d.ready
      /\ RouteOf(d.entry) = "validated" => \A ph \in TestPhases : d.bound[ph] # Absent
      /\ file[Stage(s)] = Absent /\ file[Archive(s)] = Absent
      /\ draft' = [draft EXCEPT ![c].ready = TRUE]
      /\ UNCHANGED <<dom, file, tampers>>

New(x) == [before |-> Absent, to |-> x, same |-> TRUE]

\* Faulty: an approval is recorded on both routes.
OutputsOfBoth(d) ==
  LET s == d.entry.snapshot
  IN  [q \in Paths |->
         CASE q = Stage(s) -> New(d.variant.compat)
           [] q = Archive(s) -> New(d.variant)
           [] q = Approval(s) -> New(d.entry.approval)
           [] OTHER -> Keep]

\* The staged tree, the archive and, on the untested route, the consumed approval.
Outputs(d) ==
  LET s == d.entry.snapshot
  IN  [q \in Paths |->
         CASE q = Stage(s) -> New(d.variant.compat)
           [] q = Archive(s) -> New(d.variant)
           [] q = Approval(s) /\ RouteOf(d.entry) = "untested" -> New(d.entry.approval)
           [] OTHER -> Keep]

Transaction(d) ==
  [base |-> 0, next |-> 0, outs |-> Outputs(d),
   reads |-> [q \in Paths |-> IF q \in DOMAIN DependsOn(d) THEN DependsOn(d)[q] ELSE Keep]]

\* Export or package-untested, or their replay: the entry is there already.
Latch(entry) ==
  \/ RouteOf(entry) = "validated" /\ Export(entry)
  \/ RouteOf(entry) = "untested" /\ PackageUntested(entry)
  \/ Recorded(entry) /\ UNCHANGED dom

\* Faulty: the draft is executed as it is.
CommitUnchecked(c) ==
  /\ draft[c] # Idle /\ draft[c].ready
  /\ Latch(draft[c].entry)
  /\ file' = P!Overlay(file, Transaction(draft[c]))
  /\ draft' = [draft EXCEPT ![c] = Idle]
  /\ UNCHANGED tampers

(***************************************************************************)
(* stage_projection and apply: the operation on the state as it is now,    *)
(* and one transaction.  The drafted snapshot is not compared with the     *)
(* active one.                                                             *)
(***************************************************************************)
Commit(c) ==
  /\ draft[c] # Idle /\ draft[c].ready
  /\ Latch(draft[c].entry)
  /\ P!Fits(file, Transaction(draft[c]))
  /\ file' = P!Overlay(file, Transaction(draft[c]))
  /\ draft' = [draft EXCEPT ![c] = Idle]
  /\ UNCHANGED tampers

\* A check fails, the commit is refused, or the process is gone.
GiveUp(c) ==
  /\ draft[c] # Idle
  /\ draft' = [draft EXCEPT ![c] = Idle]
  /\ UNCHANGED <<dom, file, tampers>>

\* From outside: a file is damaged, or what was staged is carried away.
Tamper ==
  /\ tampers < MaxTampers
  /\ tampers' = tampers + 1
  /\ \/ \E q \in Paths :
          /\ file[q] \notin {Absent, Prepared, Corrupt}
          /\ file' = [file EXCEPT ![q] = Corrupt]
     \/ \E s \in Snapshots :
          /\ file[Stage(s)] # Absent
          /\ file' = [file EXCEPT ![Stage(s)] = Absent, ![Archive(s)] = Absent]
  /\ UNCHANGED <<dom, draft>>

Drafting(c) ==
  \/ \E entry \in Deliveries, variant \in Variants, report \in Reports :
       StageSkill(c, entry, variant, report)
  \/ \E ph \in TestPhases : CheckTest(c, ph) \/ BindTest(c, ph)
  \/ CompleteDraft(c)

DeliveryNext ==
  \/ Evolution
  \/ \E phase \in TestPhases :
       \/ PrepareTestRun(phase)
       \/ \E m \in Manifests, report \in Reports : IngestTestRun(phase, m, report)
  \/ \E c \in Clients : Drafting(c) \/ Commit(c) \/ GiveUp(c)
  \/ Tamper

DeliverySpec == DeliveryInit /\ [][DeliveryNext]_deliveryVars

-----------------------------------------------------------------------------
(***************************************************************************)
(* Properties.                                                             *)
(***************************************************************************)

\* Files hold what belongs at their paths, drafts are for a request.
DeliveryTypeOK ==
  /\ tampers \in 0..MaxTampers
  /\ DOMAIN file = Paths
  /\ \A ph \in TestPhases : file[Test(ph)] \in TestManifest \union {Absent, Prepared, Corrupt}
  /\ \A s \in Snapshots :
       /\ file[Stage(s)] \in Compats \union {Absent, Corrupt}
       /\ file[Archive(s)] \in Variants \union {Absent, Corrupt}
       /\ file[Approval(s)] \in Approvals \union {Absent, Corrupt}
  /\ DOMAIN draft = Clients
  /\ \A c \in Clients :
       draft[c] # Idle =>
         /\ DOMAIN draft[c] = {"entry", "variant", "report", "seen", "bound", "ready"}
         /\ draft[c].entry \in Deliveries /\ draft[c].variant \in Variants
         /\ draft[c].report \in Reports
         /\ \A ph \in TestPhases : /\ draft[c].seen[ph] \in TestManifest \union {Absent}
                                   /\ draft[c].bound[ph] \in
                                        TestManifest \union {Absent, Prepared, Corrupt}
         /\ DOMAIN draft[c].seen = TestPhases /\ DOMAIN draft[c].bound = TestPhases

(***************************************************************************)
(* What was staged stays as it is: whoever else had drafted a delivery of  *)
(* the same skill before it, with another time or on another route, no     *)
(* command replaces a staged tree, an archive or a consumed approval.      *)
(***************************************************************************)
DeliveredForGood ==
  [][tampers' = tampers =>
       \A q \in Staged \union {Approval(s) : s \in Snapshots} :
         file[q] # Absent => file'[q] = file[q]]_deliveryVars

(***************************************************************************)
(* An export rests on tests: the process that commits it found both test   *)
(* manifests intact, of one capability report that fits what is staged, of *)
(* the empty snapshot and of the very snapshot that is delivered; and they *)
(* are so at this moment too, whatever was damaged between the draft and   *)
(* its commit, unless the damage came between the two reads of a manifest  *)
(* and is bound as what is expected.                                       *)
(***************************************************************************)
ExportEvidenced ==
  [][dom.step # "exported" /\ dom'.step = "exported" =>
       \E c \in Clients, report \in Reports, variant \in Variants :
         LET d == draft[c]
             s == dom.active
         IN  /\ d # Idle /\ draft'[c] = Idle
             /\ \A ph \in TestPhases :
                  /\ d.seen[ph] = ManifestOf(ph, s, report)
                  /\ file[Test(ph)] = d.seen[ph] \/ d.bound[ph] = Corrupt
             /\ <<s, variant.compat, report>> \in Fitting
             /\ file'[Stage(s)] = variant.compat /\ file'[Archive(s)] = variant]_deliveryVars

(***************************************************************************)
(* An untested package is exactly the one its approval names: what is      *)
(* staged and archived, if nobody outside touched it, and the approval on  *)
(* record is the one the state holds.                                      *)
(***************************************************************************)
ApprovalCovers ==
  \A i \in 1..Len(dom.ledger) :
    LET entry == dom.ledger[i].delivery
        s == entry.snapshot
    IN  dom.ledger[i].route = "untested" =>
          /\ entry.approval.snapshot = s
          /\ file[Stage(s)] \in {entry.approval.variant.compat, Absent, Corrupt}
          /\ file[Archive(s)] \in {entry.approval.variant, Absent, Corrupt}
          /\ file[Approval(s)] \in {entry.approval, Corrupt}

(***************************************************************************)
(* The request that delivered the active snapshot can be made again, and   *)
(* is answered as done (as long as nobody touched the files): a caller     *)
(* that missed the answer is not refused.                                  *)
(***************************************************************************)
ReplayOpen ==
  \A i \in 1..Len(dom.ledger) :
    LET entry == dom.ledger[i].delivery
    IN  entry.snapshot = dom.active /\ tampers = 0 =>
          \E variant \in Variants, report \in Reports : Replayed(entry, variant, report)

(***************************************************************************)
(* "Staging-only delivery from one verified active snapshot"               *)
(* (delivery.py:1): the delivered snapshot is the active one.              *)
(***************************************************************************)
ActiveDelivered ==
  \A i \in 1..Len(dom.ledger) : dom.ledger[i].delivery.snapshot = dom.active
=============================================================================
