----------------------------- MODULE IssueSync -----------------------------
(***************************************************************************)
(* Syncing a project with an external tracker: the claim a run holds on    *)
(* the project's binding, the run itself (internal/issuesync), and the     *)
(* binding's two-way status delivery (internal/db/sqlitestore).            *)
(*                                                                         *)
(* One issue is followed.  What the tracker says of it is a status and a   *)
(* version; the rest of the source is seen through the version, which every *)
(* change moves on, and through the Chunks an import writes it in.         *)
(*                                                                         *)
(* A claim is the millisecond its run started at.  A run is taken over only *)
(* TTL later, so no two runs share one, and the claim is modelled by the   *)
(* run and its age.  A binding's updated_at only ever grows: a run's copy  *)
(* of it is modelled by whether the binding was updated since (current).   *)
(*                                                                         *)
(* A page of intents and the tracker's answer about the first of them are  *)
(* one step, and so are the answer to a status write and the read that     *)
(* verifies it: nothing is decided between the two that a later step does  *)
(* not check again.  Clocks agree: the overlap of the cursor that makes up *)
(* for those that do not is left out.                                      *)
(***************************************************************************)
EXTENDS Naturals, FiniteSets, Sequences, FiniteSetsExt

CONSTANTS
    Runs,        \* calls of runOnce: the provider's loop, requests for a run now
    Nobody,      \* no run
    Chunks,      \* chunks of an import, 1 .. Chunks
    TTL,         \* StaleLockTTL: the age at which a claim may be taken over
    Horizon,     \* the age from which a run sends no status write any more
    PatchLife,   \* how long a status write can be under way
    MaxIncidents \* bound of the model: edits, changes of the settings and faults

ASSUME RunsAssumption == Nobody \notin Runs /\ Chunks \in Nat \ {0}
\* "Request timeouts are at most 30s.  Leave five minutes before abandoned
\* claims can be recovered": admission's horizon.
ASSUME HorizonAssumption ==
    /\ TTL \in Nat /\ Horizon \in Nat /\ PatchLife \in Nat
    /\ Horizon + PatchLife <= TTL

VARIABLES
    remote,    \* the tracker's issue: its status and version
    flight,    \* status writes under way to the tracker
    binding,   \* issue_sync_bindings: enabled, mode, cursor (0 for NULL)
    claim,     \* sync_started_at: whose run it is
    age,       \* how long ago that was, up to TTL
    local,     \* the issue's status, and the tracker's version when it was last changed here
    intents,   \* the issue.closed and issue.reopened events, by the status they ask for
    pending,   \* pending_event_uid: one of them, or 0
    observed,  \* observed_status_at: a version, or 0
    imported,  \* per chunk, the version imported under the binding's content settings
    run,       \* the runs in progress
    shown,     \* history: the version at which the tracker first showed what the intent
               \* that waits, or was the last to, asks for; 0 if it did not
    incidents  \* edits, changes of the settings and faults so far

vars == <<remote, flight, binding, claim, age, local, intents, pending, observed,
          imported, run, shown, incidents>>
source  == <<remote, flight, shown>>
fence   == <<binding, claim, age>>
mapping == <<local, intents, pending, observed>>

Statuses == {"open", "closed"}
Other(s) == IF s = "open" THEN "closed" ELSE "open"

Severity == <<"none", "blocked", "error", "ambiguous">>
Severities == {Severity[n] : n \in 1 .. 4}
Rank(e) == CHOOSE n \in 1 .. 4 : Severity[n] = e

Places == {"off", "deliver", "admit", "patching", "sweep", "observe", "prepare", "import",
           "record", "fail"}

NoRun == [at |-> "off", mode |-> "one-way", current |-> FALSE, cursor |-> 0, start |-> 0,
          event |-> 0, landed |-> FALSE, seen |-> [status |-> "open", ver |-> 0],
          chunk |-> 0, err |-> "none"]

Init ==
    /\ remote = [status |-> "open", ver |-> 1]
    /\ flight = {}
    /\ binding \in [enabled : {TRUE}, mode : {"one-way", "two-way"}, cursor : {1}]
    /\ claim = Nobody /\ age = 0
    /\ local = [status |-> "open", at |-> 1]
    /\ intents = <<>> /\ pending = 0 /\ observed = 0
    /\ imported = [k \in 1 .. Chunks |-> 1]
    /\ run = [r \in Runs |-> NoRun]
    /\ shown = 0
    /\ incidents = 0

Incident == incidents < MaxIncidents /\ incidents' = incidents + 1

-----------------------------------------------------------------------------
(* The claim.                                                              *)

At(r, p) == run[r].at = p
Go(r, p) == run' = [run EXCEPT ![r].at = p]

\* ClaimIssueSyncBinding, by the loop or for a request.
Claim(r) ==
    /\ At(r, "off")
    /\ binding.enabled
    /\ claim = Nobody \/ age = TTL
    /\ claim' = r /\ age' = 0
    /\ run' = [run EXCEPT ![r] =
                 [NoRun EXCEPT !.at = IF binding.mode = "two-way" THEN "deliver" ELSE "prepare",
                               !.mode = binding.mode, !.current = TRUE,
                               !.cursor = binding.cursor, !.start = remote.ver]]
    /\ UNCHANGED <<source, binding, mapping, imported, incidents>>

\* validateIssueSyncImportGuardTx: what every write of a run is behind.
Fenced(r) == binding.enabled /\ claim = r /\ run[r].current

\* An update of the binding moves its updated_at past every other run's copy.
Updated(r) == [q \in Runs |-> IF q = r THEN run[q] ELSE [run[q] EXCEPT !.current = FALSE]]

-----------------------------------------------------------------------------
(* The status pass: the intents that wait, then a sweep.                   *)

Worse(r, e) == IF Rank(e) > Rank(run[r].err) THEN e ELSE run[r].err

\* The pass ends, possibly with a failure; content is next whatever happened.
EndPass(r, e) ==
    run' = [run EXCEPT ![r].at = "prepare", ![r].err = Worse(r, e),
                       ![r].event = 0, ![r].landed = FALSE, ![r].seen = NoRun.seen]

StatusOnly == UNCHANGED <<remote, flight, shown, fence, mapping, imported, incidents>>

Desired(r) == intents[run[r].event]

\* ListIssueStatusMappings, pending only, and WriteStatus's first read: there is
\* nothing to write if the tracker agrees.
Deliver(r) ==
    /\ At(r, "deliver")
    /\ \/ ~Fenced(r) /\ EndPass(r, "error")
       \/ Fenced(r) /\ pending = 0 /\ Go(r, "sweep")
       \/ /\ Fenced(r) /\ pending # 0
          /\ IF remote.status = intents[pending]
             THEN run' = [run EXCEPT ![r].at = "observe", ![r].event = pending, ![r].seen = remote]
             ELSE run' = [run EXCEPT ![r].at = "admit", ![r].event = pending]
    /\ StatusOnly

\* The read of a delivery or of the sweep fails.
ReadFails(r) ==
    /\ run[r].at \in {"deliver", "sweep"} /\ Fenced(r) /\ (At(r, "deliver") <=> pending # 0)
    /\ Incident
    /\ \E e \in {"blocked", "error"} : EndPass(r, e)
    /\ UNCHANGED <<source, fence, mapping, imported>>

Write(r) == [by |-> r, status |-> Desired(r), age |-> 0]

\* Mutant: a write may be sent as long as the claim is not stale.
MaySendToTheEnd == age < TTL

\* The horizon comes well before anybody may take the claim over.
MaySend == age < Horizon

\* admission, right before the PATCH is sent: within the horizon, under the
\* claim, and only for the intent that still waits.
Admit(r) ==
    /\ At(r, "admit")
    /\ \/ /\ MaySend /\ Fenced(r) /\ pending = run[r].event
          /\ flight' = flight \cup {Write(r)}
          /\ run' = [run EXCEPT ![r].at = "patching", ![r].landed = FALSE]
       \/ /\ ~MaySend \/ ~Fenced(r)
          /\ EndPass(r, "error")
          /\ UNCHANGED flight
       \/ /\ Fenced(r) /\ pending # run[r].event
          /\ EndPass(r, "none")
          /\ UNCHANGED flight
    /\ UNCHANGED <<remote, shown, fence, mapping, imported, incidents>>

\* The PATCH was answered, and a fresh read verifies it.
Verify(r) ==
    /\ At(r, "patching") /\ run[r].landed
    /\ IF remote.status = Desired(r)
       THEN run' = [run EXCEPT ![r].at = "observe", ![r].seen = remote, ![r].landed = FALSE]
       ELSE EndPass(r, "ambiguous")
    /\ StatusOnly

UnderWay(r) == \E f \in flight : f.by = r

\* No answer, or one that says nothing.
Unanswered(r) ==
    /\ At(r, "patching")
    /\ IF UnderWay(r) \/ run[r].landed THEN Incident ELSE UNCHANGED incidents
    /\ EndPass(r, "ambiguous")
    /\ UNCHANGED <<source, fence, mapping, imported>>

\* The tracker answers with a failure, or the request was never sent.
Refused(r) ==
    /\ At(r, "patching") /\ UnderWay(r)
    /\ Incident
    /\ flight' = {f \in flight : f.by # r}
    /\ \E e \in {"blocked", "error"} : EndPass(r, e)
    /\ UNCHANGED <<remote, shown, fence, mapping, imported>>

\* ListIssueStatusMappings of the sweep, which leaves out what waits, and
\* ReadStatus.
Sweep(r) ==
    /\ At(r, "sweep")
    /\ \/ ~Fenced(r) /\ EndPass(r, "error")
       \/ Fenced(r) /\ pending # 0 /\ EndPass(r, "none")
       \/ /\ Fenced(r) /\ pending = 0
          /\ run' = [run EXCEPT ![r].at = "observe", ![r].seen = remote]
    /\ StatusOnly

\* Mutant: an observation must be newer than the last one.
AcceptsNewer(r) == run[r].seen.ver > observed

\* Mutant: a delivery acknowledges whatever waits by now.
ServicesAnything(r) == run[r].event # 0

\* PlanIssueStatusObservation: an older observation is refused, one is applied
\* here only if nothing waits to be delivered, and a delivery acknowledges the
\* event it serviced.
Accepts(r) == run[r].seen.ver >= observed
Applies(r) == pending = 0 /\ run[r].event = 0
Services(r) == pending = run[r].event

\* ObserveIssueStatus: the checkpoint, the acknowledgement of exactly the
\* event serviced, and the change of the issue, in one transaction.
Observe(r) ==
    /\ At(r, "observe")
    /\ \/ ~Fenced(r) /\ EndPass(r, "error") /\ UNCHANGED mapping
       \/ Fenced(r) /\ ~Accepts(r) /\ EndPass(r, "none") /\ UNCHANGED mapping
       \/ /\ Fenced(r) /\ Accepts(r) /\ EndPass(r, "none")
          /\ observed' = run[r].seen.ver
          /\ pending' = IF Services(r) THEN 0 ELSE pending
          /\ local' = IF Applies(r) THEN [local EXCEPT !.status = run[r].seen.status] ELSE local
          /\ UNCHANGED intents
    /\ UNCHANGED <<source, fence, imported, incidents>>

-----------------------------------------------------------------------------
(* Content: fetch what changed since the cursor, import it, record.        *)

\* RefreshIssueSyncBinding: the adapter found the source renamed, or finalizes.
Refresh(r) ==
    /\ run[r].at \in {"prepare", "record"}
    /\ \/ /\ Fenced(r)
          /\ Incident
          /\ run' = Updated(r)
       \/ /\ ~Fenced(r)
          /\ run' = [run EXCEPT ![r].at = "fail", ![r].err = Worse(r, "error")]
          /\ UNCHANGED incidents
    /\ UNCHANGED <<source, fence, mapping, imported>>

\* Prepare: chunk 0 says that nothing changed since the cursor.
Prepare(r) ==
    /\ At(r, "prepare")
    /\ run' = [run EXCEPT ![r].at = "import", ![r].seen = remote,
                          ![r].chunk = IF remote.ver > run[r].cursor THEN 1 ELSE 0]
    /\ UNCHANGED <<source, fence, mapping, imported, incidents>>

PrepareFails(r) ==
    /\ At(r, "prepare")
    /\ Incident
    /\ run' = [run EXCEPT ![r].at = "fail", ![r].err = Worse(r, "error")]
    /\ UNCHANGED <<source, fence, mapping, imported>>

\* updateImportedIssue writes an issue that the tracker changed later than it
\* was changed here; its status, unless status is managed separately.
Newer(r) == run[r].seen.ver > local.at
Merged(r) == [status |-> IF run[r].mode = "one-way" THEN run[r].seen.status ELSE local.status,
              at |-> run[r].seen.ver]

\* Mutant: the last chunk is looked for one too far.
LastChunkPassed(r) == run[r].chunk > Chunks
LastChunk(r) == run[r].chunk = Chunks

\* ImportBatch of one chunk, in one transaction; the issue is in the first.
Import(r) ==
    /\ At(r, "import")
    /\ \/ /\ ~Fenced(r)
          /\ run' = [run EXCEPT ![r].at = "fail", ![r].err = Worse(r, "error")]
          /\ UNCHANGED <<local, imported>>
       \/ /\ Fenced(r) /\ run[r].chunk = 0
          /\ Go(r, "record")
          /\ UNCHANGED <<local, imported>>
       \/ /\ Fenced(r) /\ run[r].chunk > 0
          /\ imported' = [imported EXCEPT ![run[r].chunk] = Max({@, run[r].seen.ver})]
          /\ local' = IF run[r].chunk = 1 /\ Newer(r) THEN Merged(r) ELSE local
          /\ run' = IF LastChunk(r) THEN [run EXCEPT ![r].at = "record"]
                                             ELSE [run EXCEPT ![r].chunk = @ + 1]
    /\ UNCHANGED <<source, fence, intents, pending, observed, incidents>>

\* Mutant: only the claim is compared, not the binding.
SucceedsUnderClaim(r) == run[r].err \in {"none", "blocked"} /\ claim = r

\* A blocked status write is reported, and is no failure of the run.
Succeeds(r) == run[r].err \in {"none", "blocked"} /\ claim = r /\ run[r].current

\* RecordIssueSyncSuccess: the cursor moves to where the run started, if the
\* claim and the binding are still what they were.
Record(r) ==
    /\ At(r, "record")
    /\ IF Succeeds(r)
       THEN /\ binding' = [binding EXCEPT !.cursor = run[r].start]
            /\ claim' = Nobody /\ age' = 0
            /\ run' = [Updated(r) EXCEPT ![r] = NoRun]
       ELSE /\ run' = [run EXCEPT ![r].at = "fail"]
            /\ UNCHANGED fence
    /\ UNCHANGED <<source, mapping, imported, incidents>>

\* RecordIssueSyncError: an ambiguous status write keeps the claim.
Fail(r) ==
    /\ At(r, "fail")
    /\ IF claim = r /\ run[r].err # "ambiguous"
       THEN claim' = Nobody /\ age' = 0
       ELSE UNCHANGED <<claim, age>>
    /\ run' = [run EXCEPT ![r] = NoRun]
    /\ UNCHANGED <<source, binding, mapping, imported, incidents>>

-----------------------------------------------------------------------------
(* The tracker, the users, the operator, time and death.                   *)

\* The tracker's issue changes: its version moves on, and if its status is now
\* what the intent that waits asks for, that intent is shown.
Change(s) ==
    /\ remote' = [status |-> s, ver |-> remote.ver + 1]
    /\ shown' = IF shown = 0 /\ pending # 0 /\ intents[pending] = s
                THEN remote.ver + 1 ELSE shown

\* A status write arrives; one that asks for what is there changes nothing.
Land(f) ==
    /\ IF remote.status = f.status THEN UNCHANGED <<remote, shown>> ELSE Change(f.status)
    /\ flight' = flight \ {f}
    /\ run' = [run EXCEPT ![f.by].landed = At(f.by, "patching")]
    /\ UNCHANGED <<fence, mapping, imported, incidents>>

Lose(f) ==
    /\ Incident
    /\ flight' = flight \ {f}
    /\ UNCHANGED <<remote, shown, fence, mapping, imported, run>>

\* Somebody edits the issue in the tracker.
EditRemote ==
    /\ Incident
    /\ \E s \in Statuses : Change(s)
    /\ UNCHANGED <<flight, fence, mapping, imported, run>>

\* enqueueIssueStatusIntentTx: a paused binding keeps intents, a one-way
\* binding has none.
Enqueues == binding.mode = "two-way"

\* CloseIssue or ReopenIssue, with the intent in the same transaction.
EditLocal ==
    /\ Incident
    /\ local' = [status |-> Other(local.status), at |-> remote.ver]
    /\ IF Enqueues
       THEN /\ intents' = Append(intents, local'.status)
            /\ pending' = Len(intents) + 1
            /\ shown' = IF remote.status = local'.status THEN remote.ver ELSE 0
       ELSE UNCHANGED <<intents, pending, shown>>
    /\ UNCHANGED <<remote, flight, fence, observed, imported, run>>

\* DisableIssueSyncBinding.
Disable ==
    /\ Incident
    /\ binding.enabled
    /\ binding' = [binding EXCEPT !.enabled = FALSE]
    /\ run' = Updated(Nobody)
    /\ UNCHANGED <<source, claim, age, mapping, imported>>

\* UpsertIssueSyncBinding: leaving two-way drops the intent that waits, and
\* other content settings make what was imported, and the cursor, void.
Enable(m, same) ==
    /\ Incident
    /\ binding' = [enabled |-> TRUE, mode |-> m, cursor |-> IF same THEN binding.cursor ELSE 0]
    /\ imported' = IF same THEN imported ELSE [k \in 1 .. Chunks |-> 0]
    /\ pending' = IF binding.mode = "two-way" /\ m = "one-way" THEN 0 ELSE pending
    /\ run' = Updated(Nobody)
    /\ UNCHANGED <<source, claim, age, local, intents, observed>>

\* No status write outlives PatchLife.
Tick ==
    /\ claim # Nobody /\ age < TTL
    /\ \A f \in flight : f.age < PatchLife
    /\ age' = age + 1
    /\ flight' = {[f EXCEPT !.age = @ + 1] : f \in flight}
    /\ UNCHANGED <<remote, shown, binding, claim, mapping, imported, run, incidents>>

\* The daemon dies; what it sent may still arrive.
Crash ==
    /\ Incident
    /\ run' = [r \in Runs |-> NoRun]
    /\ UNCHANGED <<source, fence, mapping, imported>>

-----------------------------------------------------------------------------

Proceed(r) ==
    \/ Deliver(r) \/ ReadFails(r) \/ Admit(r) \/ Verify(r) \/ Unanswered(r) \/ Refused(r)
    \/ Sweep(r) \/ Observe(r)
    \/ Refresh(r) \/ Prepare(r) \/ PrepareFails(r) \/ Import(r) \/ Record(r) \/ Fail(r)

Next ==
    \/ \E r \in Runs : Claim(r) \/ Proceed(r)
    \/ \E f \in flight : Land(f) \/ Lose(f)
    \/ EditRemote \/ EditLocal \/ Disable
    \/ \E m \in {"one-way", "two-way"}, same \in BOOLEAN : Enable(m, same)
    \/ Tick \/ Crash

Spec == Init /\ [][Next]_vars

(* A run in progress goes on, what was sent arrives or is lost, time passes, *)
(* and the provider's loop tries a due binding again on every tick.          *)
Fairness ==
    /\ \A r \in Runs : WF_vars(Proceed(r))
    /\ WF_vars(\E r \in Runs : Claim(r))
    /\ WF_vars(\E f \in flight : Land(f) \/ Lose(f))
    /\ WF_vars(Tick)

FairSpec == Spec /\ Fairness

-----------------------------------------------------------------------------
(* Properties                                                              *)

TypeOK ==
    /\ remote.status \in Statuses /\ remote.ver \in Nat
    /\ \A f \in flight : f.by \in Runs /\ f.status \in Statuses /\ f.age \in 0 .. PatchLife
    /\ binding.cursor \in 0 .. remote.ver
    /\ claim \in Runs \cup {Nobody} /\ age \in 0 .. TTL
    /\ local.status \in Statuses /\ local.at \in 0 .. remote.ver
    /\ pending \in 0 .. Len(intents) /\ observed \in 0 .. remote.ver
    /\ \A k \in 1 .. Chunks : imported[k] \in 0 .. remote.ver
    /\ \A r \in Runs :
          /\ run[r].at \in Places /\ run[r].err \in Severities
          /\ run[r].event \in 0 .. Len(intents) /\ run[r].chunk \in 0 .. Chunks
          /\ run[r].start \in 0 .. remote.ver /\ run[r].seen.ver \in 0 .. remote.ver

\* Never are two status writes under way to the tracker, where the later one
\* could overtake the other: not after a takeover, a crash or a lost answer.
OneWriter == Cardinality(flight) <= 1

\* Everything the source changed up to the cursor was imported under the
\* content settings the binding has now.
CursorTruthful == \A k \in 1 .. Chunks : imported[k] >= binding.cursor

Observes(r) == At(r, "observe") /\ run'[r].at # "observe"

\* While a binding is two-way, an intent that waits for delivery ends only when
\* a newer one replaces it or the tracker was seen to do what it asks for; and
\* a sync changes the issue's status here only if no intent waits, and never
\* from a look at the tracker that precedes the delivery of the last one.
IntentKept ==
    [][/\ pending # 0 /\ pending' # pending /\ binding'.mode = "two-way"
             => \/ pending' > pending
                \/ \E r \in Runs : Observes(r) /\ run[r].seen.status = intents[pending]
       /\ local'.status # local.status /\ intents' = intents /\ binding.mode = "two-way"
             => /\ pending = 0
                /\ \A r \in Runs : Observes(r) => run[r].seen.ver >= shown]_vars

\* Runs keep their time: they send before the horizon and end before a takeover.
InTime == \A r \in Runs : claim = r =>
    /\ MaySend \/ run[r].at \notin {"deliver", "admit"}
    /\ age < TTL \/ At(r, "off")

\* Once a binding stays enabled and two-way and its runs keep their time, the
\* last intent is delivered, the issue has the tracker's status, and the source
\* is imported as it is now.
InSync ==
    <>[](binding.enabled /\ binding.mode = "two-way" /\ InTime) =>
        <>[](/\ pending = 0 /\ local.status = remote.status
             /\ \A k \in 1 .. Chunks : imported[k] = remote.ver)

=============================================================================
