---------------------------- MODULE RunAdmission ----------------------------
(***************************************************************************)
(* How a run comes to exist: the two endpoints that create one, POST       *)
(* /messages and POST /runs/{id}/recover, called and called again by       *)
(* clients that may not have seen the first answer.  A request is two      *)
(* transactions with an await between them: the first looks the client's   *)
(* key up, the second, after the runtime policy was consulted, takes the   *)
(* project's lock and creates the run.  A recovery forks an ended run: it  *)
(* inherits the chain of requests and the newest verified checkpoint of    *)
(* its source (and its verified base version, see RunControl).             *)
(*                                                                         *)
(* What workers and users do to a run meanwhile is modelled in full in     *)
(* RunControl; here it is reduced to what admission reads: the status of   *)
(* the runs, the project's pointer and the checkpoints.                    *)
(* The frozen runtime stands for framework, profile and thinking together. *)
(***************************************************************************)
EXTENDS Naturals, Sequences, FiniteSets

CONSTANTS None, Clients, Contents, Runtimes,
          MaxLineageRuns,    \* MAX_RECOVERY_LINEAGE_RUNS
          MaxPrompt,         \* MAX_RECOVERY_PROMPT_CHARACTERS, in units of Contents
          Outcomes,          \* the ends that a run may come to
          MaxRuns,
          MaxLive,           \* bound: runs that have not ended
          MaxCheckpoints

ASSUME LimitsAssumption ==
    /\ MaxLineageRuns \in Nat \ {0}
    /\ MaxPrompt \in Nat /\ Contents \subseteq 1 .. MaxPrompt
    /\ MaxRuns \in Nat /\ MaxLive \in Nat /\ MaxCheckpoints \in Nat

Recoverable == {"failed", "cancelled", "needs_attention"}
Terminal == Recoverable \cup {"succeeded"}

ASSUME OutcomesAssumption == Outcomes \subseteq Terminal

\* Client message ids; a fresh one is the next number.
Keys == 1 .. MaxRuns

\* A message has no source; a recovery names the run it forks.
Request == [key : Keys, source : 0 .. MaxRuns, content : Contents,
            runtime : Runtimes \cup {None}]

VARIABLES runs,       \* every run of the project, in the order of creation
          activeRun,  \* the project's pointer
          call,       \* the request each client has between its transactions
          misled      \* history: requests that did not get the run they made

vars == <<runs, activeRun, call, misled>>

Init ==
    /\ runs = <<>>
    /\ activeRun = 0
    /\ call = [c \in Clients |-> None]
    /\ misled = {}

Created == DOMAIN runs

-----------------------------------------------------------------------------
(* The lineage of a run and what may be inherited along it.                *)

Lineage(r) ==
    LET up[s \in Created] == IF runs[s].source = 0 THEN <<s>>
                             ELSE Append(up[runs[s].source], s)
    IN  up[r]

PromptSize(lineage) ==
    LET size[n \in 0 .. Len(lineage)] ==
            IF n = 0 THEN 0 ELSE size[n - 1] + runs[lineage[n]].content
    IN  size[Len(lineage)]

PromptIsValid(r) ==
    /\ Len(Lineage(r)) <= MaxLineageRuns
    /\ PromptSize(Lineage(r)) <= MaxPrompt

MutantFollowUpFits(source, content) == PromptIsValid(source)

FollowUpFits(source, content) ==
    /\ PromptIsValid(source)
    /\ Len(Lineage(source)) + 1 <= MaxLineageRuns
    /\ PromptSize(Lineage(source)) + content <= MaxPrompt

\* The run that recorded the checkpoint is an ancestor, not too far up; every
\* run from it down to the source ended without success, and those below it
\* attest the same checkpoint.
InheritanceIsIntact(r) ==
    LET chain == Lineage(r)
        Between(m, n) == {chain[i] : i \in m .. n}
    IN  \E owner \in 1 .. Len(chain) - 1 :
            /\ chain[owner] = runs[r].checkpoint.run
            /\ Len(chain) - owner <= MaxLineageRuns
            /\ \A s \in Between(owner, Len(chain) - 1) : runs[s].status \in Recoverable
            /\ \A s \in Between(owner + 1, Len(chain) - 1) :
                   runs[s].checkpoint = runs[r].checkpoint

CheckpointIsValid(r) == runs[r].checkpoint = None \/ InheritanceIsIntact(r)

MutantSourceCheckpoint(s) ==
    IF runs[s].checkpoint # None THEN runs[s].checkpoint
    ELSE IF runs[s].verified > 0 THEN [run |-> s, ordinal |-> runs[s].verified]
    ELSE None

\* The newest state a recovery may inherit: the source's own last checkpoint,
\* else the one the source inherited itself.
SourceCheckpoint(s) ==
    IF runs[s].verified > 0 THEN [run |-> s, ordinal |-> runs[s].verified]
    ELSE runs[s].checkpoint

-----------------------------------------------------------------------------
(* The two transactions of a request.                                      *)

RunOf(key) == {r \in Created : runs[r].key = key}

\* The stored run answers this request: what the request left open is not
\* compared, and a message is not compared with what a recovery names.
SameRequest(request, r) ==
    /\ runs[r].content = request.content
    /\ request.source # 0 => runs[r].source = request.source
    /\ request.runtime \in {None, runs[r].runtime}

\* The run that this very request created, or one no different, if any.
CreatedBy(request) ==
    LET own == {r \in RunOf(request.key) :
                   /\ runs[r].source = request.source
                   /\ runs[r].content = request.content
                   /\ request.runtime \in {None, runs[r].runtime}}
    IN  IF own = {} THEN 0 ELSE CHOOSE r \in own : TRUE

\* The answer ends the request: a run, 0 for a conflict, None for a refusal.
\* "knew" is history too: the run the request had made when it was looked up.
Finish(c, request, knew, run) ==
    /\ call' = [call EXCEPT ![c] = None]
    /\ misled' = IF \/ CreatedBy(request) \in {0, run}
                    \/ run = None /\ knew = 0
                 THEN misled ELSE misled \cup {request}

AnswerOriginal(c, request, knew) ==
    \E r \in RunOf(request.key) :
        Finish(c, request, knew, IF SameRequest(request, r) THEN r ELSE 0)

Proceed(c, request) ==
    /\ call' = [call EXCEPT ![c] = [request |-> request, knew |-> CreatedBy(request)]]
    /\ UNCHANGED misled

\* Bound: keys are taken in order, and the requests under way at one time
\* compete for one key.
Competing(request) ==
    /\ request.key - 1 \in {0} \cup {runs[r].key : r \in Created}
    /\ \A c \in Clients : call[c] # None => call[c].request.key = request.key

MutantLookUp(c, request) ==
    /\ call[c] = None
    /\ Competing(request)
    /\ request.source \in 0 .. Len(runs)
    /\ Proceed(c, request)
    /\ UNCHANGED <<runs, activeRun>>

LookUp(c, request) ==
    /\ call[c] = None
    /\ Competing(request)
    /\ request.source \in 0 .. Len(runs)
    /\ IF RunOf(request.key) # {} THEN AnswerOriginal(c, request, 0)
       ELSE IF request.source # 0 /\ runs[request.source].status \notin Recoverable
       THEN Finish(c, request, 0, 0)
       ELSE Proceed(c, request)
    /\ UNCHANGED <<runs, activeRun>>

\* Not enabled, not compatible, not available, or discovery failed.
RefuseByPolicy(c) ==
    /\ call[c] # None
    /\ Finish(c, call[c].request, call[c].knew, None)
    /\ UNCHANGED <<runs, activeRun>>

\* A message that leaves the runtime open gets a default among the available
\* ones; a recovery gets its source's.
MaySelect(request, runtime) ==
    IF request.runtime # None THEN runtime = request.runtime
    ELSE request.source # 0 => runtime = runs[request.source].runtime

ActiveRunWaits == activeRun # 0 /\ runs[activeRun].status = "waiting_for_user"

QueueRun(c, run) ==
    /\ Len(runs) < MaxRuns
    /\ Cardinality({r \in Created : runs[r].status \notin Terminal}) < MaxLive
    /\ runs' = Append(runs, run)
    /\ activeRun' = IF activeRun = 0 THEN Len(runs) + 1 ELSE activeRun
    /\ call' = [call EXCEPT ![c] = None]
    /\ UNCHANGED misled

NewRun(request, runtime) ==
    [key |-> request.key, content |-> request.content, source |-> request.source,
     runtime |-> runtime, checkpoint |-> None, verified |-> 0, status |-> "queued"]

MutantWaitsFirst(c, runtime) ==
    LET request == call[c].request IN
    /\ call[c] # None
    /\ request.source = 0
    /\ MaySelect(request, runtime)
    /\ IF ActiveRunWaits
       THEN Finish(c, request, call[c].knew, 0) /\ UNCHANGED <<runs, activeRun>>
       ELSE IF RunOf(request.key) # {}
       THEN AnswerOriginal(c, request, call[c].knew) /\ UNCHANGED <<runs, activeRun>>
       ELSE QueueRun(c, NewRun(request, runtime))

CreateMessageAndRun(c, runtime) ==
    LET request == call[c].request IN
    /\ call[c] # None
    /\ request.source = 0
    /\ MaySelect(request, runtime)
    /\ IF RunOf(request.key) # {}
       THEN AnswerOriginal(c, request, call[c].knew) /\ UNCHANGED <<runs, activeRun>>
       ELSE IF ActiveRunWaits
       THEN Finish(c, request, call[c].knew, 0) /\ UNCHANGED <<runs, activeRun>>
       ELSE QueueRun(c, NewRun(request, runtime))

MutantRecoveryForgetsSource(request, runtime) ==
    [NewRun(request, runtime) EXCEPT !.checkpoint = SourceCheckpoint(request.source),
                                     !.source = 0]

RecoveryRun(request, runtime) ==
    [NewRun(request, runtime) EXCEPT !.checkpoint = SourceCheckpoint(request.source)]

MutantTrustsLookUp(c, runtime) ==
    LET request == call[c].request IN
    /\ call[c] # None
    /\ request.source # 0
    /\ MaySelect(request, runtime)
    /\ FollowUpFits(request.source, request.content)
    /\ QueueRun(c, RecoveryRun(request, runtime))

CreateRecoveryMessageAndRun(c, runtime) ==
    LET request == call[c].request IN
    /\ call[c] # None
    /\ request.source # 0
    /\ MaySelect(request, runtime)
    /\ IF RunOf(request.key) # {}
       THEN AnswerOriginal(c, request, call[c].knew) /\ UNCHANGED <<runs, activeRun>>
       ELSE IF \/ runs[request.source].status \notin Recoverable
               \/ ~FollowUpFits(request.source, request.content)
               \/ /\ runs[request.source].verified = 0
                  /\ ~CheckpointIsValid(request.source)
       THEN Finish(c, request, call[c].knew, 0) /\ UNCHANGED <<runs, activeRun>>
       ELSE QueueRun(c, RecoveryRun(request, runtime))

-----------------------------------------------------------------------------
(* What happens to the runs meanwhile.                                     *)

Queued == {r \in Created : runs[r].status = "queued"}
Oldest(S) == IF S = {} THEN 0 ELSE CHOOSE r \in S : \A s \in S : r <= s
SetStatus(r, status) == runs' = [runs EXCEPT ![r].status = status]

Start(r) ==
    /\ runs[r].status = "queued"
    /\ \A s \in Created : runs[s].status \notin {"running", "waiting_for_user"}
    /\ SetStatus(r, "running")
    /\ activeRun' = r
    /\ UNCHANGED <<call, misled>>

RecordVerifiedCheckpoint(r) ==
    /\ runs[r].status = "running"
    /\ runs[r].verified < MaxCheckpoints
    /\ runs' = [runs EXCEPT ![r].verified = @ + 1]
    /\ UNCHANGED <<activeRun, call, misled>>

WaitForUserInput(r) ==
    /\ runs[r].status = "running"
    /\ SetStatus(r, "waiting_for_user")
    /\ UNCHANGED <<activeRun, call, misled>>

AnswerUserInput(r) ==
    /\ runs[r].status = "waiting_for_user"
    /\ SetStatus(r, "queued")
    /\ activeRun' = r
    /\ UNCHANGED <<call, misled>>

\* mark_terminal, request_cancel and lease recovery: every end but publication.
End(r, status) ==
    /\ runs[r].status \in {"queued", "running", "waiting_for_user"}
    /\ status = "cancelled" \/ runs[r].status = "running"
    /\ SetStatus(r, status)
    /\ activeRun' = Oldest(Queued \ {r})
    /\ UNCHANGED <<call, misled>>

Serve == \E c \in Clients :
    \/ \E request \in Request : LookUp(c, request)
    \/ RefuseByPolicy(c)
    \/ \E runtime \in Runtimes : CreateMessageAndRun(c, runtime)
    \/ \E runtime \in Runtimes : CreateRecoveryMessageAndRun(c, runtime)

Progress ==
    \E r \in Created :
        \/ Start(r)
        \/ RecordVerifiedCheckpoint(r)
        \/ WaitForUserInput(r)
        \/ AnswerUserInput(r)
        \/ \E status \in Outcomes : End(r, status)

Next == Serve \/ Progress

Spec == Init /\ [][Next]_vars

-----------------------------------------------------------------------------
(* Properties.                                                             *)

Checkpoint == [run : 1 .. MaxRuns, ordinal : 1 .. MaxCheckpoints]
Run == [key : Keys, content : Contents, source : 0 .. MaxRuns, runtime : Runtimes,
        checkpoint : Checkpoint \cup {None}, verified : 0 .. MaxCheckpoints,
        status : Terminal \cup {"queued", "running", "waiting_for_user"}]

\* Types; only a recovery has checkpoint lineage (ck_runs_recovery_lineage).
AdmissionTypeOK ==
    /\ runs \in Seq(Run) /\ Len(runs) <= MaxRuns
    /\ \A r \in Created : runs[r].checkpoint # None => runs[r].source # 0
    /\ activeRun \in 0 .. Len(runs)
    /\ call \in [Clients -> {None} \cup [request : Request, knew : 0 .. MaxRuns]]

\* However often a request is sent, and however the attempts overlap, one key
\* is one run: an attempt that found nothing looks again under the project's lock.
OneRunPerKey ==
    \A r, s \in Created : runs[r].key = runs[s].key => r = s

\* The stored runs and keys are as create_message_and_run and its recovery twin
\* leave them, in whatever order their attempts came.
AdmissionInvariant == AdmissionTypeOK /\ OneRunPerKey

\* A request that was answered once is answered with the same run ever after,
\* whatever the runtime policy says by then, whether a run waits for its user,
\* and whatever became of the run; an attempt overtaken between its two
\* transactions may still be refused by the policy, never by a conflict.
RetryGetsItsRun == misled = {}

\* An admitted run can be started: the prompt assembled along its lineage and
\* the checkpoint it inherits still pass, at any later time, the checks that the
\* worker applies when it begins to work on the run.
AdmittedRunCanStart ==
    \A r \in Created : runs[r].status \notin Terminal =>
        /\ PromptIsValid(r)
        /\ CheckpointIsValid(r)

\* A recovery builds on the newest verified work of its whole chain: the last
\* checkpoint of its nearest ancestor that has one, and on no checkpoint only
\* when no ancestor has one.
RecoveryKeepsNewestWork ==
    \A r \in Created :
        LET Ancestors == {Lineage(r)[n] : n \in 1 .. Len(Lineage(r)) - 1}
            Verified == {s \in Ancestors : runs[s].verified > 0}
            Newest == CHOOSE s \in Verified : \A t \in Verified : t <= s
        IN  IF Verified = {} THEN runs[r].checkpoint = None
            ELSE runs[r].checkpoint = [run |-> Newest, ordinal |-> runs[Newest].verified]
=============================================================================
