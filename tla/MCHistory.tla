------------------------------ MODULE MCHistory ------------------------------
(* Two instances of History for TLC, each with its own variables, of which one  *)
(* runs and the other rests in its initial state.                               *)
(*   "quiet":  only the watcher and this browser store rows, nothing is lost    *)
(*   "faults": other browsers store rows too, a full push queue, a lost         *)
(*             connection, a failed request and a server restart                *)
EXTENDS History

VARIABLES running, created2, log2, watched2, seq2, revision2, connected2, registered2,
          frames2, held2, cursor2, rev2, req2, due2, target2, env2

H == INSTANCE History WITH
       OtherSyncs <- TRUE, QueueMax <- 1, MaxFrames <- 1,
       MaxEdits <- 0, MaxDrops <- 1, MaxFails <- 1, MaxRestarts <- 1,
       created <- created2, log <- log2, watched <- watched2, seq <- seq2,
       revision <- revision2, connected <- connected2, registered <- registered2,
       frames <- frames2, held <- held2, cursor <- cursor2, rev <- rev2, req <- req2,
       due <- due2, target <- target2, env <- env2

vars2 == <<created2, log2, watched2, seq2, revision2, connected2, registered2, frames2,
           held2, cursor2, rev2, req2, due2, target2, env2>>

Quiet(A) == running = "quiet" /\ A /\ UNCHANGED <<running, vars2>>

CasesInit == running \in {"quiet", "faults"} /\ Init /\ H!Init
CasesNext == \/ Quiet(Next)
             \/ running = "faults" /\ H!Next /\ UNCHANGED <<running, vars>>

\* History's Fairness, while that instance runs.
CasesFairness ==
    /\ WF_vars(Quiet(WatcherReads)) /\ WF_vars(Quiet(ServerAnswers))
    /\ WF_vars(Quiet(Open)) /\ WF_vars(Quiet(SyncTimer))
    /\ WF_vars(Quiet(ReceiveMessage)) /\ WF_vars(Quiet(ReceiveRevision))
    /\ WF_vars(Quiet(ApplyRows)) /\ WF_vars(Quiet(ApplyReset)) /\ WF_vars(Quiet(ApplyNothing))

CasesSpec == CasesInit /\ [][CasesNext]_<<running, vars, vars2>> /\ CasesFairness

-----------------------------------------------------------------------------

\* With faults the numbers stay 1, 2, 3, ... and no browser runs ahead of the table
\* (canonical_store.py:488, chat-store.ts:490).
TableBoundsCursor == TypeOK /\ H!TypeOK /\ H!SeqDense /\ H!CursorBounded

\* With faults only a restart reassigns a number (canonical_store.py:658).
AppendWithFaults == H!AppendOnly

\* With faults nothing but a push or a renumbering leaves a message behind the cursor
\* (chat-store.ts:490).
HolesWithFaults == H!HolesOnlyByPush
=============================================================================
