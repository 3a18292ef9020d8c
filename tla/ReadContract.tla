---------------------------- MODULE ReadContract ----------------------------
(***************************************************************************)
(* What a TSM file reader promises its concurrent callers (spec 4.2, 4.3,  *)
(* 8): every typed read call of an index entry returns, and is served      *)
(* atomically: the decoded block if the file was open at that moment, a    *)
(* decode error if the block does not decode as the requested type, or     *)
(* ErrTSMClosed if the file had been closed.  Close happens at most once   *)
(* in effect; closing a closed file changes nothing.                       *)
(***************************************************************************)
CONSTANTS
    Readers,        \* concurrent callers of one TSMReader
    Entries,        \* index entries they read
    Methods,        \* the typed read methods (Float, Integer, ... block readers)
    Decodes(_, _)   \* Decodes(e, m): the block of e decodes with method m

VARIABLES
    open,   \* the file is open
    call,   \* [Readers -> "idle", "pending" or the result not yet returned]
    req     \* [Readers -> <<entry, method>> of the current call]

vars == <<open, call, req>>

Results == {"data", "corrupt", "closed"}

TypeOK ==
    /\ open \in BOOLEAN
    /\ call \in [Readers -> {"idle", "pending"} \cup Results]
    /\ req \in [Readers -> Entries \X Methods]

Init ==
    /\ open = TRUE
    /\ call = [r \in Readers |-> "idle"]
    /\ req \in [Readers -> Entries \X Methods]

\* A caller invokes read method m on entry e.
Call(r, e, m) ==
    /\ call[r] = "idle"
    /\ call' = [call EXCEPT ![r] = "pending"]
    /\ req' = [req EXCEPT ![r] = <<e, m>>]
    /\ UNCHANGED open

\* The read is served, atomically, against the current state of the file.
Serve(r) ==
    /\ call[r] = "pending"
    /\ call' = [call EXCEPT ![r] = IF ~open THEN "closed"
                                   ELSE IF Decodes(req[r][1], req[r][2])
                                        THEN "data" ELSE "corrupt"]
    /\ UNCHANGED <<open, req>>

\* The result is handed back to the caller.
Return(r) ==
    /\ call[r] \in Results
    /\ call' = [call EXCEPT ![r] = "idle"]
    /\ UNCHANGED <<open, req>>

Close ==
    /\ open' = FALSE
    /\ UNCHANGED <<call, req>>

Next ==
    \/ \E r \in Readers : \/ \E e \in Entries, m \in Methods : Call(r, e, m)
                          \/ Serve(r)
                          \/ Return(r)
    \/ Close

\* A call that has been made is eventually served and returned.
Fairness == \A r \in Readers : WF_vars(Serve(r)) /\ WF_vars(Return(r))

Spec == Init /\ [][Next]_vars /\ Fairness
====
