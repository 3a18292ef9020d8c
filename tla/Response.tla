------------------------------ MODULE Response ------------------------------
(***************************************************************************)
(* server.Response (src/server/server.go): the JSON form of a list of      *)
(* statement results and an error, and Response.Error.                     *)
(*                                                                         *)
(* An error is its message, a member of Msgs, or NoErr for a nil error.    *)
(* A *query.Result is NilResult (a nil pointer) or a record [err] whose    *)
(* other fields are carried through JSON unchanged and left out here.      *)
(* The JSON object is a record [results, error]; "error" is "" when it is  *)
(* omitted (omitempty).                                                    *)
(***************************************************************************)
EXTENDS Naturals, Sequences, SequencesExt

CONSTANTS
    Msgs,       \* error messages; "" is errors.New("")
    NoErr,      \* a nil error
    NilResult,  \* a nil *query.Result
    MaxResults  \* bound on the number of results of a response

Errs == Msgs \cup {NoErr}
Results == {NilResult} \cup [err : Errs]
ResponseRec == [results : BoundedSeq(Results, MaxResults), err : Errs]

VARIABLE resp  \* the response under examination

\* MarshalJSON: o.Results = r.Results; o.Err = r.Err.Error() if r.Err != nil.
MarshalJSON(r) ==
    [results |-> r.results, error |-> IF r.err = NoErr THEN "" ELSE r.err]

\* UnmarshalJSON: r.Results = o.Results; r.Err = errors.New(o.Err) if o.Err != "".
UnmarshalJSON(o) ==
    [results |-> o.results, err |-> IF o.error = "" THEN NoErr ELSE o.error]

\* Response.Error: r.Err if set; otherwise the Err of the first non-nil
\* result, whether or not that Err is nil.
Error(r) ==
    LET live == SelectSeq(r.results, LAMBDA x : x # NilResult) IN
    IF r.err # NoErr THEN r.err
    ELSE IF live = <<>> THEN NoErr
    ELSE Head(live).err

\* Reference: "the first error from any statement", nil if none occurred.
FirstError(r) ==
    LET errs == SelectSeq(r.results, LAMBDA x : x # NilResult /\ x.err # NoErr) IN
    IF r.err # NoErr THEN r.err
    ELSE IF errs = <<>> THEN NoErr
    ELSE Head(errs).err

Init == resp \in ResponseRec
Next == UNCHANGED resp
Spec == Init /\ [][Next]_resp

\* A response the server sends and a client decodes (MarshalJSON, then
\* UnmarshalJSON, which by their comments encode and decode a Response)
\* reports the same error as the original.
ErrorSurvivesJSON == Error(UnmarshalJSON(MarshalJSON(resp))) = Error(resp)

\* Response.Error returns the first error of any statement, and nil only
\* when no statement failed (its doc comment).
ErrorIsFirstError == Error(resp) = FirstError(resp)

====
