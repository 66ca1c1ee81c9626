----------------------------- MODULE AtomicFile -----------------------------
(***************************************************************************)
(* What atomic_write_private_json promises to the rest of the program,     *)
(* which treats the replacement of a record as one step: a file always     *)
(* holds, whole, what one call wrote (or what was there before any of      *)
(* them); a call takes effect at one moment before it returns, or not at   *)
(* all; and what it wrote is safe from a power loss once it has returned,  *)
(* unless the directory cannot be synced, which goes unreported.           *)
(*                                                                         *)
(* A content is named after the call that writes it.                       *)
(***************************************************************************)
CONSTANTS
    Calls,      \* the calls that replace the file
    Original,   \* what the file held before them
    Unsynced    \* the calls whose directory sync is refused

VARIABLES
    value,      \* what a reader of the file sees
    safe,       \* what a reader may see after a power loss now
    call        \* how far each call is: "open", "taken", "returned" or "gone"

Contents == Calls \cup {Original}

Init ==
    /\ value = Original
    /\ safe = {Original}
    /\ call = [c \in Calls |-> "open"]

Take(c) ==
    /\ call[c] = "open"
    /\ value' = c
    /\ safe' = safe \cup {c}
    /\ call' = [call EXCEPT ![c] = "taken"]

Return(c) ==
    /\ call[c] = "taken"
    /\ safe' = IF c \in Unsynced THEN safe ELSE {value}
    /\ call' = [call EXCEPT ![c] = "returned"]
    /\ UNCHANGED value

\* The call raises, or its process dies: before it took effect or after.
Abandon(c) ==
    /\ call[c] \in {"open", "taken"}
    /\ call' = [call EXCEPT ![c] = "gone"]
    /\ UNCHANGED <<value, safe>>

\* Every call that is under way is gone; an open one may or may not have begun.
PowerLoss ==
    /\ value' \in safe
    /\ safe' = {value'}
    /\ \E begun \in SUBSET {c \in Calls : call[c] = "open"} :
          call' = [c \in Calls |-> IF call[c] = "taken" \/ c \in begun THEN "gone" ELSE call[c]]

Next == (\E c \in Calls : Take(c) \/ Return(c) \/ Abandon(c)) \/ PowerLoss

Spec == Init /\ [][Next]_<<value, safe, call>>
=============================================================================
