------------------------------ MODULE AtomicSettings ------------------------------
(***************************************************************************)
(* Abstract: what the privileged helper makes of the system's proxy        *)
(* settings.  They are one value.  A client asks for a change; the change  *)
(* is made at most once, as a whole and to the value of that moment, or    *)
(* not at all.  There are no connections, locks, drafts or replies here.   *)
(***************************************************************************)
EXTENDS Naturals

CONSTANTS Clients,        \* those who may ask
          Requests,       \* what they may ask for
          NoRequest,      \* nothing asked
          Values,         \* values of the settings
          Change(_, _)    \* the value a request makes of a value

VARIABLES value,          \* the settings
          asked,          \* the request of each client that is not decided yet
          interventions   \* what has gone wrong or was done by others

Init == /\ value \in Values
        /\ asked = [ c \in Clients |-> NoRequest ]
        /\ interventions = 0

Asks(c) == /\ asked[c] = NoRequest
           /\ \E r \in Requests : asked' = [ asked EXCEPT ![c] = r ]
           /\ UNCHANGED << value, interventions >>

TakesEffect(c) == /\ asked[c] # NoRequest
                  /\ value' = Change(value, asked[c])
                  /\ asked' = [ asked EXCEPT ![c] = NoRequest ]
                  /\ UNCHANGED interventions

\* Requests that are refused, that fail, or that die with the helper.
Dropped(S) == /\ asked' = [ c \in Clients |-> IF c \in S THEN NoRequest ELSE asked[c] ]
              /\ interventions' >= interventions
              /\ UNCHANGED value

\* Nothing but an intervention changes the value without a request.
SomeoneElse == /\ value' \in Values
               /\ interventions' > interventions
               /\ UNCHANGED asked

Next == \/ \E c \in Clients : Asks(c) \/ TakesEffect(c)
        \/ \E S \in SUBSET Clients : Dropped(S)
        \/ SomeoneElse

Spec == Init /\ [][Next]_<< value, asked, interventions >>
================================================================================
