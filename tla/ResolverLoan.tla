----------------------------- MODULE ResolverLoan -----------------------------
(***************************************************************************)
(* What a TUN session promises about the resolvers of the machine, with    *)
(* no word of how it goes about it: a service is lent to the tunnel only   *)
(* against a note of what it used, what comes back is what was noted, and  *)
(* the notes go when every service they are about is back.  A new session  *)
(* starts a new sheet of notes, whatever the old one says.                 *)
(***************************************************************************)
EXTENDS Naturals

CONSTANTS
    Service,   \* network services (Wi-Fi, Ethernet)
    Resolver,  \* resolver addresses a user may have configured
    Sentinel,  \* the tunnel's own resolver address
    Before   \* what each service uses before the first session

VARIABLES
    at,       \* the resolvers each service uses
    note,     \* the lists of resolvers noted for each service
    session   \* how many sessions have begun

vars == <<at, note, session>>

Blank    == [s \in Service |-> {}]
Lent(s)  == Sentinel \in at[s]
Own(s)   == at[s] \ {Sentinel}

(* With nothing noted there is nothing to put back but what the service    *)
(* has besides the tunnel: for one on the tunnel alone, DHCP.              *)
Returns(s) == IF note[s] = {} THEN {Own(s)} ELSE note[s]

Init == at = Before /\ note = Blank /\ session = 0

Begin == session' = session + 1 /\ note' = Blank /\ UNCHANGED at

Note(s) ==
    /\ session > 0 /\ note[s] = {}
    /\ note' = [note EXCEPT ![s] = {Own(s)}]
    /\ UNCHANGED <<at, session>>

Lend(s) ==
    /\ note[s] # {}
    /\ at' = [at EXCEPT ![s] = {Sentinel}]
    /\ UNCHANGED <<note, session>>

GiveBack ==
    /\ at' \in [Service -> SUBSET (Resolver \cup {Sentinel})]
    /\ \A s \in Service : at'[s] = at[s] \/ at'[s] \in Returns(s)
    /\ UNCHANGED <<note, session>>

Settle ==
    /\ \A s \in Service : note[s] # {} => ~Lent(s)
    /\ note' = Blank
    /\ UNCHANGED <<at, session>>

Next == Begin \/ GiveBack \/ Settle \/ \E s \in Service : Note(s) \/ Lend(s)

Spec == Init /\ [][Next]_vars

(* The first session never loses a resolver: a service uses what it used   *)
(* before, or the tunnel while the file says what to put back.  (A session *)
(* after it may leave one on DHCP: it starts by dropping the notes.)       *)
FirstLoanReturns ==
    session <= 1 =>
        \A s \in Service :
            \/ at[s] = Before[s]
            \/ at[s] = {Sentinel} /\ note[s] = {Before[s]}

==============================================================================
