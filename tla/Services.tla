------------------------------ MODULE Services ------------------------------
(***************************************************************************)
(* The components that work beside the hubs: rooms and messages in MongoDB *)
(* (RoomStore), reading them page by page (History), accounts (Account),   *)
(* presence in Redis (Presence), and the two limits per address (RateLimit *)
(* and ConnLimit).  They share no state, and a property is about one of    *)
(* them: so each behaviour here runs one, and leaves the others where they *)
(* begin.                                                                  *)
(***************************************************************************)
EXTENDS RoomStore, History, Account, Presence, RateLimit, ConnLimit

VARIABLE
    part         \* which one runs

ASSUME ServicesAssumption ==
    /\ HistoryAssumption /\ AccountAssumption /\ PresenceAssumption
    /\ RateAssumption /\ LimitAssumption

ServicesInit ==
    /\ part \in {"rooms", "history", "accounts", "presence", "rates", "connections"}
    /\ Init /\ HistoryInit /\ AccountInit /\ PresenceInit /\ RateInit /\ ConnInit
    /\ part # "accounts" => caller = [q \in Calls |-> CHOOSE n \in Admins : TRUE]

ServicesNext ==
    /\ UNCHANGED part
    /\ \/ part = "rooms" /\ Next
       \/ part # "rooms" /\ UNCHANGED vars
    /\ \/ part = "history" /\ HistoryNext
       \/ part # "history" /\ UNCHANGED pages
    /\ \/ part = "accounts" /\ AccountNext
       \/ part # "accounts" /\ UNCHANGED accounts
    /\ \/ part = "presence" /\ PresenceNext
       \/ part # "presence" /\ UNCHANGED online
    /\ \/ part = "rates" /\ RateNext
       \/ part # "rates" /\ UNCHANGED rates
    /\ \/ part = "connections" /\ ConnNext
       \/ part # "connections" /\ UNCHANGED upgrades

ServicesSpec ==
    ServicesInit /\ [][ServicesNext]_<<part, vars, pages, accounts, online,
                                       rates, upgrades>>

---------------------------------------------------------------------------
\* Every component keeps its types.
TypesOK ==
    /\ TypeOK /\ HistoryTypeOK /\ AccountTypeOK /\ PresenceTypeOK /\ RateTypeOK /\ ConnTypeOK
=============================================================================
