------------------------------ MODULE MCPrograms ------------------------------
(***************************************************************************)
(* The programs of examples/, one at a time: two callers that sign in (two *)
(* processes that share the file, two goroutines that share a PsyNet, the  *)
(* programs that share nothing), or one of the programs that go on to use  *)
(* the wrappers once setup.RPC has returned.                               *)
(***************************************************************************)
EXTENDS SignIn, AllRequests, ItemShop

CONSTANTS p1, p2

Cast(first, second) == [c \in Callers |-> IF c = p1 THEN first ELSE second]
MCCasts == {Cast("setup", "setup"), Cast("library", "library"),
            Cast("auth", "device"), Cast("steam", "device")}

ASSUME SetupAssumption == Cast("setup", "setup") \in Casts

VARIABLE running

programVars == <<running, vars, requestVars, shopVars>>

ProgramInit ==
    /\ \/ running = "signin" /\ Init
       \/ /\ running \in {"allrequests", "itemshop"}
          /\ program = Cast("setup", "setup") /\ pc = [c \in Callers |-> "in"] /\ NothingYet
    /\ RequestInit /\ ShopInit

SigningIn == running = "signin" /\ UNCHANGED <<running, requestVars, shopVars>>
Finished  == (over # "no" \/ step \in {"end", "panic"}) /\ UNCHANGED programVars

ProgramNext ==
    \/ SigningIn /\ Next
    \/ running = "allrequests" /\ RequestNext /\ UNCHANGED <<running, vars, shopVars>>
    \/ running = "itemshop" /\ ShopNext /\ UNCHANGED <<running, vars, requestVars>>
    \/ Finished

\* The fairness of SignIn.
ProgramSpec ==
    /\ ProgramInit /\ [][ProgramNext]_programVars
    /\ \A c \in Callers : WF_programVars(SigningIn /\ Local(c))
                        /\ WF_programVars(SigningIn /\ EpicFails(c))
    /\ WF_programVars(SigningIn /\ SetField)

\* All programs keep their variables to their domains, and allrequests always has a
\* next step until it ends (allrequests/main.go:15-91, itemshop/main.go:20-97,
\* setup.go:15-70).
ProgramsTypeOK == TypeOK /\ RequestTypeOK /\ ShopTypeOK
===============================================================================
