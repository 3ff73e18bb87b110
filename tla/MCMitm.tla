--------------------------------- MODULE MCMitm ---------------------------------
(***************************************************************************)
(* The program of tools/mitm/main.go: an exchange through the proxy, and   *)
(* the session of the relay that its answer leads to.                      *)
(***************************************************************************)
EXTENDS MitmRelay, MitmProxy

mitmVars == <<vars, proxyVars>>

MitmInit == Init /\ ProxyInit

NoSession ==
    /\ stage = "failed" \/ (stage = "answered" /\ response.body # Rewritten(Result))
    /\ UNCHANGED mitmVars

Relays == stage = "socket" /\ UNCHANGED proxyVars

MitmNext == \/ ProxyNext /\ UNCHANGED vars
            \/ Relays /\ Next
            \/ NoSession

MitmSpec ==
    /\ MitmInit /\ [][MitmNext]_mitmVars
    /\ WF_mitmVars(Relays /\ Handler) /\ WF_mitmVars(Relays /\ Upstream)
=================================================================================
