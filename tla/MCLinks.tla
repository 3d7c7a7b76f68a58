------------------------------- MODULE MCLinks -------------------------------
(***************************************************************************)
(* The connections over which the house, the runtime, the cloud and a page *)
(* keep pictures of each other.  They share no state and are checked each  *)
(* by itself: `part' says which one a behaviour is of.                     *)
(***************************************************************************)
EXTENDS Gateway, DeviceCatalog, HaLink, RunPage

VARIABLE part

vars == <<gatewayVars, catalogVars, haVars, runPageVars, part>>

Parts == {"gateway", "catalog", "ha", "page"}

LinksTypeOK ==
    /\ part \in Parts
    /\ part = "gateway" => GatewayTypeOK
    /\ part = "catalog" => CatalogTypeOK
    /\ part = "ha"      => HaTypeOK
    /\ part = "page"    => RunPageTypeOK

Init ==
    /\ GatewayInit /\ CatalogInit /\ HaInit /\ RunPageInit
    /\ part \in Parts

Next ==
    /\ UNCHANGED part
    /\ \/ /\ part = "gateway" /\ GatewayNext
          /\ UNCHANGED <<catalogVars, haVars, runPageVars>>
       \/ /\ part = "catalog" /\ CatalogNext
          /\ UNCHANGED <<gatewayVars, haVars, runPageVars>>
       \/ /\ part = "ha" /\ HaNext
          /\ UNCHANGED <<gatewayVars, catalogVars, runPageVars>>
       \/ /\ part = "page" /\ RunPageNext
          /\ UNCHANGED <<gatewayVars, catalogVars, haVars>>

\* The fairness of each part, where it runs.
Fairness ==
    /\ WF_gatewayVars(part = "gateway" /\ client.at = "waiting" /\ Connect)
    /\ WF_gatewayVars(part = "gateway" /\ Opens)
    /\ WF_gatewayVars(part = "gateway" /\ Tick)
    /\ WF_gatewayVars(part = "gateway" /\ Expires)
    /\ \A s \in Links :
          /\ WF_gatewayVars(part = "gateway" /\ (SeesClose(s) \/ GivesUp(s)))
          /\ WF_gatewayVars(part = "gateway" /\ Authenticates(s))
          /\ WF_gatewayVars(part = "gateway" /\ (Takes(s) \/ MarksHello(s) \/ Touches(s)))
          /\ WF_gatewayVars(part = "gateway" /\ s \notin dead /\ HearsClose(s))
    /\ \A g \in 0..MaxSockets : WF_gatewayVars(part = "gateway" /\ MarksOffline(g))
    /\ WF_catalogVars(part = "catalog" /\ (TakesMessage \/ ReplacesOne \/ HidesOthers \/ Accepts))
    /\ WF_catalogVars(part = "catalog" /\ Reports)
    /\ WF_catalogVars(part = "catalog" /\ Reconnects)
    /\ WF_catalogVars(part = "catalog" /\ \E q \in calling : CallReturns(q) \/ CallFails(q))
    /\ \A r \in Requests : WF_catalogVars(part = "catalog" /\ (TimesOut(r) \/ WritesAgain(r)))
    /\ WF_haVars(part = "ha" /\ ReportsHa)
    /\ \A l \in Socks : /\ WF_haVars(part = "ha" /\ (Accepted(l) \/ Serves(l)))
                        /\ WF_haVars(part = "ha" /\ TakesFrom(l))
    /\ \A h \in Handles : WF_haVars(part = "ha" /\ Reopens(h))
    /\ WF_runPageVars(part = "page" /\ \E n \in Summaries : Stores(n))
    /\ WF_runPageVars(part = "page" /\ \E n \in Summaries : Projects(n))
    /\ WF_runPageVars(part = "page" /\ Polls)
    /\ \A v \in 0..MaxSummaries : WF_runPageVars(part = "page" /\ Applies(v))

Spec == Init /\ [][Next]_vars /\ Fairness

-----------------------------------------------------------------------------
(* The properties of the parts. *)

\* What each side knows of the other is so: the hub speaks over the socket it
\* should, the answers about devices are true, the starts that Home Assistant
\* causes are news, and the stream of a run has no gaps.
PicturesAreTrue ==
    /\ part = "gateway" => HubSpeaks
    /\ part = "catalog" => AnswersAreTrue
    /\ part = "ha"      => StartsAreNews
    /\ part = "page"    => StreamIsWhole

\* And in the end it is all there is, each where its part runs: the runtime is
\* shown as it is, the devices shown agree with those of the house, the link to
\* Home Assistant comes back, and the page shows the run.
OnlyIn(p) == <>[](part = p)

GatewayIsShown     == OnlyIn("gateway") => RuntimeIsShown
CatalogShownAgrees == OnlyIn("catalog") => ShownAgrees
HaLinkComesBack    == OnlyIn("ha") => LinkComesBack
RunPageSettles     == OnlyIn("page") => PageSettles
=============================================================================
