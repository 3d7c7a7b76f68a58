------------------------------ MODULE Pairing ------------------------------
(***************************************************************************)
(* How a runtime comes by its credential.  The setup page asks the cloud   *)
(* for a code and polls it; a member of a site claims the code, in three   *)
(* queries; the runtime stores the token in a file, acknowledges it, and   *)
(* only then stores the identity that goes with it in its database.        *)
(*                                                                         *)
(* A claim mints a token and a runtime id: credential c is what claim c    *)
(* has minted, and 0 is what the runtime was installed with.               *)
(*                                                                         *)
(* Nothing serialises any of it.  The button of the setup page asks for    *)
(* another code while earlier ones are still polled, and the form of the   *)
(* connections page sends a claim while others are under way, of the same  *)
(* code or for the same site.                                              *)
(***************************************************************************)
EXTENDS Naturals

CONSTANTS
    Sites,           \* sites of the cloud
    MaxCodes,        \* bound on the codes the runtime asks for
    MaxClaims,       \* bound on the claims of members
    MaxStops         \* bound on the stops of the runtime

ASSUME PairingAssumption ==
    /\ Sites # {}
    /\ MaxCodes \in Nat \ {0} /\ MaxClaims \in Nat /\ MaxStops \in Nat

VARIABLES
    code,            \* rows of runtime_pairings
    claim,           \* claim -> how far it is
    registered,      \* site -> credential in runtime_registrations
    poll,            \* code -> how far the runtime's poll is
    ack,             \* code -> how far the cloud is with the acknowledgement
    disk,            \* the token file, and the row of runtime_identity
    session,         \* token and identity the gateway uses
    page,            \* what the setup page shows
    stops,           \* stops of the runtime so far
    stored,          \* history: credentials that were written to the file
    torn,            \* history: a token was taken, or the runtime stopped, while an
                     \* earlier token waited for its identity
    crossed          \* history: claims that met an earlier one for their site

pairingCloud == <<code, claim, registered, ack>>
pairingHome  == <<poll, disk, session, page, stops, stored, torn>>
pairingVars  == <<pairingCloud, pairingHome, crossed>>

Codes  == 1..MaxCodes
Claims == 1..MaxClaims
Pair(c) == [token |-> c, identity |-> c]

PairingTypeOK ==
    /\ code \in [Codes -> [status : {"none", "pending", "claimed", "ready"},
                           issued : 0..MaxClaims, expired : BOOLEAN]]
    /\ claim \in [Claims -> [at : {"new", "found", "registered", "done", "unknown"},
                             code : Codes, site : Sites]]
    /\ registered \in [Sites -> 0..MaxClaims]
    /\ poll \in [Codes -> [at : {"none", "polling", "acking", "over"}, got : 0..MaxClaims]]
    /\ ack \in [Codes -> {"none", "sent", "found", "answered"}]
    /\ disk \in [token : 0..MaxClaims, identity : 0..MaxClaims]
    /\ session \in [token : 0..MaxClaims, identity : 0..MaxClaims]
    /\ page \in [status : {"idle", "pending", "ready", "timeout"}, code : 0..MaxCodes]
    /\ stops \in 0..MaxStops
    /\ stored \subseteq Claims
    /\ torn \in BOOLEAN
    /\ crossed \subseteq Claims

PairingInit ==
    /\ code = [p \in Codes |-> [status |-> "none", issued |-> 0, expired |-> FALSE]]
    /\ claim = [c \in Claims |-> [at |-> "new", code |-> 1, site |-> CHOOSE s \in Sites : TRUE]]
    /\ registered = [s \in Sites |-> 0]
    /\ poll = [p \in Codes |-> [at |-> "none", got |-> 0]]
    /\ ack = [p \in Codes |-> "none"]
    /\ disk = Pair(0) /\ session = Pair(0)
    /\ page = [status |-> "idle", code |-> 0]
    /\ stops = 0 /\ stored = {} /\ torn = FALSE /\ crossed = {}

-----------------------------------------------------------------------------
(* The runtime. *)

\* requestPairing: a row, a poll, and the code on the page.
RequestPairing(p) ==
    /\ code[p].status = "none"
    /\ \A q \in 1..(p - 1) : code[q].status # "none"
    /\ code' = [code EXCEPT ![p].status = "pending"]
    /\ poll' = [poll EXCEPT ![p].at = "polling"]
    /\ page' = [status |-> "pending", code |-> p]
    /\ UNCHANGED <<claim, registered, ack, disk, session, stops, stored, torn, crossed>>

\* readPairing: what a poll or an acknowledgement is answered.
ReadPairing(p) == IF code[p].expired THEN "pending" ELSE code[p].status

\* The poll finds the code claimed: the token is written, the cloud is told.
PollTakes(p) ==
    /\ poll[p].at = "polling"
    /\ ReadPairing(p) = "claimed"
    /\ poll' = [poll EXCEPT ![p] = [at |-> "acking", got |-> code[p].issued]]
    /\ disk' = [disk EXCEPT !.token = code[p].issued]
    /\ stored' = stored \cup {code[p].issued}
    /\ ack' = [ack EXCEPT ![p] = "sent"]
    /\ torn' = (torn \/ \E q \in Codes : poll[q].at = "acking")
    /\ UNCHANGED <<code, claim, registered, session, page, stops, crossed>>

\* Sixty polls found nothing.
PollGivesUp(p) ==
    /\ poll[p].at = "polling"
    /\ poll' = [poll EXCEPT ![p].at = "over"]
    /\ page' = [status |-> "timeout", code |-> p]
    /\ UNCHANGED <<pairingCloud, disk, session, stops, stored, torn, crossed>>

\* Mutant: the gateway is told, and the identity is not stored.
TakesTokenOnly(p) ==
    /\ poll[p].at = "acking"
    /\ ack[p] = "answered"
    /\ poll' = [poll EXCEPT ![p].at = "over"]
    /\ page' = [status |-> "ready", code |-> p]
    /\ session' = Pair(poll[p].got)
    /\ UNCHANGED <<pairingCloud, disk, stops, stored, torn, crossed>>

\* The acknowledgement is answered, well or not: onCredential stores the identity
\* and has the gateway use the pair.
TakesCredential(p) ==
    /\ poll[p].at = "acking"
    /\ ack[p] = "answered"
    /\ poll' = [poll EXCEPT ![p].at = "over"]
    /\ page' = [status |-> "ready", code |-> p]
    /\ disk' = [disk EXCEPT !.identity = poll[p].got]
    /\ session' = Pair(poll[p].got)
    /\ UNCHANGED <<pairingCloud, stops, stored, torn, crossed>>

\* The runtime stops, as it does when a poll or an acknowledgement cannot be sent
\* and nobody takes the rejection, and starts with what is on the disk.
Restarts ==
    /\ stops < MaxStops
    /\ stops' = stops + 1
    /\ torn' = (torn \/ \E p \in Codes : poll[p].at = "acking")
    /\ poll' = [p \in Codes |-> IF poll[p].at = "none" THEN poll[p]
                                ELSE [poll[p] EXCEPT !.at = "over"]]
    /\ session' = disk
    /\ page' = [status |-> "idle", code |-> 0]
    /\ UNCHANGED <<pairingCloud, disk, stored, crossed>>

-----------------------------------------------------------------------------
(* The cloud. *)

\* Ten minutes are over.
Expire(p) ==
    /\ code[p].status # "none" /\ ~code[p].expired
    /\ code' = [code EXCEPT ![p].expired = TRUE]
    /\ UNCHANGED <<claim, registered, ack, pairingHome, crossed>>

UnderWay(c) == claim[c].at \in {"found", "registered"}
LetIn(c)    == claim[c].at \in {"found", "registered", "done"}

\* claimPairing looks for a code that is pending and has not expired ...
ClaimPairing(c, p, s) ==
    /\ claim[c].at = "new"
    /\ \A d \in 1..(c - 1) : claim[d].at # "new"
    /\ \/ /\ code[p].status = "pending" /\ ~code[p].expired
          /\ claim' = [claim EXCEPT ![c] = [at |-> "found", code |-> p, site |-> s]]
          /\ crossed' = IF \E d \in Claims : UnderWay(d) /\ claim[d].site = s
                        THEN crossed \cup {c} ELSE crossed
       \/ /\ code[p].status # "pending" \/ code[p].expired
          /\ claim' = [claim EXCEPT ![c] = [at |-> "unknown", code |-> p, site |-> s]]
          /\ UNCHANGED crossed
    /\ UNCHANGED <<code, registered, ack, pairingHome>>

\* ... registers a new runtime at the site, in place of the one there is ...
Registers(c) ==
    /\ claim[c].at = "found"
    /\ registered' = [registered EXCEPT ![claim[c].site] = c]
    /\ claim' = [claim EXCEPT ![c].at = "registered"]
    /\ UNCHANGED <<code, ack, pairingHome, crossed>>

\* ... and leaves the token in the row of the code, whatever it holds by now.
Issues(c) ==
    /\ claim[c].at = "registered"
    /\ code' = [code EXCEPT ![claim[c].code].status = "claimed", ![claim[c].code].issued = c]
    /\ claim' = [claim EXCEPT ![c].at = "done"]
    /\ UNCHANGED <<registered, ack, pairingHome, crossed>>

\* ackPairing reads the code ...
AckReads(p) ==
    /\ ack[p] = "sent"
    /\ ack' = [ack EXCEPT ![p] = IF ReadPairing(p) = "pending" THEN "answered" ELSE "found"]
    /\ UNCHANGED <<code, claim, registered, pairingHome, crossed>>

\* Mutant: a status that is not in the contract.
AckMarksAcked(p) ==
    /\ ack[p] = "found"
    /\ code' = [code EXCEPT ![p].status = "acked", ![p].issued = 0]
    /\ ack' = [ack EXCEPT ![p] = "answered"]
    /\ UNCHANGED <<claim, registered, pairingHome, crossed>>

\* ... and empties it.
AckMarks(p) ==
    /\ ack[p] = "found"
    /\ code' = [code EXCEPT ![p].status = "ready", ![p].issued = 0]
    /\ ack' = [ack EXCEPT ![p] = "answered"]
    /\ UNCHANGED <<claim, registered, pairingHome, crossed>>

PairingNext ==
    \/ Restarts
    \/ \E p \in Codes :
          \/ RequestPairing(p) \/ PollTakes(p) \/ PollGivesUp(p) \/ TakesCredential(p)
          \/ Expire(p) \/ AckReads(p) \/ AckMarks(p)
    \/ \E c \in Claims : Registers(c) \/ Issues(c) \/ \E p \in Codes, s \in Sites : ClaimPairing(c, p, s)

PairingSpec == PairingInit /\ [][PairingNext]_pairingVars

-----------------------------------------------------------------------------
(***************************************************************************)
(* Token and identity belong together, on the disk and in use, unless a    *)
(* credential is just being handed over, or one was cut off by a stop or   *)
(* by the next one: the cloud closes every socket whose token is of        *)
(* another runtime.                                                        *)
(***************************************************************************)
CredentialsAgree ==
    /\ ~torn /\ (\A p \in Codes : poll[p].at # "acking") => disk.token = disk.identity
    /\ ~torn => session.token = session.identity

\* Both were let in on one code.
ShareCode(c, d) == LetIn(c) /\ LetIn(d) /\ claim[c].code = claim[d].code

(***************************************************************************)
(* A token is lost on the way to the runtime only where a second claim was *)
(* let in on the same code, however many claims run side by side: the      *)
(* cloud forgets any other one only after the runtime has stored it.  And  *)
(* a token the runtime holds is one its site knows, unless the site was    *)
(* claimed again since, or an earlier claim for it was still under way.    *)
(***************************************************************************)
NoTokenIsLost ==
    \A c \in Claims :
        /\ claim[c].at = "done" => \/ c \in stored
                                  \/ code[claim[c].code].issued = c
                                  \/ \E d \in Claims \ {c} : ShareCode(c, d)
        /\ c \in stored \ crossed => registered[claim[c].site] >= c

PairingHolds == CredentialsAgree /\ NoTokenIsLost

-----------------------------------------------------------------------------
(* Not kept. *)

(***************************************************************************)
(* Token and identity agree even if the runtime may stop at any time.  It  *)
(* is not so: see README.                                                  *)
(***************************************************************************)
AlwaysAgree == session.token = session.identity

(***************************************************************************)
(* A code serves once: of the claims of one code, one at most is carried   *)
(* out.  It is not so: of two that read the row before either writes it,   *)
(* both are (see README).                                                  *)
(***************************************************************************)
CodeIsUsedOnce ==
    \A c, d \in Claims :
        claim[c].at = "done" /\ claim[d].at = "done" /\ claim[c].code = claim[d].code => c = d
=============================================================================
