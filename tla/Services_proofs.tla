-------------------------- MODULE Services_proofs --------------------------
(***************************************************************************)
(* Theorems about the services that are modelled one by one: pairing and   *)
(* access, nodes, MCP servers and times, after those of the studio, which  *)
(* are in the module this one extends.  Each service has an inductive      *)
(* invariant of its own, that the steps of the others do not touch; the    *)
(* theorems about `Spec' put them together at the end.                     *)
(***************************************************************************)
EXTENDS Studio_proofs

-----------------------------------------------------------------------------
(***************************************************************************)
(* Pairing.  Any number of codes are polled and of claims are under way.   *)
(* What a code's row holds is the token of a claim of that code; once the  *)
(* runtime has taken one from there, whatever another claim leaves is of a *)
(* code that two claims share.  Claims begin in their order, so that one   *)
(* that is registered after a later one for its site has been met by it.   *)
(***************************************************************************)
PollInv ==
    ~torn =>
        /\ \A p, q \in Codes : poll[p].at = "acking" /\ poll[q].at = "acking" => p = q
        /\ \A p \in Codes : poll[p].at = "acking" => disk.token = poll[p].got

\* A code that is polled has been asked for.
AskedInv == \A p \in Codes : poll[p].at # "none" => code[p].status # "none"

Shared(c) == \E d \in Claims \ {c} : ShareCode(c, d)

CodeInv ==
    \A p \in Codes :
        /\ code[p].status = "claimed" => code[p].issued # 0
        /\ code[p].issued # 0 =>
              claim[code[p].issued].at = "done" /\ claim[code[p].issued].code = p
        /\ ack[p] # "none" => /\ \E d \in stored : claim[d].code = p
                              /\ code[p].issued \in stored \cup {0} \/ Shared(code[p].issued)

ClaimInv ==
    /\ \A c \in Claims : claim[c].at = "new" => \A d \in Claims : d > c => claim[d].at = "new"
    /\ \A c \in stored : claim[c].at = "done"

SiteInv ==
    /\ \A c, d \in Claims : LetIn(c) /\ UnderWay(d) /\ d < c /\ claim[d].site = claim[c].site
                              => c \in crossed
    /\ \A c \in Claims \ crossed :
          claim[c].at \in {"registered", "done"} => registered[claim[c].site] >= c

DoneInv ==
    \A c \in Claims : claim[c].at = "done" =>
        c \in stored \/ code[claim[c].code].issued = c \/ Shared(c)

PairingInv ==
    /\ PairingTypeOK /\ AskedInv /\ PollInv /\ CodeInv /\ ClaimInv /\ SiteInv /\ DoneInv
    /\ CredentialsAgree

CodeRow  == [status : {"none", "pending", "claimed", "ready"}, issued : 0..MaxClaims,
             expired : BOOLEAN]
ClaimRow == [at : {"new", "found", "registered", "done", "unknown"}, code : Codes, site : Sites]
PollRow  == [at : {"none", "polling", "acking", "over"}, got : 0..MaxClaims]
PairRow  == [token : 0..MaxClaims, identity : 0..MaxClaims]
PageRow  == [status : {"idle", "pending", "ready", "timeout"}, code : 0..MaxCodes]

LEMMA PairingTypes ==
  PairingTypeOK <=>
    /\ code \in [Codes -> CodeRow] /\ claim \in [Claims -> ClaimRow]
    /\ registered \in [Sites -> 0..MaxClaims]
    /\ poll \in [Codes -> PollRow]
    /\ ack \in [Codes -> {"none", "sent", "found", "answered"}]
    /\ disk \in PairRow /\ session \in PairRow /\ page \in PageRow
    /\ stops \in 0..MaxStops /\ stored \subseteq Claims /\ torn \in BOOLEAN
    /\ crossed \subseteq Claims
BY DEF PairingTypeOK, CodeRow, ClaimRow, PollRow, PairRow, PageRow

LEMMA CodeUpdates ==
  ASSUME NEW r \in CodeRow
  PROVE  /\ \A st \in {"none", "pending", "claimed", "ready"} : [r EXCEPT !.status = st] \in CodeRow
         /\ [r EXCEPT !.expired = TRUE] \in CodeRow
         /\ r.issued \in 0..MaxClaims /\ r.status \in {"none", "pending", "claimed", "ready"}
BY DEF CodeRow

LEMMA ClaimUpdates ==
  ASSUME NEW r \in ClaimRow
  PROVE  /\ \A at \in {"new", "found", "registered", "done", "unknown"} :
               [r EXCEPT !.at = at] \in ClaimRow
         /\ r.code \in Codes /\ r.site \in Sites
BY DEF ClaimRow

LEMMA PollUpdates ==
  ASSUME NEW r \in PollRow
  PROVE  /\ \A at \in {"none", "polling", "acking", "over"} : [r EXCEPT !.at = at] \in PollRow
         /\ r.got \in 0..MaxClaims
BY DEF PollRow

LEMMA PairingStarts == PairingInit => PairingInv
<1> SUFFICES ASSUME PairingInit PROVE PairingInv
  OBVIOUS
<1>1. 0 \in 0..MaxClaims /\ 1 \in Codes /\ (CHOOSE s \in Sites : TRUE) \in Sites
      /\ 0 \in 0..MaxCodes /\ 0 \in 0..MaxStops
  BY PairingAssumption DEF Codes
<1>2. PICK s \in Sites : claim = [c \in Claims |-> [at |-> "new", code |-> 1, site |-> s]]
  BY <1>1, Zenon DEF PairingInit
<1>3. /\ code = [p \in Codes |-> [status |-> "none", issued |-> 0, expired |-> FALSE]]
      /\ registered = [t \in Sites |-> 0] /\ poll = [p \in Codes |-> [at |-> "none", got |-> 0]]
      /\ ack = [p \in Codes |-> "none"] /\ disk = Pair(0) /\ session = Pair(0)
      /\ page = [status |-> "idle", code |-> 0] /\ stops = 0
  BY Zenon DEF PairingInit
<1>4. stored = {} /\ torn \in BOOLEAN /\ crossed = {}
  BY Zenon DEF PairingInit
<1>5. PairingTypeOK
  BY <1>1, <1>2, <1>3, <1>4 DEF PairingTypeOK, Pair
<1>6. AskedInv /\ PollInv /\ CodeInv /\ CredentialsAgree
  BY <1>3, <1>4 DEF AskedInv, PollInv, CodeInv, CredentialsAgree, Pair
<1>7. ClaimInv /\ SiteInv /\ DoneInv
  BY <1>2, <1>3, <1>4 DEF ClaimInv, SiteInv, DoneInv, LetIn
<1> QED BY <1>5, <1>6, <1>7 DEF PairingInv

\* However many codes are polled and claimed at a time, a code that is claimed has a token.
IssuedInv == \A p \in Codes : code[p].status = "claimed" => code[p].issued # 0

LEMMA PairingType ==
  ASSUME PairingTypeOK, IssuedInv, [PairingNext]_pairingVars PROVE PairingTypeOK'
<1>t. /\ code \in [Codes -> CodeRow] /\ claim \in [Claims -> ClaimRow]
      /\ registered \in [Sites -> 0..MaxClaims]
      /\ poll \in [Codes -> PollRow]
      /\ ack \in [Codes -> {"none", "sent", "found", "answered"}]
      /\ disk \in PairRow /\ session \in PairRow /\ page \in PageRow
      /\ stops \in 0..MaxStops /\ stored \subseteq Claims /\ torn \in BOOLEAN
      /\ crossed \subseteq Claims
  BY PairingTypes
<1> DEFINE Goal ==
      /\ code' \in [Codes -> CodeRow] /\ claim' \in [Claims -> ClaimRow]
      /\ registered' \in [Sites -> 0..MaxClaims]
      /\ poll' \in [Codes -> PollRow]
      /\ ack' \in [Codes -> {"none", "sent", "found", "answered"}]
      /\ disk' \in PairRow /\ session' \in PairRow /\ page' \in PageRow
      /\ stops' \in 0..MaxStops /\ stored' \subseteq Claims /\ torn' \in BOOLEAN
      /\ crossed' \subseteq Claims
<1> SUFFICES Goal
  BY PairingTypes DEF CodeRow, ClaimRow, PollRow, PairRow, PageRow, PairingTypeOK
<1>0. CASE UNCHANGED pairingVars
  BY <1>t, <1>0 DEF pairingVars, pairingCloud, pairingHome
<1>1. CASE Restarts
  <2>1. poll' \in [Codes -> PollRow]
    BY <1>t, <1>1, PollUpdates DEF Restarts
  <2>2. page' \in PageRow /\ stops' \in 0..MaxStops /\ torn' \in BOOLEAN /\ session' = disk
    BY <1>t, <1>1, PairingAssumption DEF Restarts, PageRow
  <2> QED BY <1>t, <1>1, <2>1, <2>2 DEF Restarts, pairingCloud
<1>2. ASSUME NEW p \in Codes, RequestPairing(p) PROVE Goal
  <2>1. page' \in PageRow
    BY <1>2, PairingAssumption DEF RequestPairing, PageRow, Codes
  <2> QED BY <1>t, <1>2, <2>1, CodeUpdates, PollUpdates DEF RequestPairing
<1>3. ASSUME NEW p \in Codes, PollTakes(p) PROVE Goal
  <2>1. code[p].status = "claimed" /\ code[p].issued \in 0..MaxClaims /\ code[p].issued # 0
    BY <1>t, <1>3, CodeUpdates DEF PollTakes, ReadPairing, IssuedInv
  <2>2. PICK c : c = code[p].issued
    OBVIOUS
  <2>3. c \in Claims /\ c \in 0..MaxClaims
    BY <2>1, <2>2, PairingAssumption DEF Claims
  <2>4. [at |-> "acking", got |-> c] \in PollRow /\ [disk EXCEPT !.token = c] \in PairRow
    BY <1>t, <2>3 DEF PollRow, PairRow
  <2> QED BY <1>t, <1>3, <2>2, <2>3, <2>4 DEF PollTakes
<1>4. ASSUME NEW p \in Codes, PollGivesUp(p) PROVE Goal
  <2>1. page' \in PageRow
    BY <1>4, PairingAssumption DEF PollGivesUp, PageRow, Codes
  <2> QED BY <1>t, <1>4, <2>1, PollUpdates DEF PollGivesUp, pairingCloud
<1>5. ASSUME NEW p \in Codes, TakesCredential(p) PROVE Goal
  <2>1. page' \in PageRow
    BY <1>5, PairingAssumption DEF TakesCredential, PageRow, Codes
  <2>2. PICK c : c = poll[p].got
    OBVIOUS
  <2>3. c \in 0..MaxClaims
    BY <1>t, <2>2, PollUpdates
  <2>4. [disk EXCEPT !.identity = c] \in PairRow /\ Pair(c) \in PairRow
    BY <1>t, <2>3 DEF PairRow, Pair
  <2> QED BY <1>t, <1>5, <2>1, <2>2, <2>4, PollUpdates DEF TakesCredential, pairingCloud
<1>6. ASSUME NEW p \in Codes, Expire(p) PROVE Goal
  BY <1>t, <1>6, CodeUpdates DEF Expire, pairingHome
<1>7. ASSUME NEW p \in Codes, AckReads(p) PROVE Goal
  BY <1>t, <1>7 DEF AckReads, pairingHome
<1>8. ASSUME NEW p \in Codes, AckMarks(p) PROVE Goal
  <2>1. PICK r : r = code[p] /\ r \in CodeRow
    BY <1>t
  <2>2. 0 \in 0..MaxClaims
    BY PairingAssumption
  <2>3. [r EXCEPT !.status = "ready", !.issued = 0] \in CodeRow
    BY <2>1, <2>2 DEF CodeRow
  <2> QED BY <1>t, <1>8, <2>1, <2>3 DEF AckMarks, pairingHome
<1>9. ASSUME NEW c \in Claims, Registers(c) PROVE Goal
  <2>1. c \in 0..MaxClaims
    BY PairingAssumption DEF Claims
  <2> QED BY <1>t, <1>9, <2>1, ClaimUpdates DEF Registers, pairingHome
<1>10. ASSUME NEW c \in Claims, Issues(c) PROVE Goal
  <2>0. claim[c].code \in Codes
    BY <1>t, ClaimUpdates
  <2>1. c \in 0..MaxClaims /\ claim[c].code \in Codes
    BY <2>0, PairingAssumption DEF Claims
  <2>2. PICK p, r : p = claim[c].code /\ r = code[p] /\ r \in CodeRow
    BY <1>t, <2>1
  <2>3. [r EXCEPT !.status = "claimed", !.issued = c] \in CodeRow
    BY <2>1, <2>2 DEF CodeRow
  <2> QED BY <1>t, <1>10, <2>1, <2>2, <2>3, ClaimUpdates DEF Issues, pairingHome
<1>11. ASSUME NEW c \in Claims, NEW p \in Codes, NEW s \in Sites, ClaimPairing(c, p, s) PROVE Goal
  <2>1. \A at \in {"found", "unknown"} : [at |-> at, code |-> p, site |-> s] \in ClaimRow
    BY DEF ClaimRow
  <2>2. crossed' \subseteq Claims
    BY <1>t, <1>11 DEF ClaimPairing
  <2>3. claim' \in [Claims -> ClaimRow]
    BY <1>t, <1>11, <2>1 DEF ClaimPairing
  <2> QED BY <1>t, <1>11, <2>2, <2>3 DEF ClaimPairing, pairingHome
<1> HIDE DEF Goal
<1> QED BY <1>0, <1>1, <1>2, <1>3, <1>4, <1>5, <1>6, <1>7, <1>8, <1>9, <1>10, <1>11
        DEF PairingNext

\* Where a step leaves the rows of the codes and the claims.
LEMMA PairingMoves ==
  ASSUME PairingTypeOK
  PROVE  /\ \A p \in Codes : RequestPairing(p) =>
              \A q \in Codes : /\ code'[q].status = (IF q = p THEN "pending" ELSE code[q].status)
                               /\ code'[q].issued = code[q].issued
                               /\ poll'[q].at = (IF q = p THEN "polling" ELSE poll[q].at)
                               /\ poll'[q].got = poll[q].got
         /\ \A p \in Codes : Expire(p) =>
              \A q \in Codes : code'[q].status = code[q].status /\ code'[q].issued = code[q].issued
         /\ \A p \in Codes : AckMarks(p) =>
              \A q \in Codes : /\ code'[q].status = (IF q = p THEN "ready" ELSE code[q].status)
                               /\ code'[q].issued = (IF q = p THEN 0 ELSE code[q].issued)
         /\ \A p \in Codes : PollTakes(p) =>
              \A q \in Codes : /\ poll'[q].at = (IF q = p THEN "acking" ELSE poll[q].at)
                               /\ poll'[q].got = (IF q = p THEN code[p].issued ELSE poll[q].got)
         /\ \A p \in Codes : PollGivesUp(p) \/ TakesCredential(p) =>
              \A q \in Codes : /\ poll'[q].at = (IF q = p THEN "over" ELSE poll[q].at)
                               /\ poll'[q].got = poll[q].got
         /\ \A c \in Claims : Registers(c) =>
              \A d \in Claims : /\ claim'[d].at = (IF d = c THEN "registered" ELSE claim[d].at)
                                /\ claim'[d].code = claim[d].code /\ claim'[d].site = claim[d].site
         /\ \A c \in Claims : Issues(c) =>
              /\ \A d \in Claims : /\ claim'[d].at = (IF d = c THEN "done" ELSE claim[d].at)
                                   /\ claim'[d].code = claim[d].code /\ claim'[d].site = claim[d].site
              /\ \A q \in Codes :
                    /\ code'[q].status = (IF q = claim[c].code THEN "claimed" ELSE code[q].status)
                    /\ code'[q].issued = (IF q = claim[c].code THEN c ELSE code[q].issued)
         /\ Restarts => \A q \in Codes : poll'[q].at \in {"none", "over"}
<1>t. code \in [Codes -> CodeRow] /\ claim \in [Claims -> ClaimRow] /\ poll \in [Codes -> PollRow]
  BY PairingTypes
<1> USE <1>t DEF CodeRow, ClaimRow, PollRow
<1>1. ASSUME NEW p \in Codes, RequestPairing(p), NEW q \in Codes
      PROVE  /\ code'[q].status = (IF q = p THEN "pending" ELSE code[q].status)
             /\ code'[q].issued = code[q].issued
             /\ poll'[q].at = (IF q = p THEN "polling" ELSE poll[q].at)
             /\ poll'[q].got = poll[q].got
  BY <1>1 DEF RequestPairing
<1>2. ASSUME NEW p \in Codes, Expire(p), NEW q \in Codes
      PROVE  code'[q].status = code[q].status /\ code'[q].issued = code[q].issued
  BY <1>2 DEF Expire
<1>3. ASSUME NEW p \in Codes, AckMarks(p), NEW q \in Codes
      PROVE  /\ code'[q].status = (IF q = p THEN "ready" ELSE code[q].status)
             /\ code'[q].issued = (IF q = p THEN 0 ELSE code[q].issued)
  BY <1>3 DEF AckMarks
<1>4. ASSUME NEW p \in Codes, PollTakes(p), NEW q \in Codes
      PROVE  /\ poll'[q].at = (IF q = p THEN "acking" ELSE poll[q].at)
             /\ poll'[q].got = (IF q = p THEN code[p].issued ELSE poll[q].got)
  BY <1>4 DEF PollTakes
<1>5. ASSUME NEW p \in Codes, PollGivesUp(p) \/ TakesCredential(p), NEW q \in Codes
      PROVE  /\ poll'[q].at = (IF q = p THEN "over" ELSE poll[q].at)
             /\ poll'[q].got = poll[q].got
  BY <1>5 DEF PollGivesUp, TakesCredential
<1>6. ASSUME NEW c \in Claims, Registers(c), NEW d \in Claims
      PROVE  /\ claim'[d].at = (IF d = c THEN "registered" ELSE claim[d].at)
             /\ claim'[d].code = claim[d].code /\ claim'[d].site = claim[d].site
  BY <1>6 DEF Registers
<1>7. ASSUME NEW c \in Claims, Issues(c), NEW d \in Claims
      PROVE  /\ claim'[d].at = (IF d = c THEN "done" ELSE claim[d].at)
             /\ claim'[d].code = claim[d].code /\ claim'[d].site = claim[d].site
  BY <1>7 DEF Issues
<1>8. ASSUME NEW c \in Claims, Issues(c), NEW q \in Codes
      PROVE  /\ code'[q].status = (IF q = claim[c].code THEN "claimed" ELSE code[q].status)
             /\ code'[q].issued = (IF q = claim[c].code THEN c ELSE code[q].issued)
  <2>1. PICK p : p = claim[c].code
    OBVIOUS
  <2>2. p \in Codes /\ code' = [code EXCEPT ![p].status = "claimed", ![p].issued = c]
    BY <1>8, <2>1 DEF Issues
  <2> QED BY <2>1, <2>2
<1>9. ASSUME Restarts, NEW q \in Codes PROVE poll'[q].at \in {"none", "over"}
  BY <1>9 DEF Restarts
<1> QED BY <1>1, <1>2, <1>3, <1>4, <1>5, <1>6, <1>7, <1>8, <1>9

LEMMA PairingTypesKept ==
  ASSUME PairingTypeOK, IssuedInv, [PairingNext]_pairingVars
  PROVE  PairingTypeOK' /\ IssuedInv'
<1>c. \A c \in Claims : c # 0
  BY PairingAssumption DEF Claims
<1>0. ASSUME UNCHANGED code PROVE IssuedInv'
  BY <1>0 DEF IssuedInv
<1>1. ASSUME \E p \in Codes : RequestPairing(p) \/ Expire(p) \/ AckMarks(p) PROVE IssuedInv'
  <2>1. \A q \in Codes : code'[q].status = "claimed" =>
           code[q].status = "claimed" /\ code'[q].issued = code[q].issued
    BY <1>1, PairingMoves
  <2> QED BY <2>1 DEF IssuedInv
<1>2. ASSUME \E c \in Claims : Issues(c) PROVE IssuedInv'
  <2>1. \A q \in Codes : code'[q].status = "claimed" =>
           \/ code'[q].issued \in Claims
           \/ code[q].status = "claimed" /\ code'[q].issued = code[q].issued
    BY <1>2, PairingMoves
  <2> QED BY <1>c, <2>1 DEF IssuedInv
<1>3. \/ UNCHANGED code
      \/ \E p \in Codes : RequestPairing(p) \/ Expire(p) \/ AckMarks(p)
      \/ \E c \in Claims : Issues(c)
  BY DEF PairingNext, Restarts, PollTakes, PollGivesUp, TakesCredential, AckReads, Registers,
         ClaimPairing, pairingVars, pairingCloud, pairingHome
<1> QED BY <1>0, <1>1, <1>2, <1>3, PairingType DEF IssuedInv

LEMMA AskedKept ==
  ASSUME PairingTypeOK, AskedInv, [PairingNext]_pairingVars PROVE AskedInv'
<1>t. poll \in [Codes -> PollRow] /\ \A c \in Claims : claim[c].code \in Codes
  BY PairingTypes, ClaimUpdates
<1>1. ASSUME \/ \E p \in Codes : Expire(p) \/ AckMarks(p)
             \/ \E c \in Claims : Issues(c)
      PROVE  AskedInv'
  <2>1. UNCHANGED poll
    BY <1>1 DEF Expire, AckMarks, Issues, pairingHome
  <2>2. \A q \in Codes : code'[q].status = "none" => code[q].status = "none"
    BY <1>1, PairingMoves
  <2> QED BY <2>1, <2>2 DEF AskedInv
<1>2. ASSUME NEW p \in Codes, RequestPairing(p) PROVE AskedInv'
  BY <1>2, PairingMoves DEF AskedInv
<1>3. ASSUME \E p \in Codes : PollTakes(p) \/ PollGivesUp(p) \/ TakesCredential(p) PROVE AskedInv'
  <2>1. UNCHANGED code
    BY <1>3 DEF PollTakes, PollGivesUp, TakesCredential, pairingCloud
  <2>2. \A q \in Codes : poll'[q].at # "none" => poll[q].at # "none"
    BY <1>3, PairingMoves DEF PollTakes, PollGivesUp, TakesCredential
  <2> QED BY <2>1, <2>2 DEF AskedInv
<1>4. ASSUME Restarts PROVE AskedInv'
  <2>1. UNCHANGED code /\ \A q \in Codes : poll[q].at = "none" => poll'[q] = poll[q]
    BY <1>t, <1>4 DEF Restarts, pairingCloud
  <2> QED BY <2>1 DEF AskedInv
<1>5. ASSUME UNCHANGED <<code, poll>> PROVE AskedInv'
  BY <1>5 DEF AskedInv
<1>6. \/ UNCHANGED <<code, poll>> \/ Restarts
      \/ \E p \in Codes : Expire(p) \/ AckMarks(p)
      \/ \E c \in Claims : Issues(c)
      \/ \E p \in Codes : RequestPairing(p)
      \/ \E p \in Codes : PollTakes(p) \/ PollGivesUp(p) \/ TakesCredential(p)
  BY DEF PairingNext, AckReads, Registers, ClaimPairing, pairingVars, pairingCloud, pairingHome
<1> QED BY <1>1, <1>2, <1>3, <1>4, <1>5, <1>6

LEMMA PairingKept ==
  ASSUME PairingInv, [PairingNext]_pairingVars
  PROVE  PairingInv'
<1> DEFINE Rest == PollInv' /\ CodeInv' /\ ClaimInv' /\ SiteInv' /\ DoneInv' /\ CredentialsAgree'
<1>t. /\ code \in [Codes -> CodeRow] /\ claim \in [Claims -> ClaimRow]
      /\ registered \in [Sites -> 0..MaxClaims] /\ poll \in [Codes -> PollRow]
      /\ ack \in [Codes -> {"none", "sent", "found", "answered"}] /\ stored \subseteq Claims
      /\ disk \in PairRow /\ session \in PairRow /\ crossed \subseteq Claims
  BY PairingTypes DEF PairingInv
<1>i. AskedInv /\ PollInv /\ CodeInv /\ ClaimInv /\ SiteInv /\ DoneInv /\ CredentialsAgree
  BY DEF PairingInv
<1>m. PairingTypeOK /\ IssuedInv
  BY DEF PairingInv, CodeInv, IssuedInv
<1>c. Claims \in SUBSET (Nat \ {0})
  BY PairingAssumption DEF Claims
<1>r. 0..MaxClaims = Claims \cup {0}
  BY PairingAssumption DEF Claims
<1>k. /\ \A c \in Claims : claim[c].code \in Codes /\ claim[c].site \in Sites
      /\ \A p \in Codes : code[p].issued \in Claims \cup {0}
      /\ \A s \in Sites : registered[s] \in Claims \cup {0}
  BY <1>t, <1>r, ClaimUpdates, CodeUpdates
\* What a step leaves alone, and a claim that is let in stays so.
<1>u. /\ UNCHANGED <<torn, poll, disk>> => PollInv'
      /\ UNCHANGED <<code, claim, ack, stored>> => CodeInv'
      /\ UNCHANGED <<claim, stored>> => ClaimInv'
      /\ UNCHANGED <<code, claim, stored>> => DoneInv'
      /\ UNCHANGED <<registered, claim, crossed>> => SiteInv'
      /\ UNCHANGED <<torn, poll, disk, session>> => CredentialsAgree'
  BY <1>i DEF PollInv, CodeInv, ClaimInv, SiteInv, DoneInv, CredentialsAgree, UnderWay, LetIn,
              Shared, ShareCode
<1>h. ASSUME \A c \in Claims : LetIn(c) => LetIn(c)' /\ claim'[c].code = claim[c].code,
             NEW c \in Claims, Shared(c)
      PROVE  Shared(c)'
  BY <1>h DEF Shared, ShareCode
<1>0. ASSUME UNCHANGED pairingVars PROVE Rest
  <2>1. UNCHANGED <<code, claim, registered, ack, poll, disk, session, stored, torn, crossed>>
    BY <1>0 DEF pairingVars, pairingCloud, pairingHome
  <2> QED BY <1>u, <2>1
<1>1. ASSUME Restarts PROVE Rest
  <2>1. UNCHANGED <<code, claim, registered, ack, disk, stored, crossed>> /\ session' = disk
        /\ torn' = (torn \/ \E p \in Codes : poll[p].at = "acking")
    BY <1>1 DEF Restarts, pairingCloud
  <2>2. \A q \in Codes : poll'[q].at \in {"none", "over"}
    BY <1>1, <1>m, PairingMoves
  <2>3. PollInv'
    BY <2>2 DEF PollInv
  <2>4. CredentialsAgree'
    BY <1>i, <2>1 DEF CredentialsAgree
  <2> QED BY <1>u, <2>1, <2>3, <2>4
<1>2. ASSUME NEW p \in Codes, RequestPairing(p) PROVE Rest
  <2>1. UNCHANGED <<claim, registered, ack, disk, session, stored, torn, crossed>>
    BY <1>2 DEF RequestPairing
  <2>2. \A q \in Codes : /\ code'[q].status = (IF q = p THEN "pending" ELSE code[q].status)
                         /\ code'[q].issued = code[q].issued
                         /\ poll'[q].at = (IF q = p THEN "polling" ELSE poll[q].at)
                         /\ poll'[q].got = poll[q].got
    BY <1>2, <1>m, PairingMoves
  <2>5. poll[p].at # "acking"
    BY <1>2, <1>i DEF RequestPairing, AskedInv
  <2>3. PollInv' /\ CredentialsAgree'
    BY <1>i, <2>1, <2>2, <2>5 DEF PollInv, CredentialsAgree
  <2>4. CodeInv'
    BY <1>i, <2>1, <2>2 DEF CodeInv, Shared, ShareCode, LetIn
  <2>6. ClaimInv' /\ DoneInv'
    BY <1>i, <1>k, <2>1, <2>2 DEF ClaimInv, DoneInv, Shared, ShareCode, LetIn
  <2> QED BY <1>u, <2>1, <2>3, <2>4, <2>6
<1>3. ASSUME NEW p \in Codes, PollTakes(p) PROVE Rest
  <2>1. /\ UNCHANGED <<code, claim, registered, session, crossed>>
        /\ code[p].status = "claimed"
        /\ ack' = [ack EXCEPT ![p] = "sent"] /\ stored' = stored \cup {code[p].issued}
        /\ disk' = [disk EXCEPT !.token = code[p].issued]
        /\ torn' = (torn \/ \E q \in Codes : poll[q].at = "acking")
    BY <1>3 DEF PollTakes, ReadPairing
  <2>2. \A q \in Codes : /\ poll'[q].at = (IF q = p THEN "acking" ELSE poll[q].at)
                         /\ poll'[q].got = (IF q = p THEN code[p].issued ELSE poll[q].got)
    BY <1>3, <1>m, PairingMoves
  <2>3. disk'.token = code[p].issued /\ disk'.identity = disk.identity
    BY <1>t, <2>1 DEF PairRow
  <2>4. PollInv'
    BY <2>1, <2>2, <2>3 DEF PollInv
  <2>5. CredentialsAgree'
    BY <1>i, <2>1, <2>2 DEF CredentialsAgree
  <2>6. code[p].issued \in Claims /\ claim[code[p].issued].at = "done"
        /\ claim[code[p].issued].code = p
    BY <1>i, <1>k, <2>1 DEF CodeInv
  <2>7. CodeInv'
    <3>1. \A q \in Codes : q # p => ack'[q] = ack[q]
      BY <1>t, <2>1
    <3>2. UNCHANGED <<code, claim>> /\ stored \subseteq stored' /\ code[p].issued \in stored'
      BY <2>1
    <3>3. \A q \in Codes : Shared(code[q].issued)' <=> Shared(code[q].issued)
      BY <3>2 DEF Shared, ShareCode, LetIn
    <3> QED BY <1>i, <2>6, <3>1, <3>2, <3>3 DEF CodeInv
  <2>8. ClaimInv'
    BY <1>i, <2>1, <2>6 DEF ClaimInv
  <2>9. DoneInv'
    <3>1. UNCHANGED <<code, claim>> /\ stored \subseteq stored'
      BY <2>1
    <3>2. \A c \in Claims : Shared(c)' <=> Shared(c)
      BY <3>1 DEF Shared, ShareCode, LetIn
    <3> QED BY <1>i, <3>1, <3>2 DEF DoneInv
  <2> QED BY <1>u, <2>1, <2>4, <2>5, <2>7, <2>8, <2>9
<1>4. ASSUME NEW p \in Codes, PollGivesUp(p) PROVE Rest
  <2>1. UNCHANGED <<code, claim, registered, ack, disk, session, stored, torn, crossed>>
        /\ poll[p].at = "polling"
    BY <1>4 DEF PollGivesUp, pairingCloud
  <2>2. \A q \in Codes : /\ poll'[q].at = (IF q = p THEN "over" ELSE poll[q].at)
                         /\ poll'[q].got = poll[q].got
    BY <1>4, <1>m, PairingMoves
  <2>3. PollInv' /\ CredentialsAgree'
    BY <1>i, <2>1, <2>2 DEF PollInv, CredentialsAgree
  <2> QED BY <1>u, <2>1, <2>3
<1>5. ASSUME NEW p \in Codes, TakesCredential(p) PROVE Rest
  <2>1. /\ UNCHANGED <<code, claim, registered, ack, stored, torn, crossed>>
        /\ poll[p].at = "acking" /\ disk' = [disk EXCEPT !.identity = poll[p].got]
        /\ session' = Pair(poll[p].got)
    BY <1>5 DEF TakesCredential, pairingCloud
  <2>2. \A q \in Codes : /\ poll'[q].at = (IF q = p THEN "over" ELSE poll[q].at)
                         /\ poll'[q].got = poll[q].got
    BY <1>5, <1>m, PairingMoves
  <2>3. disk'.token = disk.token /\ disk'.identity = poll[p].got
        /\ session'.token = session'.identity
    BY <1>t, <2>1 DEF PairRow, Pair
  <2>4. PollInv' /\ CredentialsAgree'
    BY <1>i, <2>1, <2>2, <2>3 DEF PollInv, CredentialsAgree
  <2> QED BY <1>u, <2>1, <2>4
<1>6. ASSUME NEW p \in Codes, Expire(p) PROVE Rest
  <2>1. UNCHANGED <<claim, registered, ack, poll, disk, session, stored, torn, crossed>>
    BY <1>6 DEF Expire, pairingHome
  <2>2. \A q \in Codes : code'[q].status = code[q].status /\ code'[q].issued = code[q].issued
    BY <1>6, <1>m, PairingMoves
  <2>3. \A c : Shared(c)' <=> Shared(c)
    BY <2>1 DEF Shared, ShareCode, LetIn
  <2>4. CodeInv' /\ DoneInv'
    BY <1>i, <1>k, <2>1, <2>2, <2>3 DEF CodeInv, DoneInv
  <2> QED BY <1>u, <2>1, <2>4
<1>7. ASSUME NEW p \in Codes, AckReads(p) PROVE Rest
  <2>1. UNCHANGED <<code, claim, registered, poll, disk, session, stored, torn, crossed>>
        /\ ack[p] = "sent" /\ \A q \in Codes : q # p => ack'[q] = ack[q]
    BY <1>t, <1>7 DEF AckReads, pairingHome
  <2>2. \A c : Shared(c)' <=> Shared(c)
    BY <2>1 DEF Shared, ShareCode, LetIn
  <2>3. CodeInv'
    BY <1>i, <2>1, <2>2 DEF CodeInv
  <2> QED BY <1>u, <2>1, <2>3
<1>8. ASSUME NEW p \in Codes, AckMarks(p) PROVE Rest
  <2>1. UNCHANGED <<claim, registered, poll, disk, session, stored, torn, crossed>>
        /\ ack[p] = "found" /\ \A q \in Codes : q # p => ack'[q] = ack[q]
    BY <1>t, <1>8 DEF AckMarks, pairingHome
  <2>2. \A q \in Codes : /\ code'[q].status = (IF q = p THEN "ready" ELSE code[q].status)
                         /\ code'[q].issued = (IF q = p THEN 0 ELSE code[q].issued)
    BY <1>8, <1>m, PairingMoves
  <2>3. \A c : Shared(c)' <=> Shared(c)
    BY <2>1 DEF Shared, ShareCode, LetIn
  <2>4. /\ \E d \in stored : claim[d].code = p
        /\ code[p].issued \in stored \cup {0} \/ Shared(code[p].issued)
    BY <1>i, <2>1 DEF CodeInv
  <2>5. CodeInv'
    BY <1>i, <2>1, <2>2, <2>3, <2>4 DEF CodeInv
  <2>6. DoneInv'
    <3> SUFFICES ASSUME NEW c \in Claims, claim[c].at = "done"
                 PROVE  c \in stored \/ code'[claim[c].code].issued = c \/ Shared(c)
      BY <2>1, <2>3 DEF DoneInv
    <3>1. CASE claim[c].code = p
      BY <1>i, <1>c, <2>4, <3>1 DEF DoneInv
    <3>2. CASE claim[c].code # p
      BY <1>i, <1>k, <2>2, <3>2 DEF DoneInv
    <3> QED BY <3>1, <3>2
  <2> QED BY <1>u, <2>1, <2>5, <2>6
<1>9. ASSUME NEW c \in Claims, Registers(c) PROVE Rest
  <2>1. /\ UNCHANGED <<code, ack, poll, disk, session, stored, torn, crossed>>
        /\ claim[c].at = "found" /\ registered' = [registered EXCEPT ![claim[c].site] = c]
    BY <1>9 DEF Registers, pairingHome
  <2>2. \A d \in Claims : /\ claim'[d].at = (IF d = c THEN "registered" ELSE claim[d].at)
                          /\ claim'[d].code = claim[d].code /\ claim'[d].site = claim[d].site
    BY <1>9, <1>m, PairingMoves
  <2>3. /\ \A d \in Claims : (LetIn(d)' <=> LetIn(d)) /\ (UnderWay(d)' <=> UnderWay(d))
        /\ \A d \in Claims : claim'[d].at = "done" <=> claim[d].at = "done"
        /\ \A d \in Claims : claim'[d].at = "new" <=> claim[d].at = "new"
    BY <2>1, <2>2 DEF LetIn, UnderWay
  <2>4. \A d \in Claims : Shared(d)' <=> Shared(d)
    BY <2>2, <2>3 DEF Shared, ShareCode
  <2>5. CodeInv'
    <3>1. \A d \in stored : claim'[d].code = claim[d].code
      BY <1>t, <2>2
    <3>2. /\ UNCHANGED <<code, ack, stored>>
          /\ \A d \in Claims : claim'[d].code = claim[d].code
          /\ \A q \in Codes : code[q].issued # 0 => code[q].issued \in Claims
      BY <1>k, <2>1, <2>2
    <3>3. ASSUME NEW q \in Codes, code[q].issued \notin stored \cup {0}
          PROVE  Shared(code[q].issued)' <=> Shared(code[q].issued)
      BY <2>4, <3>2, <3>3
    <3>4. ASSUME NEW q \in Codes, code[q].issued # 0
          PROVE  claim'[code[q].issued].at = "done" /\ claim'[code[q].issued].code = q
      BY <1>i, <2>3, <3>2, <3>4 DEF CodeInv
    <3>5. ASSUME NEW q \in Codes, ack[q] # "none"
          PROVE  /\ \E d \in stored : claim'[d].code = q
                 /\ code[q].issued \in stored \cup {0} \/ Shared(code[q].issued)'
      BY <1>i, <3>1, <3>3, <3>5 DEF CodeInv
    <3>6. \A q \in Codes : code[q].status = "claimed" => code[q].issued # 0
      BY <1>i DEF CodeInv
    <3> QED BY <3>2, <3>4, <3>5, <3>6 DEF CodeInv
  <2>6. ClaimInv'
    BY <1>i, <1>t, <2>1, <2>3 DEF ClaimInv
  <2>7. DoneInv'
    BY <1>i, <2>1, <2>2, <2>3, <2>4 DEF DoneInv
  <2>8. SiteInv'
    <3>1. \A s \in Sites : registered'[s] = IF s = claim[c].site THEN c ELSE registered[s]
      BY <1>t, <2>1
    <3>2. (\A d, e \in Claims : LetIn(d) /\ UnderWay(e) /\ e < d /\ claim[e].site = claim[d].site
                                 => d \in crossed)'
      BY <1>i, <2>1, <2>2, <2>3 DEF SiteInv
    <3>3. ASSUME NEW d \in Claims \ crossed, claim'[d].at \in {"registered", "done"}
          PROVE  registered'[claim[d].site] >= d
      <4>1. CASE claim[d].site # claim[c].site
        <5>1. claim[d].at \in {"registered", "done"} /\ claim[d].site \in Sites
          BY <1>k, <2>2, <3>3, <4>1
        <5> QED BY <1>i, <3>1, <4>1, <5>1 DEF SiteInv
      <4>2. CASE claim[d].site = claim[c].site
        <5>1. LetIn(d) /\ UnderWay(c)
          BY <2>1, <2>2, <3>3 DEF LetIn, UnderWay
        <5>2. ~(c < d)
          BY <1>i, <4>2, <5>1, <3>3 DEF SiteInv
        <5>3. registered'[claim[d].site] = c
          BY <1>k, <3>1, <4>2
        <5> QED BY <1>c, <5>2, <5>3
      <4> QED BY <4>1, <4>2
    <3> QED BY <2>1, <2>2, <3>2, <3>3 DEF SiteInv
  <2> QED BY <1>u, <2>1, <2>5, <2>6, <2>7, <2>8
<1>10. ASSUME NEW c \in Claims, Issues(c) PROVE Rest
  <2>1. UNCHANGED <<registered, ack, poll, disk, session, stored, torn, crossed>>
        /\ claim[c].at = "registered"
    BY <1>10 DEF Issues, pairingHome
  <2>2. PICK p : p = claim[c].code
    OBVIOUS
  <2>3. /\ \A d \in Claims : /\ claim'[d].at = (IF d = c THEN "done" ELSE claim[d].at)
                             /\ claim'[d].code = claim[d].code /\ claim'[d].site = claim[d].site
        /\ \A q \in Codes : /\ code'[q].status = (IF q = p THEN "claimed" ELSE code[q].status)
                            /\ code'[q].issued = (IF q = p THEN c ELSE code[q].issued)
    BY <1>10, <2>2, <1>m, PairingMoves
  <2>4. p \in Codes /\ c # 0 /\ c \notin stored
    BY <1>k, <1>c, <1>i, <2>1, <2>2 DEF ClaimInv
  <2>5. /\ \A d \in Claims : LetIn(d)' <=> LetIn(d)
        /\ \A d \in Claims : UnderWay(d)' => UnderWay(d)
        /\ \A d \in Claims : claim'[d].at = "new" <=> claim[d].at = "new"
    BY <2>1, <2>3 DEF LetIn, UnderWay
  <2>6. \A d \in Claims : Shared(d)' <=> Shared(d)
    BY <2>3, <2>5 DEF Shared, ShareCode
  <2>7. \A d \in Claims : claim[d].at = "done" /\ claim[d].code = p => Shared(c) /\ Shared(d)
    BY <2>1, <2>2 DEF Shared, ShareCode, LetIn
  <2>8. \A d \in stored : d \in Claims /\ claim[d].at = "done" /\ claim'[d].code = claim[d].code
    BY <1>i, <1>t, <2>3 DEF ClaimInv
  <2>9. CodeInv'
    <3>1. ASSUME NEW q \in Codes, q = p
          PROVE  /\ code'[q].issued = c /\ claim'[c].at = "done" /\ claim'[c].code = p
                 /\ ack[q] # "none" => (\E d \in stored : claim'[d].code = q) /\ Shared(c)'
      <4>1. ack[q] # "none" => \E d \in stored : claim[d].code = q
        BY <1>i DEF CodeInv
      <4>2. ack[q] # "none" => Shared(c)
        BY <2>7, <2>8, <3>1, <4>1
      <4> QED BY <2>2, <2>3, <2>6, <2>8, <3>1, <4>1, <4>2
    <3>2. ASSUME NEW q \in Codes, q # p
          PROVE  /\ code'[q].issued = code[q].issued /\ code'[q].status = code[q].status
                 /\ code[q].issued # 0 => /\ claim'[code[q].issued].at = "done"
                                          /\ claim'[code[q].issued].code = q
                 /\ ack[q] # "none" => /\ \E d \in stored : claim'[d].code = q
                                       /\ code[q].issued \in stored \cup {0}
                                            \/ Shared(code[q].issued)'
      <4>1. code'[q].issued = code[q].issued /\ code'[q].status = code[q].status
        BY <2>3, <3>2
      <4>2. code[q].issued # 0 => /\ code[q].issued \in Claims /\ claim[code[q].issued].at = "done"
                                  /\ claim[code[q].issued].code = q
        BY <1>i, <1>k DEF CodeInv
      <4>3. ack[q] # "none" => \E d \in stored : claim[d].code = q
        BY <1>i DEF CodeInv
      <4>4. ack[q] # "none" => code[q].issued \in stored \cup {0} \/ Shared(code[q].issued)
        BY <1>i DEF CodeInv
      <4> QED BY <2>3, <2>6, <2>8, <4>1, <4>2, <4>3, <4>4
    <3>3. \A q \in Codes : code[q].status = "claimed" => code[q].issued # 0
      BY <1>i DEF CodeInv
    <3> QED BY <2>1, <2>4, <3>1, <3>2, <3>3 DEF CodeInv
  <2>10. ClaimInv'
    BY <1>i, <2>1, <2>3, <2>5, <2>8 DEF ClaimInv
  <2>11. DoneInv'
    <3> SUFFICES ASSUME NEW d \in Claims, claim'[d].at = "done", d \notin stored
                 PROVE  code'[claim[d].code].issued = d \/ Shared(d)
      BY <2>1, <2>3, <2>6 DEF DoneInv
    <3>1. CASE d = c
      BY <2>2, <2>3, <2>4, <3>1
    <3>2. CASE d # c /\ claim[d].code = p
      BY <2>3, <2>7, <3>2
    <3>3. CASE d # c /\ claim[d].code # p
      BY <1>i, <1>k, <2>3, <3>3 DEF DoneInv
    <3> QED BY <3>1, <3>2, <3>3
  <2>12. SiteInv'
    BY <1>i, <2>1, <2>3, <2>5 DEF SiteInv
  <2> QED BY <1>u, <2>1, <2>9, <2>10, <2>11, <2>12
<1>11. ASSUME NEW c \in Claims, NEW p \in Codes, NEW s \in Sites, ClaimPairing(c, p, s)
       PROVE  Rest
  <2>1. /\ UNCHANGED <<code, registered, ack, poll, disk, session, stored, torn>>
        /\ claim[c].at = "new" /\ \A d \in 1..(c - 1) : claim[d].at # "new"
    BY <1>11 DEF ClaimPairing, pairingHome
  <2>2. /\ \A d \in Claims : d # c => claim'[d] = claim[d]
        /\ claim'[c].at \in {"found", "unknown"} /\ claim'[c].code = p /\ claim'[c].site = s
    BY <1>t, <1>11 DEF ClaimPairing
  <2>3. /\ crossed \subseteq crossed' /\ crossed' \subseteq crossed \cup {c}
        /\ claim'[c].at = "found" =>
              ((\E d \in Claims : UnderWay(d) /\ claim[d].site = s) => c \in crossed')
    BY <1>t, <1>11 DEF ClaimPairing
  <2>4. \A d \in Claims : /\ d > c => claim[d].at = "new"
                          /\ d < c => claim[d].at # "new"
    BY <1>i, <1>c, <2>1 DEF ClaimInv, Claims
  <2>5. \A d \in Claims : /\ d # c => (LetIn(d)' <=> LetIn(d)) /\ (UnderWay(d)' <=> UnderWay(d))
                          /\ LetIn(d) => d # c /\ claim'[d] = claim[d] /\ LetIn(d)'
    BY <2>1, <2>2 DEF LetIn, UnderWay
  <2>6. \A d \in Claims : Shared(d) => Shared(d)'
    BY <2>2, <2>5 DEF Shared, ShareCode
  <2>7. \A d \in Claims : claim[d].at = "done" => d # c /\ claim'[d] = claim[d]
    BY <2>1, <2>2
  <2>8. \A d \in stored : d \in Claims /\ claim'[d] = claim[d] /\ claim[d].at = "done"
    BY <1>i, <1>t, <2>7 DEF ClaimInv
  <2>9. CodeInv'
    <3>1. ASSUME NEW q \in Codes
          PROVE  /\ code[q].issued # 0 => /\ claim'[code[q].issued].at = "done"
                                          /\ claim'[code[q].issued].code = q
                 /\ ack[q] # "none" => /\ \E d \in stored : claim'[d].code = q
                                       /\ code[q].issued \in stored \cup {0}
                                            \/ Shared(code[q].issued)'
      <4>1. code[q].issued # 0 => /\ code[q].issued \in Claims /\ claim[code[q].issued].at = "done"
                                  /\ claim[code[q].issued].code = q
        BY <1>i, <1>k DEF CodeInv
      <4>2. ack[q] # "none" => \E d \in stored : claim[d].code = q
        BY <1>i DEF CodeInv
      <4>3. ack[q] # "none" => code[q].issued \in stored \cup {0} \/ Shared(code[q].issued)
        BY <1>i DEF CodeInv
      <4>4. ack[q] # "none" => code[q].issued \in stored \cup {0} \/ Shared(code[q].issued)'
        BY <1>k, <2>1, <2>6, <4>1, <4>3
      <4>5. ack[q] # "none" => \E d \in stored : claim'[d].code = q
        BY <2>8, <4>2
      <4>6. code[q].issued # 0 => /\ claim'[code[q].issued].at = "done"
                                  /\ claim'[code[q].issued].code = q
        BY <2>7, <4>1
      <4> QED BY <4>4, <4>5, <4>6
    <3>2. \A q \in Codes : code[q].status = "claimed" => code[q].issued # 0
      BY <1>i DEF CodeInv
    <3> QED BY <2>1, <3>1, <3>2 DEF CodeInv
  <2>10. ClaimInv'
    <3>1. ASSUME NEW d \in Claims, claim'[d].at = "new", NEW e \in Claims, e > d
          PROVE  claim'[e].at = "new"
      <4>1. d # c /\ claim[d].at = "new"
        BY <2>2, <3>1
      <4>2. d > c
        BY <1>c, <2>4, <4>1
      <4>3. e > c
        BY <1>c, <3>1, <4>2
      <4> QED BY <1>c, <2>2, <2>4, <4>3
    <3> QED BY <2>1, <2>8, <3>1 DEF ClaimInv
  <2>11. DoneInv'
    <3> SUFFICES ASSUME NEW d \in Claims, claim'[d].at = "done"
                 PROVE  d \in stored \/ code[claim'[d].code].issued = d \/ Shared(d)'
      BY <2>1 DEF DoneInv
    <3>1. d # c
      BY <2>2
    <3> QED BY <1>i, <2>2, <2>6, <3>1 DEF DoneInv
  <2>12. SiteInv'
    <3>1. ASSUME NEW d \in Claims, NEW e \in Claims, LetIn(d)', UnderWay(e)', e < d,
                 claim'[e].site = claim'[d].site
          PROVE  d \in crossed'
      <4>1. CASE d = c
        <5>1. claim'[c].at = "found" /\ e # c /\ UnderWay(e)
          BY <1>c, <2>2, <2>5, <3>1, <4>1 DEF LetIn
        <5>2. claim[e].site = s
          BY <2>2, <3>1, <4>1, <5>1
        <5> QED BY <2>3, <4>1, <5>1, <5>2
      <4>2. CASE d # c /\ e = c
        <5>1. claim[d].at = "new"
          BY <2>4, <3>1, <4>2
        <5> QED BY <2>5, <3>1, <4>2, <5>1 DEF LetIn
      <4>3. CASE d # c /\ e # c
        BY <1>i, <2>2, <2>3, <2>5, <3>1, <4>3 DEF SiteInv
      <4> QED BY <4>1, <4>2, <4>3
    <3>2. ASSUME NEW d \in Claims \ crossed', claim'[d].at \in {"registered", "done"}
          PROVE  registered[claim'[d].site] >= d
      <4>1. d # c /\ d \notin crossed
        BY <2>2, <2>3, <3>2
      <4> QED BY <1>i, <2>2, <3>2, <4>1 DEF SiteInv
    <3> QED BY <2>1, <3>1, <3>2 DEF SiteInv
  <2> QED BY <1>u, <2>1, <2>9, <2>10, <2>11, <2>12
<1> HIDE DEF Rest
<1>12. Rest
  BY <1>0, <1>1, <1>2, <1>3, <1>4, <1>5, <1>6, <1>7, <1>8, <1>9, <1>10, <1>11 DEF PairingNext
<1> QED BY <1>12, <1>m, PairingType, AskedKept DEF Rest, PairingInv

\* A token that the cloud has forgotten was stored or shared its code, and the site of one
\* that is stored knows it or a later one.
LEMMA PairingSound == ASSUME PairingInv PROVE PairingHolds
<1>1. ClaimInv /\ SiteInv /\ DoneInv /\ CredentialsAgree /\ stored \subseteq Claims
  BY PairingTypes DEF PairingInv
<1>2. \A c \in stored \ crossed : registered[claim[c].site] >= c
  BY <1>1 DEF ClaimInv, SiteInv
<1>3. \A c \in Claims : claim[c].at = "done" => \/ c \in stored
                                                \/ code[claim[c].code].issued = c
                                                \/ \E d \in Claims \ {c} : ShareCode(c, d)
  BY <1>1 DEF DoneInv, Shared
<1> QED BY <1>1, <1>2, <1>3 DEF PairingHolds, NoTokenIsLost


-----------------------------------------------------------------------------
(***************************************************************************)
(* Access.  A callback keeps the login it was begun with, and a login its  *)
(* person; whoever is past a query finds what the query was to make sure   *)
(* of; and a site that a callback made is owned by the person of that      *)
(* callback alone.                                                         *)
(***************************************************************************)
LoginInv ==
    /\ \A b \in Callbacks :
          /\ callback[b].at # "new" => login[callback[b].login].at # "none"
          /\ callback[b].at \in {"joined", "site", "attach", "session", "done"} => Person(b) \in users
          /\ callback[b].at \in {"session", "done"} => SitesOf(Person(b)) # {}
          /\ callback[b].at = "site" => callback[b].site = b
          /\ callback[b].site \in {HomeSite, b}
    /\ \A b \in sessions : callback[b].at = "done"

OwnerInv ==
    \A m \in members : m[1] # HomeSite => callback[m[1]].at # "new" /\ Person(m[1]) = m[2]

TokenInv ==
    \A k \in Calls :
        /\ call[k].late => tokens[call[k].token].at = "revoked"
        /\ call[k].at \in {"touch", "served"} => ~call[k].late

AccessInv == AccessTypeOK /\ LoginInv /\ OwnerInv /\ TokenInv

LoginRow    == [at : {"none", "begun", "gone"}, granted : BOOLEAN, by : People]
CallbackRow == [at : {"new", "matched", "exchange", "named", "insert", "joined", "site", "attach",
                      "session", "done", "refused"},
                login : Logins, site : 0..MaxCallbacks]
TokenRow    == [at : {"none", "live", "revoked"}, site : 0..MaxCallbacks]
CallRow     == [at : {"new", "read", "touch", "served", "refused"}, token : Tokens, late : BOOLEAN]

LEMMA AccessTypes ==
  AccessTypeOK <=>
    /\ login \in [Logins -> LoginRow] /\ callback \in [Callbacks -> CallbackRow]
    /\ users \subseteq People /\ sites \subseteq 0..MaxCallbacks
    /\ members \subseteq (0..MaxCallbacks) \X People /\ sessions \subseteq Callbacks
    /\ tokens \in [Tokens -> TokenRow] /\ call \in [Calls -> CallRow] /\ failed \in 0..MaxFailures
BY DEF AccessTypeOK, LoginRow, CallbackRow, TokenRow, CallRow

LEMMA LoginUpdates ==
  ASSUME NEW r \in LoginRow
  PROVE  /\ r.by \in People
         /\ \A at \in {"none", "begun", "gone"} : [r EXCEPT !.at = at] \in LoginRow
         /\ [r EXCEPT !.granted = TRUE] \in LoginRow
         /\ \A u \in People : [r EXCEPT !.at = "begun", !.by = u] \in LoginRow
BY DEF LoginRow

LEMMA CallbackUpdates ==
  ASSUME NEW r \in CallbackRow
  PROVE  /\ r.login \in Logins /\ r.site \in 0..MaxCallbacks
         /\ \A at \in {"new", "matched", "exchange", "named", "insert", "joined", "site", "attach",
                       "session", "done", "refused"} : [r EXCEPT !.at = at] \in CallbackRow
BY DEF CallbackRow

LEMMA AccessStarts == AccessInit => AccessInv
<1> SUFFICES ASSUME AccessInit PROVE AccessInv
  OBVIOUS
<1>1. 1 \in Logins /\ 0 \in 0..MaxCallbacks /\ 0 \in 0..MaxFailures /\ Bootstrap \in People
      /\ (CHOOSE t \in Tokens : TRUE) \in Tokens
  BY AccessAssumption DEF Logins
<1>2. AccessTypeOK
  BY <1>1 DEF AccessInit, AccessTypeOK, HomeSite
<1>3. LoginInv /\ OwnerInv /\ TokenInv
  BY DEF AccessInit, LoginInv, OwnerInv, TokenInv, HomeSite
<1> QED BY <1>2, <1>3 DEF AccessInv

\* A callback goes on, and is that of the same login.
LEMMA GoesOnly ==
  ASSUME callback \in [Callbacks -> CallbackRow], NEW b \in Callbacks,
         NEW at \in {"matched", "exchange", "named", "insert", "joined", "site", "attach",
                     "session", "done", "refused"},
         Goes(b, at)
  PROVE  /\ callback' \in [Callbacks -> CallbackRow]
         /\ \A a \in Callbacks : /\ callback'[a].at = IF a = b THEN at ELSE callback[a].at
                                 /\ callback'[a].login = callback[a].login
                                 /\ callback'[a].site = callback[a].site
<1>1. PICK r, q : r = callback[b] /\ r \in CallbackRow /\ q = [r EXCEPT !.at = at]
  OBVIOUS
<1>2. q \in CallbackRow
  BY <1>1, CallbackUpdates
<1>3. q.at = at /\ q.login = r.login /\ q.site = r.site
  BY <1>1 DEF CallbackRow
<1>4. callback' = [callback EXCEPT ![b] = q]
  BY <1>1 DEF Goes
<1> QED BY <1>1, <1>2, <1>3, <1>4

\* Logins that were begun stay those of the same person.
LEMMA LoginsStay ==
  ASSUME login \in [Logins -> LoginRow], callback \in [Callbacks -> CallbackRow]
  PROVE  /\ \A l \in Logins, u \in People : BeginLogin(l, u) =>
              /\ login' \in [Logins -> LoginRow] /\ login[l].at = "none"
              /\ \A k \in Logins : /\ login'[k].at # "none" \/ login'[k] = login[k]
                                   /\ k # l => login'[k] = login[k]
         /\ \A l \in Logins : ExpireState(l) =>
              /\ login' \in [Logins -> LoginRow]
              /\ \A k \in Logins : /\ login'[k].by = login[k].by
                                   /\ login[k].at # "none" => login'[k].at # "none"
         /\ \A b \in Callbacks : DeleteState(b) \/ FinishOidcLogin(b) =>
              /\ login' \in [Logins -> LoginRow]
              /\ \A k \in Logins : /\ login'[k].by = login[k].by
                                   /\ login[k].at # "none" => login'[k].at # "none"
<1>1. ASSUME NEW l \in Logins, NEW u \in People, BeginLogin(l, u)
      PROVE  /\ login' \in [Logins -> LoginRow] /\ login[l].at = "none"
             /\ \A k \in Logins : /\ login'[k].at # "none" \/ login'[k] = login[k]
                                  /\ k # l => login'[k] = login[k]
  <2>1. login' = [login EXCEPT ![l].at = "begun", ![l].by = u] /\ login[l].at = "none"
    BY <1>1 DEF BeginLogin
  <2>2. PICK r : r = login[l] /\ r \in LoginRow
    OBVIOUS
  <2>3. [r EXCEPT !.at = "begun", !.by = u] \in LoginRow
        /\ [r EXCEPT !.at = "begun", !.by = u].at = "begun"
    BY <2>2 DEF LoginRow
  <2>4. login' = [login EXCEPT ![l] = [r EXCEPT !.at = "begun", !.by = u]]
    BY <2>1, <2>2
  <2> QED BY <2>1, <2>3, <2>4
<1>2. ASSUME NEW l \in Logins, ExpireState(l)
      PROVE  /\ login' \in [Logins -> LoginRow]
             /\ \A k \in Logins : /\ login'[k].by = login[k].by
                                  /\ login[k].at # "none" => login'[k].at # "none"
  <2>1. PICK r, q : r = login[l] /\ r \in LoginRow /\ q = [r EXCEPT !.at = "gone"]
    OBVIOUS
  <2>2. q \in LoginRow
    BY <2>1, LoginUpdates
  <2>3. q.by = r.by /\ q.at = "gone"
    BY <2>1 DEF LoginRow
  <2>4. login' = [login EXCEPT ![l] = q]
    BY <1>2, <2>1 DEF ExpireState
  <2> QED BY <2>1, <2>2, <2>3, <2>4
<1>3. ASSUME NEW b \in Callbacks, DeleteState(b) \/ FinishOidcLogin(b)
      PROVE  /\ login' \in [Logins -> LoginRow]
             /\ \A k \in Logins : /\ login'[k].by = login[k].by
                                  /\ login[k].at # "none" => login'[k].at # "none"
  <2>1. PICK l : l = callback[b].login
    OBVIOUS
  <2>2. l \in Logins
    BY <2>1, CallbackUpdates
  <2>3. PICK r : r = login[l] /\ r \in LoginRow
    BY <2>2
  <2>4. \E q \in {[r EXCEPT !.at = "gone"], [r EXCEPT !.granted = TRUE]} :
           login' = [login EXCEPT ![l] = q]
    BY <1>3, <2>1, <2>3 DEF DeleteState, FinishOidcLogin
  <2>5. \A q \in {[r EXCEPT !.at = "gone"], [r EXCEPT !.granted = TRUE]} : q \in LoginRow
    BY <2>3, LoginUpdates
  <2>6. /\ [r EXCEPT !.at = "gone"].by = r.by /\ [r EXCEPT !.at = "gone"].at = "gone"
        /\ [r EXCEPT !.granted = TRUE].by = r.by /\ [r EXCEPT !.granted = TRUE].at = r.at
    BY <2>3 DEF LoginRow
  <2>7. PICK q : /\ login' = [login EXCEPT ![l] = q]
                 /\ q \in LoginRow /\ q.by = r.by /\ (r.at # "none" => q.at # "none")
    <3>1. CASE login' = [login EXCEPT ![l] = [r EXCEPT !.at = "gone"]]
      BY <2>5, <2>6, <3>1
    <3>2. CASE login' = [login EXCEPT ![l] = [r EXCEPT !.granted = TRUE]]
      BY <2>5, <2>6, <3>2
    <3> QED BY <2>4, <3>1, <3>2
  <2> QED BY <2>2, <2>3, <2>7
<1> QED BY <1>1, <1>2, <1>3

Joined == {"joined", "site", "attach", "session", "done"}

\* What a step has to do for people and sites to stay as they should.
GoesWell ==
    /\ users \subseteq users' /\ members \subseteq members'
    /\ \A a \in Callbacks :
          /\ callback'[a].at # "new" => login'[callback'[a].login].at # "none"
          /\ callback[a].at # "new" => /\ callback'[a].at # "new"
                                       /\ Person(a)' = Person(a)
          /\ callback'[a].at \in Joined /\ callback[a].at \notin Joined =>
                callback[a].at # "new" /\ Person(a) \in users'
          /\ callback'[a].at \in {"session", "done"} /\ callback[a].at \notin {"session", "done"} =>
                callback[a].at # "new" /\ SitesOf(Person(a))' # {}
          /\ callback'[a].at = "site" => callback'[a].site = a
          /\ callback'[a].site \in {HomeSite, a}
    /\ \A a \in sessions' : callback'[a].at = "done"
    /\ \A m \in members' \ members : m[1] # HomeSite =>
          m[1] \in Callbacks /\ callback[m[1]].at # "new" /\ Person(m[1]) = m[2]

LEMMA SitesStay ==
  ASSUME members \subseteq members', NEW u
  PROVE  SitesOf(u) # {} => SitesOf(u)' # {}
BY DEF SitesOf

LEMMA LoginKept ==
  ASSUME AccessInv, GoesWell
  PROVE  LoginInv' /\ OwnerInv'
<1>t. members \subseteq (0..MaxCallbacks) \X People /\ LoginInv /\ OwnerInv
  BY AccessTypes DEF AccessInv
<1>1. ASSUME NEW a \in Callbacks
      PROVE  /\ callback'[a].at # "new" => login'[callback'[a].login].at # "none"
             /\ callback'[a].at \in Joined => Person(a)' \in users'
             /\ callback'[a].at \in {"session", "done"} => (SitesOf(Person(a)))' # {}
             /\ callback'[a].at = "site" => callback'[a].site = a
             /\ callback'[a].site \in {HomeSite, a}
  <2>1. callback[a].at # "new" => Person(a)' = Person(a)
    BY DEF GoesWell
  <2>2. callback[a].at \in Joined => Person(a) \in users
    BY <1>t DEF LoginInv, Joined
  <2>3. callback[a].at \in {"session", "done"} => SitesOf(Person(a)) # {}
    BY <1>t DEF LoginInv
  <2>4. PICK u : u = Person(a)
    OBVIOUS
  <2>5. members \subseteq members' /\ users \subseteq users'
    BY DEF GoesWell
  <2>6. callback'[a].at \in Joined => callback[a].at # "new" /\ u \in users'
    BY <2>2, <2>4, <2>5 DEF GoesWell, Joined
  <2>7. callback'[a].at \in {"session", "done"} => callback[a].at # "new" /\ SitesOf(u)' # {}
    <3>1. SitesOf(u) # {} => SitesOf(u)' # {}
      BY <2>5, SitesStay
    <3> QED BY <2>3, <2>4, <3>1 DEF GoesWell
  <2>8. callback[a].at # "new" => Person(a)' = u
    BY <2>1, <2>4
  <2> QED BY <2>6, <2>7, <2>8 DEF GoesWell
<1>2. LoginInv'
  BY <1>1 DEF LoginInv, GoesWell, Joined
<1>3. OwnerInv'
  <2> SUFFICES ASSUME NEW m \in members', m[1] # HomeSite
               PROVE  callback'[m[1]].at # "new" /\ Person(m[1])' = m[2]
    BY DEF OwnerInv
  <2>1. m[1] \in Callbacks /\ callback[m[1]].at # "new" /\ Person(m[1]) = m[2]
    <3>1. CASE m \in members
      <4>1. m[1] \in 0..MaxCallbacks /\ m[1] # 0
        BY <1>t, <3>1 DEF HomeSite
      <4>2. m[1] \in Callbacks
        BY <4>1, AccessAssumption DEF Callbacks
      <4> QED BY <1>t, <3>1, <4>2 DEF OwnerInv
    <3>2. CASE m \notin members
      BY <3>2 DEF GoesWell
    <3> QED BY <3>1, <3>2
  <2>2. PICK a : a = m[1]
    OBVIOUS
  <2> QED BY <2>1, <2>2 DEF GoesWell
<1> QED BY <1>2, <1>3

LEMMA AccessKept ==
  ASSUME AccessInv, [AccessNext]_accessVars
  PROVE  AccessInv'
<1> DEFINE Types ==
      /\ login' \in [Logins -> LoginRow] /\ callback' \in [Callbacks -> CallbackRow]
      /\ users' \subseteq People /\ sites' \subseteq 0..MaxCallbacks
      /\ members' \subseteq (0..MaxCallbacks) \X People /\ sessions' \subseteq Callbacks
      /\ tokens' \in [Tokens -> TokenRow] /\ call' \in [Calls -> CallRow]
      /\ failed' \in 0..MaxFailures
<1>t. /\ login \in [Logins -> LoginRow] /\ callback \in [Callbacks -> CallbackRow]
      /\ users \subseteq People /\ sites \subseteq 0..MaxCallbacks
      /\ members \subseteq (0..MaxCallbacks) \X People /\ sessions \subseteq Callbacks
      /\ tokens \in [Tokens -> TokenRow] /\ call \in [Calls -> CallRow]
      /\ failed \in 0..MaxFailures
  BY AccessTypes DEF AccessInv
<1>i. LoginInv /\ OwnerInv /\ TokenInv
  BY DEF AccessInv
<1>p. \A b \in Callbacks : /\ callback[b].login \in Logins /\ callback[b].site \in 0..MaxCallbacks
                           /\ Person(b) \in People
  BY <1>t, CallbackUpdates, LoginUpdates DEF Person
<1>k. UNCHANGED <<tokens, call>> => TokenInv'
  BY <1>i DEF TokenInv
\* The step of a callback that changes no login.
<1>g. ASSUME NEW b \in Callbacks, callback[b].at # "new", UNCHANGED login,
             NEW at \in {"matched", "exchange", "named", "insert", "joined", "site", "attach",
                         "session", "done", "refused"}
      PROVE  Goes(b, at) => /\ callback' \in [Callbacks -> CallbackRow]
                            /\ \A a \in Callbacks :
                                  /\ callback'[a].at = IF a = b THEN at ELSE callback[a].at
                                  /\ callback'[a].site = callback[a].site
                                  /\ callback'[a].at # "new" => login'[callback'[a].login].at # "none"
                                  /\ Person(a)' = Person(a)
  BY <1>t, <1>i, <1>g, GoesOnly DEF LoginInv, Person
<1> DEFINE Kept == Types /\ GoesWell /\ TokenInv'
<1>1. ASSUME UNCHANGED accessVars PROVE Kept
  <2>1. GoesWell
    BY <1>t, <1>i, <1>1 DEF accessVars, GoesWell, LoginInv, OwnerInv, Person
  <2> QED BY <1>t, <1>k, <1>1, <2>1 DEF accessVars
<1>2. ASSUME NEW l \in Logins, NEW u \in People, BeginLogin(l, u) PROVE Kept
  <2>1. UNCHANGED <<callback, users, sites, members, sessions, tokens, call, failed>>
    BY <1>2 DEF BeginLogin
  <2>2. login' \in [Logins -> LoginRow] /\ login[l].at = "none"
        /\ \A k \in Logins : /\ login'[k].at # "none" \/ login'[k] = login[k]
                             /\ k # l => login'[k] = login[k]
    BY <1>t, <1>2, LoginsStay
  <2>3. \A a \in Callbacks : callback[a].at # "new" => callback[a].login # l
    BY <1>i, <2>2 DEF LoginInv
  <2>4. GoesWell
    BY <1>i, <1>p, <2>1, <2>2, <2>3 DEF GoesWell, LoginInv, OwnerInv, Person
  <2> QED BY <1>t, <1>k, <2>1, <2>2, <2>4
<1>3. ASSUME NEW l \in Logins, ExpireState(l) PROVE Kept
  <2>1. UNCHANGED <<callback, users, sites, members, sessions, tokens, call, failed>>
    BY <1>3 DEF ExpireState
  <2>2. login' \in [Logins -> LoginRow]
        /\ \A k \in Logins : /\ login'[k].by = login[k].by
                             /\ login[k].at # "none" => login'[k].at # "none"
    BY <1>t, <1>3, LoginsStay
  <2>3. GoesWell
    BY <1>i, <1>p, <2>1, <2>2 DEF GoesWell, LoginInv, OwnerInv, Person
  <2> QED BY <1>t, <1>k, <2>1, <2>2, <2>3
<1>4. ASSUME NEW b \in Callbacks, NEW l \in Logins, Callback(b, l) PROVE Kept
  <2>1. UNCHANGED <<login, users, sites, members, sessions, tokens, call, failed>>
        /\ callback[b].at = "new" /\ login[l].at # "none"
    BY <1>4 DEF Callback
  <2>2. PICK at \in {"matched", "refused"} :
           callback' = [callback EXCEPT ![b] = [@ EXCEPT !.at = at, !.login = l]]
    BY <1>4 DEF Callback
  <2>3. PICK r, q : r = callback[b] /\ r \in CallbackRow /\ q = [r EXCEPT !.at = at, !.login = l]
    BY <1>t
  <2>4. q \in CallbackRow /\ q.at = at /\ q.login = l /\ q.site = r.site
    BY <2>3 DEF CallbackRow
  <2>5. callback' = [callback EXCEPT ![b] = q]
    BY <2>2, <2>3
  <2>6. callback' \in [Callbacks -> CallbackRow] /\ callback'[b] = q
        /\ \A a \in Callbacks : a # b => callback'[a] = callback[a]
    BY <1>t, <2>4, <2>5
  <2>7. b \notin sessions
    BY <1>i, <2>1 DEF LoginInv
  <2>8. GoesWell
    <3>1. ASSUME NEW a \in Callbacks, a # b
          PROVE  /\ callback'[a] = callback[a] /\ Person(a)' = Person(a)
                 /\ callback[a].at # "new" => login'[callback[a].login].at # "none"
                 /\ callback[a].at = "site" => callback[a].site = a
                 /\ callback[a].site \in {HomeSite, a}
      BY <1>i, <2>1, <2>6, <3>1 DEF LoginInv, Person
    <3>2. /\ callback'[b].at \in {"matched", "refused"} /\ callback'[b].site \in {HomeSite, b}
          /\ login'[callback'[b].login].at # "none"
      BY <1>i, <2>1, <2>3, <2>4, <2>6 DEF LoginInv
    <3>3. \A a \in sessions' : a # b /\ a \in Callbacks /\ callback'[a].at = "done"
      BY <1>t, <1>i, <2>1, <2>6, <2>7 DEF LoginInv
    <3> QED BY <2>1, <3>1, <3>2, <3>3 DEF GoesWell, Joined
  <2> QED BY <1>t, <1>k, <2>1, <2>6, <2>8
<1>5. ASSUME NEW b \in Callbacks, DeleteState(b) \/ FinishOidcLogin(b) PROVE Kept
  <2>1. UNCHANGED <<users, sites, members, sessions, tokens, call, failed>>
        /\ callback[b].at \in {"matched", "exchange"}
    BY <1>5 DEF DeleteState, FinishOidcLogin
  <2>2. PICK at \in {"exchange", "named", "refused"} : Goes(b, at)
    BY <1>5 DEF DeleteState, FinishOidcLogin
  <2>3. login' \in [Logins -> LoginRow]
        /\ \A k \in Logins : /\ login'[k].by = login[k].by
                             /\ login[k].at # "none" => login'[k].at # "none"
    BY <1>t, <1>5, LoginsStay
  <2>4. /\ callback' \in [Callbacks -> CallbackRow]
        /\ \A a \in Callbacks : /\ callback'[a].at = IF a = b THEN at ELSE callback[a].at
                                /\ callback'[a].login = callback[a].login
                                /\ callback'[a].site = callback[a].site
    BY <1>t, <2>2, GoesOnly
  <2>5. b \notin sessions
    BY <1>i, <2>1 DEF LoginInv
  <2>6. GoesWell
    BY <1>t, <1>i, <1>p, <2>1, <2>3, <2>4, <2>5 DEF GoesWell, LoginInv, OwnerInv, Person, Joined
  <2> QED BY <1>t, <1>k, <2>1, <2>3, <2>4, <2>6
<1>6. ASSUME NEW b \in Callbacks, FindUser(b) \/ InsertUser(b) PROVE Kept
  <2>1. UNCHANGED <<login, sites, members, sessions, tokens, call, failed>>
        /\ callback[b].at \in {"named", "insert"}
        /\ users' \in {users, users \cup {Person(b)}}
    BY <1>6 DEF FindUser, InsertUser
  <2>2. PICK at \in {"joined", "insert", "refused"} :
           Goes(b, at) /\ (at = "joined" => Person(b) \in users')
    BY <1>6 DEF FindUser, InsertUser
  <2>3. /\ callback' \in [Callbacks -> CallbackRow]
        /\ \A a \in Callbacks : /\ callback'[a].at = IF a = b THEN at ELSE callback[a].at
                                /\ callback'[a].site = callback[a].site
                                /\ callback'[a].at # "new" => login'[callback'[a].login].at # "none"
                                /\ Person(a)' = Person(a)
    BY <1>g, <2>1, <2>2
  <2>4. b \notin sessions
    BY <1>i, <2>1 DEF LoginInv
  <2>5. GoesWell
    BY <1>t, <1>i, <2>1, <2>2, <2>3, <2>4 DEF GoesWell, LoginInv, Joined
  <2> QED BY <1>t, <1>k, <1>p, <2>1, <2>3, <2>5
<1>7. ASSUME NEW b \in Callbacks, FindSite(b) PROVE Kept
  <2>1. UNCHANGED <<login, users, sites, members, sessions, tokens, call, failed>>
        /\ callback[b].at = "joined"
    BY <1>7 DEF FindSite
  <2>2. PICK r : r = callback[b] /\ r \in CallbackRow
    BY <1>t
  <2>3. PICK q : /\ callback' = [callback EXCEPT ![b] = q]
                 /\ \/ q = [r EXCEPT !.at = "session"] /\ SitesOf(Person(b)) # {}
                    \/ q = [r EXCEPT !.at = "attach", !.site = HomeSite]
                    \/ q = [r EXCEPT !.at = "site", !.site = b]
    BY <1>7, <2>2 DEF FindSite
  <2>4. HomeSite \in 0..MaxCallbacks /\ b \in 0..MaxCallbacks
    BY AccessAssumption DEF HomeSite, Callbacks
  <2>5. /\ q \in CallbackRow /\ q.login = r.login
        /\ \/ q.at = "session" /\ q.site = r.site /\ SitesOf(Person(b)) # {}
           \/ q.at = "attach" /\ q.site = HomeSite
           \/ q.at = "site" /\ q.site = b
    BY <2>2, <2>3, <2>4 DEF CallbackRow
  <2>6. callback' \in [Callbacks -> CallbackRow] /\ callback'[b] = q
        /\ \A a \in Callbacks : a # b => callback'[a] = callback[a]
    BY <1>t, <2>3, <2>5
  <2>7. b \notin sessions
    BY <1>i, <2>1 DEF LoginInv
  <2>8. \A a \in Callbacks : Person(a)' = Person(a)
    BY <2>1, <2>2, <2>5, <2>6 DEF Person
  <2>9. SitesOf(Person(b))' = SitesOf(Person(b))
    BY <2>1, <2>8 DEF SitesOf
  <2>10. GoesWell
    BY <1>t, <1>i, <2>1, <2>2, <2>5, <2>6, <2>7, <2>8, <2>9 DEF GoesWell, LoginInv, Joined
  <2> QED BY <1>t, <1>k, <2>1, <2>6, <2>10
<1>8. ASSUME NEW b \in Callbacks, InsertSite(b) PROVE Kept
  <2>1. UNCHANGED <<login, users, members, sessions, tokens, call, failed>>
        /\ callback[b].at = "site" /\ sites' = sites \cup {callback[b].site} /\ Goes(b, "attach")
    BY <1>8 DEF InsertSite
  <2>3. /\ callback' \in [Callbacks -> CallbackRow]
        /\ \A a \in Callbacks : /\ callback'[a].at = IF a = b THEN "attach" ELSE callback[a].at
                                /\ callback'[a].site = callback[a].site
                                /\ callback'[a].at # "new" => login'[callback'[a].login].at # "none"
                                /\ Person(a)' = Person(a)
    BY <1>g, <2>1
  <2>4. b \notin sessions
    BY <1>i, <2>1 DEF LoginInv
  <2>5. GoesWell
    BY <1>t, <1>i, <2>1, <2>3, <2>4 DEF GoesWell, LoginInv, Joined
  <2> QED BY <1>t, <1>k, <1>p, <2>1, <2>3, <2>5
<1>9. ASSUME NEW b \in Callbacks, AttachOwner(b) PROVE Kept
  <2>1. UNCHANGED <<login, users, sites, sessions, tokens, call, failed>>
        /\ callback[b].at = "attach" /\ members' = members \cup {<<callback[b].site, Person(b)>>}
        /\ Goes(b, "session")
    BY <1>9 DEF AttachOwner
  <2>3. /\ callback' \in [Callbacks -> CallbackRow]
        /\ \A a \in Callbacks : /\ callback'[a].at = IF a = b THEN "session" ELSE callback[a].at
                                /\ callback'[a].site = callback[a].site
                                /\ callback'[a].at # "new" => login'[callback'[a].login].at # "none"
                                /\ Person(a)' = Person(a)
    BY <1>g, <2>1
  <2>4. b \notin sessions
    BY <1>i, <2>1 DEF LoginInv
  <2>5. PICK s, u : s = callback[b].site /\ u = Person(b)
    OBVIOUS
  <2>6. <<s, u>> \in members' /\ s \in {HomeSite, b} /\ s \in 0..MaxCallbacks /\ u \in People
    BY <1>i, <1>p, <2>1, <2>5 DEF LoginInv
  <2>7. SitesOf(u)' # {}
    BY <2>6 DEF SitesOf
  <2>8. GoesWell
    <3>1. \A m \in members' \ members : m = <<s, u>>
      BY <2>1, <2>5
    <3> QED BY <1>t, <1>i, <2>1, <2>3, <2>4, <2>5, <2>6, <2>7, <3>1 DEF GoesWell, LoginInv, Joined
  <2>9. members' \subseteq (0..MaxCallbacks) \X People
    BY <1>t, <2>1, <2>5, <2>6
  <2> QED BY <1>t, <1>k, <2>1, <2>3, <2>8, <2>9
<1>10. ASSUME NEW b \in Callbacks, CreateSession(b) PROVE Kept
  <2>1. UNCHANGED <<login, users, sites, members, tokens, call, failed>>
        /\ callback[b].at = "session" /\ sessions' = sessions \cup {b} /\ Goes(b, "done")
    BY <1>10 DEF CreateSession
  <2>3. /\ callback' \in [Callbacks -> CallbackRow]
        /\ \A a \in Callbacks : /\ callback'[a].at = IF a = b THEN "done" ELSE callback[a].at
                                /\ callback'[a].site = callback[a].site
                                /\ callback'[a].at # "new" => login'[callback'[a].login].at # "none"
                                /\ Person(a)' = Person(a)
    BY <1>g, <2>1
  <2>5. GoesWell
    BY <1>t, <1>i, <2>1, <2>3 DEF GoesWell, LoginInv, Joined
  <2> QED BY <1>t, <1>k, <2>1, <2>3, <2>5
<1>11. ASSUME NEW b \in Callbacks, CutOff(b) PROVE Kept
  <2>1. UNCHANGED <<login, users, sites, members, sessions, tokens, call>>
        /\ callback[b].at \notin {"new", "done", "refused"} /\ Goes(b, "refused")
        /\ failed' \in 0..MaxFailures
    BY <1>t, <1>11, AccessAssumption DEF CutOff
  <2>3. /\ callback' \in [Callbacks -> CallbackRow]
        /\ \A a \in Callbacks : /\ callback'[a].at = IF a = b THEN "refused" ELSE callback[a].at
                                /\ callback'[a].site = callback[a].site
                                /\ callback'[a].at # "new" => login'[callback'[a].login].at # "none"
                                /\ Person(a)' = Person(a)
    BY <1>g, <2>1
  <2>4. b \notin sessions
    BY <1>i, <2>1 DEF LoginInv
  <2>5. GoesWell
    BY <1>t, <1>i, <2>1, <2>3, <2>4 DEF GoesWell, LoginInv, Joined
  <2> QED BY <1>t, <1>k, <2>1, <2>3, <2>5
<1>12. ASSUME NEW b \in Callbacks, EndSession(b) PROVE Kept
  <2>1. UNCHANGED <<login, callback, users, sites, members, tokens, call, failed>>
        /\ sessions' = sessions \ {b}
    BY <1>12 DEF EndSession
  <2>2. GoesWell
    BY <1>t, <1>i, <2>1 DEF GoesWell, LoginInv, Person
  <2> QED BY <1>t, <1>k, <2>1, <2>2
<1>w. ASSUME UNCHANGED <<login, callback, users, sites, members, sessions, failed>>
      PROVE  /\ GoesWell
             /\ login' \in [Logins -> LoginRow] /\ callback' \in [Callbacks -> CallbackRow]
             /\ users' \subseteq People /\ sites' \subseteq 0..MaxCallbacks
             /\ members' \subseteq (0..MaxCallbacks) \X People /\ sessions' \subseteq Callbacks
             /\ failed' \in 0..MaxFailures
  BY <1>t, <1>i, <1>w DEF GoesWell, LoginInv, Person
<1>13. ASSUME NEW b \in Callbacks, NEW s \in sites, NEW t \in Tokens,
              IssueToken(b, s, t) \/ RevokeToken(b, s, t)
       PROVE  Kept
  <2>1. UNCHANGED <<login, callback, users, sites, members, sessions, call, failed>>
    BY <1>13 DEF IssueToken, RevokeToken
  <2>2. /\ tokens' \in [Tokens -> TokenRow]
        /\ \A k \in Tokens : tokens[k].at = "revoked" => tokens'[k].at = "revoked"
    BY <1>t, <1>13 DEF IssueToken, RevokeToken, TokenRow
  <2>3. \A k \in Calls : call[k].token \in Tokens
    BY <1>t DEF CallRow
  <2>4. TokenInv'
    BY <1>i, <2>1, <2>2, <2>3 DEF TokenInv
  <2> QED BY <1>t, <1>w, <2>1, <2>2, <2>4
<1>14. ASSUME NEW k \in Calls, NEW t \in Tokens, BeginCall(k, t) PROVE Kept
  <2>1. UNCHANGED <<login, callback, users, sites, members, sessions, tokens, failed>>
    BY <1>14 DEF BeginCall
  <2>2. call' \in [Calls -> CallRow] /\ TokenInv'
    BY <1>t, <1>i, <1>14 DEF BeginCall, CallRow, TokenInv
  <2> QED BY <1>t, <1>w, <2>1, <2>2
<1>15. ASSUME NEW k \in Calls, ResolveToken(k) \/ TouchToken(k) PROVE Kept
  <2>1. UNCHANGED <<login, callback, users, sites, members, sessions, tokens, failed>>
    BY <1>15 DEF ResolveToken, TouchToken
  <2>2. call' \in [Calls -> CallRow] /\ TokenInv'
    BY <1>t, <1>i, <1>15 DEF ResolveToken, TouchToken, CallRow, TokenInv
  <2> QED BY <1>t, <1>w, <2>1, <2>2
<1> HIDE DEF Kept
<1>16. Kept
  BY <1>1, <1>2, <1>3, <1>4, <1>5, <1>6, <1>7, <1>8, <1>9, <1>10, <1>11, <1>12, <1>13, <1>14, <1>15
     DEF AccessNext
<1>17. AccessTypeOK'
  BY <1>16 DEF Kept, AccessTypeOK, LoginRow, CallbackRow, TokenRow, CallRow
<1> QED BY <1>16, <1>17, LoginKept DEF Kept, AccessInv

\* A site other than the first is owned by the person of one callback.
LEMMA AccessSound == ASSUME AccessInv PROVE AccessHolds
<1>t. /\ callback \in [Callbacks -> CallbackRow] /\ sites \subseteq 0..MaxCallbacks
      /\ sessions \subseteq Callbacks /\ LoginInv /\ OwnerInv /\ TokenInv
  BY AccessTypes DEF AccessInv
<1>1. SessionsHaveSites
  BY <1>t DEF SessionsHaveSites, LoginInv
<1>2. SitesAreOwned
  <2> SUFFICES ASSUME NEW s \in sites \ {HomeSite}
               PROVE  Cardinality({u \in People : <<s, u>> \in members}) <= 1
    BY DEF SitesAreOwned
  <2>1. PICK S : S = {u \in People : <<s, u>> \in members}
    OBVIOUS
  <2>2. \A u \in S : u = Person(s)
    BY <1>t, <2>1 DEF OwnerInv
  <2>3. S = {} \/ S = {Person(s)}
    BY <2>2
  <2>4. Cardinality(S) = 0 \/ Cardinality(S) = 1
    BY <2>3, FS_EmptySet, FS_Singleton
  <2> QED BY <2>1, <2>4
<1>3. RevokedIsRefused
  BY <1>t DEF RevokedIsRefused, TokenInv
<1> QED BY <1>1, <1>2, <1>3 DEF AccessHolds

-----------------------------------------------------------------------------
(***************************************************************************)
(* The nodes.  At most one live run is under way, so what it loaded is what*)
(* is remembered when it counts its reading; which way it went can be read *)
(* from its edges and outputs at each place.                               *)
(***************************************************************************)
Ways == {"alert", "delay"}
Way(port) == IF port = "true" THEN "alert" ELSE "delay"
Other(port) == IF port = "true" THEN "delay" ELSE "alert"
BothPending == [x \in Ways |-> "pending"]
Skipping(port) == [BothPending EXCEPT ![Other(port)] = "skipped"]

\* The last readings of a list of them, up to the n-th.
Ones(c, n) == SubSeq(c, IF n > WindowSize THEN n - WindowSize + 1 ELSE 1, n)

RunRow ==
    [mode : Modes, reading : Readings, initial : Seq(Numbers), at : Places,
     because : Places \cup {"none"}, mean : {Missing} \cup {Number(Mean(w)) : w \in Seq(Numbers)},
     upTo : Nat, port : {"none", "true", "false"}, outputs : SUBSET Ways,
     edge : [Ways -> {"pending", "taken", "skipped"}], joined : SUBSET Ways]

\* A run k, when c was counted and w is remembered.
PlaceInv(k, w) ==
    /\ k.mode = "dryRun" => k.initial = << >>
    /\ k.mode = "live" /\ k.at = "mean" => k.initial = w
    /\ k.at \in {"mean", "condition"} => k.outputs = {} /\ k.edge = BothPending
    /\ k.at \in Ended \cup {"mean"} => k.mean = Missing
    /\ k.at \in {"true", "alert"} => k.port = "true"
    /\ k.at \in {"false", "delay"} => k.port = "false"
    /\ k.at \in {"true", "alert", "false", "delay"} =>
          k.edge = Skipping(k.port) /\ k.outputs = {}
    /\ k.at = "join" => /\ k.port \in {"true", "false"} /\ k.outputs = {Way(k.port)}
                        /\ k.edge = [Skipping(k.port) EXCEPT ![Way(k.port)] = "taken"]

MeanInv(k, c) ==
    /\ k.mode = "live" => k.upTo <= Len(c)
    /\ k.mean # Missing =>
          k.mean = IF k.mode = "live" THEN Number(Mean(Ones(c, k.upTo)))
                   ELSE LookupBinding(k.reading)

JoinInv(k) ==
    /\ k.because \in {"none", "mean", "condition", "alert"}
    /\ k.at = "completed" => k.joined = IF k.port = "true" THEN {"alert"} ELSE {"delay"}

RunInv(k, c, w) == PlaceInv(k, w) /\ MeanInv(k, c) /\ JoinInv(k)

LibraryInv ==
    /\ definition \in Definitions /\ again \in Readings \cup {NoTrigger}
    /\ runs \in [Slots -> RunRow]
    /\ counted \in Seq(Numbers) /\ row \in Seq(Numbers)
    /\ row = Ones(counted, Len(counted))
    /\ \A r, s \in Slots : Holds(r) /\ Holds(s) => r = s
    /\ \A r \in Slots : RunInv(runs[r], counted, row)

-----------------------------------------------------------------------------
(* What is computed. *)

Before(n) == IF n > WindowSize THEN n - WindowSize ELSE 0

LEMMA BeforeType ==
  ASSUME NEW n \in Nat
  PROVE  Before(n) \in 0..n /\ n - Before(n) \in Nat
BY LibraryAssumption DEF Before

LEMMA OnesType ==
  ASSUME NEW c \in Seq(Numbers), NEW n \in 0..Len(c)
  PROVE  /\ Ones(c, n) \in Seq(Numbers)
         /\ Len(Ones(c, n)) = n - Before(n)
         /\ \A i \in 1..(n - Before(n)) : Ones(c, n)[i] = c[i + Before(n)]
<1>1. WindowSize \in Nat \ {0} /\ Len(c) \in Nat /\ n \in Nat
  BY LibraryAssumption
<1>2. PICK b : b = Before(n)
  OBVIOUS
<1>3. b \in 0..n /\ n - b \in Nat
  BY <1>1, <1>2, BeforeType
<1>4. Ones(c, n) = SubSeq(c, b + 1, n)
  <2>1. CASE n > WindowSize
    <3>1. n - WindowSize + 1 = b + 1
      BY <1>1, <1>2, <2>1 DEF Before
    <3> QED BY <2>1, <3>1 DEF Ones
  <2>2. CASE ~ (n > WindowSize)
    <3>1. b + 1 = 1
      BY <1>2, <2>2 DEF Before
    <3> QED BY <2>2, <3>1 DEF Ones
  <2> QED BY <2>1, <2>2
<1>5. n - (b + 1) + 1 = n - b /\ \A i \in Int : (b + 1) + i - 1 = i + b
  BY <1>1, <1>3
<1>6. \A i \in (b + 1)..n : c[i] \in Numbers
  BY <1>1, <1>3
<1>7. SubSeq(c, b + 1, n) \in Seq(Numbers) /\ Len(SubSeq(c, b + 1, n)) = n - b
  BY <1>1, <1>3, <1>5, <1>6
<1>8. \A i \in 1..(n - b) : SubSeq(c, b + 1, n)[i] = c[i + b]
  BY <1>1, <1>3, <1>5
<1> QED BY <1>2, <1>4, <1>7, <1>8

\* What comes later does not change what was counted before.
LEMMA OnesStay ==
  ASSUME NEW c \in Seq(Numbers), NEW v \in Numbers, NEW n \in 0..Len(c)
  PROVE  Ones(Append(c, v), n) = Ones(c, n)
<1>1. Len(c) \in Nat /\ n \in Nat
  OBVIOUS
<1>2. PICK d : d = Append(c, v)
  OBVIOUS
<1>3. d \in Seq(Numbers) /\ n \in 0..Len(d) /\ \A i \in 1..Len(c) : d[i] = c[i]
  BY <1>1, <1>2
<1>4. PICK p, q, b : p = Ones(d, n) /\ q = Ones(c, n) /\ b = Before(n)
  OBVIOUS
<1>5. /\ p \in Seq(Numbers) /\ Len(p) = n - b
      /\ \A i \in 1..(n - b) : p[i] = d[i + b]
  BY <1>3, <1>4, OnesType
<1>6. /\ q \in Seq(Numbers) /\ Len(q) = n - b
      /\ \A i \in 1..(n - b) : q[i] = c[i + b]
  BY <1>4, OnesType
<1>7. b \in 0..n
  BY <1>1, <1>4, BeforeType
<1>8. \A i \in 1..(n - b) : i + b \in 1..Len(c)
  BY <1>1, <1>7
<1>9. \A i \in 1..(n - b) : p[i] = q[i]
  BY <1>3, <1>5, <1>6, <1>8
<1>10. p = q
  BY <1>5, <1>6, <1>9
<1> QED BY <1>2, <1>4, <1>10

\* The window of what is remembered and one more is what is remembered afterwards.
LEMMA WindowMoves ==
  ASSUME NEW c \in Seq(Numbers), NEW v \in Numbers
  PROVE  Window(Ones(c, Len(c)), v) = Ones(Append(c, v), Len(c) + 1)
<1>1. PICK n \in Nat : n = Len(c)
  OBVIOUS
<1>2. PICK d : d = Append(c, v)
  OBVIOUS
<1>3. /\ d \in Seq(Numbers) /\ Len(d) = n + 1 /\ d[n + 1] = v /\ n + 1 \in 0..Len(d)
      /\ \A i \in 1..n : d[i] = c[i]
  BY <1>1, <1>2
<1>4. PICK h, k : h = Ones(c, n) /\ k = Before(n)
  OBVIOUS
<1>5. k \in 0..n
  BY <1>4, BeforeType
<1>6. h \in Seq(Numbers) /\ Len(h) = n - k /\ \A i \in 1..(n - k) : h[i] = c[i + k]
  BY <1>1, <1>4, OnesType
<1>7. PICK a : a = Append(h, v)
  OBVIOUS
<1>8. PICK m \in Nat : m = n - k + 1
  BY <1>5
<1>9. /\ a \in Seq(Numbers) /\ Len(a) = m /\ a[m] = v /\ m \in 0..Len(a)
      /\ \A i \in 1..(n - k) : a[i] = h[i]
  BY <1>5, <1>6, <1>7, <1>8
<1>10. \A i \in 1..m : a[i] = d[i + k]
  <2> SUFFICES ASSUME NEW i \in 1..m PROVE a[i] = d[i + k]
    OBVIOUS
  <2>1. CASE i = m
    <3>1. i + k = n + 1
      BY <1>5, <1>8, <2>1
    <3> QED BY <1>3, <1>9, <2>1, <3>1
  <2>2. CASE i # m
    <3>1. i \in 1..(n - k) /\ i + k \in 1..n
      BY <1>5, <1>8, <2>2
    <3> QED BY <1>3, <1>6, <1>9, <3>1
  <2> QED BY <2>1, <2>2
<1>11. PICK x, y, e, f : x = Ones(a, m) /\ y = Ones(d, n + 1) /\ e = Before(m) /\ f = Before(n + 1)
  OBVIOUS
<1>12. Window(h, v) = x
  BY <1>7, <1>9, <1>11 DEF Window, Ones
<1>13. x \in Seq(Numbers) /\ Len(x) = m - e /\ \A i \in 1..(m - e) : x[i] = a[i + e]
  BY <1>9, <1>11, OnesType
<1>14. PICK z \in 0..Len(d) : z = n + 1
  BY <1>3
<1>15. /\ y \in Seq(Numbers) /\ Len(y) = z - f
       /\ \A i \in 1..(z - f) : y[i] = d[i + f]
  <2>1. y = Ones(d, z) /\ f = Before(z) /\ d \in Seq(Numbers)
    BY <1>3, <1>11, <1>14
  <2> QED BY <2>1, OnesType
<1>16. e \in 0..m /\ f \in 0..(n + 1)
  BY <1>11, BeforeType
<1>17. e + k = f
  BY <1>4, <1>8, <1>11, LibraryAssumption DEF Before
<1>18. m - e = z - f /\ \A i \in 1..(m - e) : i + e \in 1..m /\ (i + e) + k = i + f
  BY <1>5, <1>8, <1>14, <1>16, <1>17
<1>19. \A i \in 1..(m - e) : x[i] = y[i]
  BY <1>10, <1>13, <1>15, <1>18
<1>20. x = y
  BY <1>13, <1>15, <1>18, <1>19
<1> QED BY <1>1, <1>2, <1>4, <1>11, <1>12, <1>20

\* The first reading is its own window.
LEMMA WindowOfFirst ==
  ASSUME NEW v \in Numbers PROVE Window(<< >>, v) = <<v>>
<1>1. << >> \in Seq(Numbers) /\ Len(<< >>) = 0 /\ 0 \in 0..Len(<< >>)
  OBVIOUS
<1>2. PICK d : d = <<v>>
  OBVIOUS
<1>3. d \in Seq(Numbers) /\ Len(d) = 1 /\ 1 \in 0..Len(d) /\ Append(<< >>, v) = d
  BY <1>2
<1>4. WindowSize \in Nat \ {0} /\ ~ (1 > WindowSize)
  BY LibraryAssumption
<1>5. Window(<< >>, v) = Ones(d, 1)
  BY <1>3 DEF Window, Ones
<1>6. Ones(d, 1) = SubSeq(d, 1, 1)
  BY <1>4 DEF Ones
<1>7. SubSeq(d, 1, 1) = d
  BY <1>3
<1> QED BY <1>2, <1>5, <1>6, <1>7

\* The mean of one reading is the reading.
LEMMA MeanOfOne ==
  ASSUME NEW v \in Numbers PROVE Mean(<<v>>) = v
<1> DEFINE Adding(f) ==
        f = [s \in SUBSET {1} |->
               IF s = {} THEN 0
               ELSE <<v>>[CHOOSE x \in s : TRUE] + f[s \ {CHOOSE x \in s : TRUE}]]
           g == [s \in SUBSET {1} |-> IF s = {} THEN 0 ELSE v]
           f == CHOOSE f : Adding(f)
<1>1. FoldSeq(LAMBDA n, sum : n + sum, 0, <<v>>) = f[{1}]
  BY DEF FoldSeq, FoldFunction, FoldFunctionOnSet, MapThenFoldSet
<1>2. SUBSET {1} = {{}, {1}} /\ (CHOOSE x \in {1} : TRUE) = 1 /\ {1} \ {1} = {} /\ v + 0 = v
  BY DEF Numbers
<1>3. Adding(g)
  <2>1. PICK rest : rest = [s \in SUBSET {1} |->
               IF s = {} THEN 0
               ELSE <<v>>[CHOOSE x \in s : TRUE] + g[s \ {CHOOSE x \in s : TRUE}]]
    OBVIOUS
  <2>2. g[{}] = 0 /\ g[{1}] = v /\ <<v>>[1] = v
    BY <1>2
  <2> HIDE DEF g
  <2>3. rest[{}] = 0 /\ rest[{1}] = v
    <3>1. {} \in SUBSET {1} /\ {1} \in SUBSET {1} /\ {1} # {}
      OBVIOUS
    <3>2. rest[{}] = 0
      BY <2>1, <3>1
    <3>3. rest[{1}] = <<v>>[CHOOSE x \in {1} : TRUE] + g[{1} \ {CHOOSE x \in {1} : TRUE}]
      BY <2>1, <3>1
    <3> QED BY <1>2, <2>2, <3>2, <3>3
  <2>4. DOMAIN rest = SUBSET {1}
    BY <2>1
  <2>5. DOMAIN g = SUBSET {1} /\ g = [s \in DOMAIN g |-> g[s]] /\ rest = [s \in DOMAIN rest |-> rest[s]]
    BY <2>1 DEF g
  <2>6. \A s \in SUBSET {1} : g[s] = rest[s]
    BY <1>2, <2>2, <2>3
  <2>7. g = rest
    BY <2>4, <2>5, <2>6
  <2> QED BY <2>1, <2>7
<1>4. Adding(f)
  BY <1>3
<1> HIDE DEF f, g
<1>5. f[{}] = 0 /\ f[{1}] = <<v>>[1] + f[{}]
  BY <1>2, <1>4
<1>6. f[{1}] = v
  BY <1>2, <1>5
<1>7. Len(<<v>>) = 1 /\ v \in Nat /\ v \div 1 = v
  BY DEF Numbers
<1> QED BY <1>1, <1>6, <1>7 DEF Mean

-----------------------------------------------------------------------------
(* What a step does to the run it is of. *)

LEMMA NoRunIsRow ==
  /\ NoRun \in RunRow /\ NoRun.at = "cancelled" /\ NoRun.mode = "dryRun"
  /\ NoRun.mean = Missing /\ NoRun.initial = << >> /\ NoRun.because = "none"
<1>1. << >> \in Seq(Numbers) /\ Missing \in Readings
  BY DEF Readings
<1>2. PICK k : k = StartedRun("dryRun", Missing, << >>)
  OBVIOUS
<1>3. k \in [mode : Modes, reading : Readings, initial : Seq(Numbers), at : {"mean"},
             because : {"none"}, mean : {Missing}, upTo : {0}, port : {"none"}, outputs : {{}},
             edge : {[x \in Ways |-> "pending"]}, joined : {{}}]
  BY <1>1, <1>2 DEF StartedRun, Modes, Ways
<1>4. k.mode = "dryRun" /\ k.initial = << >>
  BY <1>2 DEF StartedRun
<1>5. k \in RunRow
  BY <1>3 DEF RunRow, Places, Ways
<1>6. NoRun = [k EXCEPT !.at = "cancelled"]
  BY <1>2 DEF NoRun
<1>7. NoRun \in RunRow
  BY <1>5, <1>6 DEF RunRow, Places
<1> QED BY <1>3, <1>4, <1>6, <1>7

\* A run that has begun.
LEMMA StartedIsRow ==
  ASSUME NEW mode \in Modes, NEW reading \in Readings, NEW initial \in Seq(Numbers)
  PROVE  LET k == StartedRun(mode, reading, initial) IN
         /\ k \in RunRow /\ k.mode = mode /\ k.at = "mean" /\ k.initial = initial
         /\ k.mean = Missing /\ k.because = "none" /\ k.upTo = 0 /\ k.outputs = {}
         /\ k.edge = BothPending
<1>1. PICK k : k = StartedRun(mode, reading, initial)
  OBVIOUS
<1>2. k \in [mode : Modes, reading : Readings, initial : Seq(Numbers), at : {"mean"},
             because : {"none"}, mean : {Missing}, upTo : {0}, port : {"none"}, outputs : {{}},
             edge : {BothPending}, joined : {{}}]
  BY <1>1 DEF StartedRun, Ways, BothPending
<1>3. k.mode = mode /\ k.initial = initial
  BY <1>1 DEF StartedRun
<1>4. BothPending \in [Ways -> {"pending", "taken", "skipped"}]
  BY DEF BothPending
<1>5. k \in RunRow
  BY <1>2, <1>4 DEF RunRow, Places, Ways
<1> QED BY <1>1, <1>2, <1>3, <1>5

LEMMA LibraryStarts == NodeLibraryInit => LibraryInv
<1> SUFFICES ASSUME NodeLibraryInit PROVE LibraryInv
  OBVIOUS
<1>1. RunInv(NoRun, << >>, << >>)
  BY NoRunIsRow DEF RunInv, PlaceInv, MeanInv, JoinInv, Ended
<1>2. << >> \in Seq(Numbers) /\ Len(<< >>) = 0 /\ 0 \in 0..Len(<< >>) /\ 0 \in Nat
  OBVIOUS
<1>3. Ones(<< >>, 0) = << >>
  <2>1. Ones(<< >>, 0) \in Seq(Numbers) /\ Len(Ones(<< >>, 0)) = 0 - Before(0) /\ Before(0) \in 0..0
    BY <1>2, OnesType, BeforeType
  <2>2. Len(Ones(<< >>, 0)) = 0
    BY <2>1
  <2> QED BY <2>1, <2>2
<1>4. \A r \in Slots : runs[r] = NoRun
  BY DEF NodeLibraryInit
<1>5. \A r \in Slots : ~ Holds(r)
  BY <1>4, NoRunIsRow DEF Holds
<1> QED BY <1>1, <1>2, <1>3, <1>4, <1>5, NoRunIsRow DEF NodeLibraryInit, LibraryInv

\* A run that moves, and counts nothing.
LEMMA RunMoves ==
  ASSUME LibraryInv, NEW r \in Slots, NEW q \in RunRow, runs' = [runs EXCEPT ![r] = q],
         UNCHANGED <<definition, row, counted>>, again' \in Readings \cup {NoTrigger},
         RunInv(q, counted, row),
         q.mode = "live" /\ q.at \notin Ended => Holds(r) \/ FlowIsFree
  PROVE  LibraryInv'
<1>1. runs \in [Slots -> RunRow] /\ \A s \in Slots : RunInv(runs[s], counted, row)
  BY DEF LibraryInv
<1>2. runs' \in [Slots -> RunRow] /\ runs'[r] = q /\ \A s \in Slots : s # r => runs'[s] = runs[s]
  BY <1>1
<1>3. \A s \in Slots : RunInv(runs'[s], counted, row)
  BY <1>1, <1>2
<1>4. \A s \in Slots : RunInv(runs[s], counted, row)'
  BY <1>3 DEF RunInv, PlaceInv, MeanInv, JoinInv, LookupBinding
<1>5. \A a, b \in Slots : Holds(a)' /\ Holds(b)' => a = b
  <2>1. \A s \in Slots : s # r => (Holds(s)' <=> Holds(s))
    BY <1>2 DEF Holds
  <2>2. Holds(r)' => Holds(r) \/ FlowIsFree
    BY <1>2 DEF Holds
  <2> QED BY <2>1, <2>2 DEF LibraryInv, FlowIsFree
<1>6. /\ (definition \in Definitions)' /\ (again \in Readings \cup {NoTrigger})'
      /\ (counted \in Seq(Numbers))' /\ (row \in Seq(Numbers))'
      /\ (row = Ones(counted, Len(counted)))'
  BY DEF LibraryInv
<1> QED BY <1>2, <1>4, <1>5, <1>6 DEF LibraryInv

\* A run that is over.
LEMMA RunIsOver ==
  ASSUME LibraryInv, NEW r \in Slots, NEW how \in Ended, NEW joined \in SUBSET Ways,
         RunEndsAs(r, how, joined), UNCHANGED <<definition, again, row, counted>>,
         how = "failed" => runs[r].at \in {"mean", "condition", "alert"},
         how = "completed" => joined = IF runs[r].port = "true" THEN {"alert"} ELSE {"delay"}
  PROVE  LibraryInv'
<1>1. PICK k \in RunRow : k = runs[r]
  BY DEF LibraryInv
<1>2. PICK p \in {"none", "true", "false"} : p = IF how = "completed" THEN k.port ELSE "none"
  BY DEF RunRow
<1>3. PICK b \in Places \cup {"none"} : b = IF how = "failed" THEN k.at ELSE "none"
  BY DEF RunRow
<1>4. PICK q : q = [NoRun EXCEPT !.at = how, !.joined = joined, !.port = p, !.because = b]
  OBVIOUS
<1>5. runs' = [runs EXCEPT ![r] = q]
  BY <1>1, <1>2, <1>3, <1>4 DEF RunEndsAs
<1>6. how \in Places
  BY DEF Ended, Places
<1>7. q \in RunRow
  BY <1>4, <1>6, NoRunIsRow DEF RunRow
<1>8. q.at = how /\ q.joined = joined /\ q.port = p /\ q.because = b
  BY <1>4, NoRunIsRow DEF RunRow
<1>9. q.mode = "dryRun" /\ q.initial = << >> /\ q.mean = Missing
  BY <1>4, NoRunIsRow DEF RunRow
<1>10. b \in {"none", "mean", "condition", "alert"}
  BY <1>1, <1>3
<1>11. RunInv(q, counted, row)
  <2>1. PlaceInv(q, row)
    BY <1>8, <1>9 DEF PlaceInv, Ended
  <2>2. MeanInv(q, counted)
    BY <1>9 DEF MeanInv
  <2>3. JoinInv(q)
    BY <1>1, <1>2, <1>8, <1>10 DEF JoinInv
  <2> QED BY <2>1, <2>2, <2>3 DEF RunInv
<1>12. again' \in Readings \cup {NoTrigger}
  BY DEF LibraryInv
<1> QED BY <1>5, <1>7, <1>9, <1>11, <1>12, RunMoves

\* A run that has just begun.
LEMMA RunBegins ==
  ASSUME LibraryInv, NEW r \in Slots, NEW mode \in Modes, NEW reading \in Readings,
         NEW initial \in Seq(Numbers),
         mode = "dryRun" => initial = << >>, mode = "live" => initial = row /\ FlowIsFree,
         runs' = [runs EXCEPT ![r] = StartedRun(mode, reading, initial)],
         UNCHANGED <<definition, row, counted>>, again' \in Readings \cup {NoTrigger}
  PROVE  LibraryInv'
<1>1. PICK q : q = StartedRun(mode, reading, initial)
  OBVIOUS
<1>2. /\ q \in RunRow /\ q.mode = mode /\ q.at = "mean" /\ q.initial = initial
      /\ q.mean = Missing /\ q.because = "none" /\ q.upTo = 0 /\ q.outputs = {}
      /\ q.edge = BothPending
  BY <1>1, StartedIsRow
<1>3. Len(counted) \in Nat
  BY DEF LibraryInv
<1>4. PlaceInv(q, row) /\ MeanInv(q, counted) /\ JoinInv(q)
  BY <1>2, <1>3 DEF PlaceInv, MeanInv, JoinInv, Ended, Modes
<1> QED BY <1>1, <1>2, <1>4, RunMoves DEF RunInv

\* A live run counts its reading when nobody else has since it began.
LEMMA ReadingIsCounted ==
  ASSUME LibraryInv, NEW r \in Slots, StepMean(r),
         LookupBinding(runs[r].reading).is = "number"
  PROVE  LibraryInv'
<1>1. PICK k \in RunRow : k = runs[r] /\ RunInv(k, counted, row)
  BY DEF LibraryInv
<1>2. PICK v \in Numbers : LookupBinding(k.reading) = Number(v)
  <2>1. k.reading \in Readings /\ LookupBinding(k.reading).is = "number"
    BY <1>1 DEF RunRow
  <2>2. definition \in Definitions
    BY DEF LibraryInv
  <2>3. 0 \in Numbers /\ 4 \in Numbers
    BY DEF Numbers
  <2>4. CASE k.reading = Missing
    BY <2>1, <2>2, <2>4, LibraryAssumption DEF LookupBinding
  <2>5. CASE k.reading # Missing
    BY <2>1, <2>3, <2>5 DEF LookupBinding, Readings
  <2> QED BY <2>4, <2>5
<1>3. LookupBinding(k.reading).n = v
  BY <1>2 DEF Number
<1>4. PICK w : w = Window(k.initial, v)
  OBVIOUS
<1>5. PICK n \in Nat : n = Len(counted)
  BY DEF LibraryInv
<1>6. PICK d : d = Append(counted, v)
  OBVIOUS
<1>7. counted \in Seq(Numbers) /\ d \in Seq(Numbers) /\ Len(d) = n + 1
  BY <1>5, <1>6 DEF LibraryInv
<1>8. k.at = "mean" /\ k.mode \in Modes /\ k.initial \in Seq(Numbers)
  BY <1>1 DEF StepMean, RunRow
<1>9. k.mode = "live" => w = Ones(d, n + 1)
  BY <1>1, <1>4, <1>5, <1>6, <1>7, <1>8, WindowMoves DEF RunInv, PlaceInv, LibraryInv
<1>10. k.mode = "dryRun" => w = <<v>> /\ Mean(w) = v
  BY <1>1, <1>4, <1>8, WindowOfFirst, MeanOfOne DEF RunInv, PlaceInv
<1>11. w \in Seq(Numbers)
  <2>1. n + 1 \in 0..Len(d)
    BY <1>5, <1>7
  <2>2. k.mode = "live" => w \in Seq(Numbers)
    BY <1>7, <1>9, <2>1, OnesType
  <2> QED BY <1>8, <1>10, <2>2, SingletonType DEF Modes
<1>12. PICK q : q = [k EXCEPT !.at = "condition", !.mean = Number(Mean(w)), !.upTo = n + 1]
  OBVIOUS
<1>13. runs' = [runs EXCEPT ![r] = q]
  BY <1>1, <1>3, <1>4, <1>5, <1>12, <1>2 DEF StepMean, Number, LibraryInv
<1>14. q \in RunRow
  <2>1. PICK m \in {Number(Mean(u)) : u \in Seq(Numbers)} : m = Number(Mean(w))
    BY <1>11
  <2>2. PICK i \in Nat : i = n + 1
    BY <1>5
  <2>3. q = [k EXCEPT !.at = "condition", !.mean = m, !.upTo = i]
    BY <1>12, <2>1, <2>2
  <2> QED BY <2>1, <2>3 DEF RunRow, Places
<1>15. /\ q.at = "condition" /\ q.mean = Number(Mean(w)) /\ q.upTo = n + 1
       /\ q.mode = k.mode /\ q.initial = k.initial /\ q.outputs = k.outputs
       /\ q.edge = k.edge /\ q.because = k.because /\ q.reading = k.reading
  BY <1>12 DEF RunRow
<1>16. PlaceInv(q, row) /\ PlaceInv(q, w) /\ JoinInv(q)
  BY <1>1, <1>8, <1>15 DEF RunInv, PlaceInv, JoinInv, Ended
<1>17. UNCHANGED <<definition, again>>
  BY DEF StepMean
<1>18. CASE k.mode = "live"
  <2>1. row' = w /\ counted' = d
    BY <1>1, <1>2, <1>3, <1>4, <1>6, <1>18 DEF StepMean, Number
  <2>2. MeanInv(q, d)
    BY <1>7, <1>9, <1>15, <1>18 DEF MeanInv
  <2>3. \A s \in Slots : s # r => RunInv(runs[s], d, w)
    <3> SUFFICES ASSUME NEW s \in Slots, s # r PROVE RunInv(runs[s], d, w)
      OBVIOUS
    <3>1. PICK j \in RunRow : j = runs[s] /\ RunInv(j, counted, row)
      BY DEF LibraryInv
    <3>2. Holds(r)
      BY <1>1, <1>8, <1>18 DEF Holds, Ended
    <3>3. ~ (j.mode = "live" /\ j.at = "mean")
      BY <3>1, <3>2 DEF LibraryInv, Holds, Ended
    <3>4. PlaceInv(j, w)
      BY <3>1, <3>3 DEF RunInv, PlaceInv
    <3>5. j.upTo \in Nat
      BY <3>1 DEF RunRow
    <3>6. j.mode = "live" => j.upTo \in 0..n /\ j.upTo <= Len(d)
      BY <1>5, <1>7, <3>1, <3>5 DEF RunInv, MeanInv
    <3>7. j.mode = "live" => Ones(d, j.upTo) = Ones(counted, j.upTo)
      BY <1>5, <1>6, <1>7, <3>6, OnesStay
    <3>8. MeanInv(j, d)
      BY <3>1, <3>6, <3>7 DEF RunInv, MeanInv
    <3> QED BY <3>1, <3>4, <3>8 DEF RunInv
  <2>4. \A s \in Slots : RunInv(runs'[s], d, w)
    BY <1>13, <1>16, <2>2, <2>3 DEF RunInv, LibraryInv
  <2>5. \A s \in Slots : RunInv(runs[s], counted, row)'
    BY <1>17, <2>1, <2>4 DEF RunInv, PlaceInv, MeanInv, JoinInv, LookupBinding
  <2>6. \A s \in Slots : Holds(s)' <=> Holds(s)
    BY <1>1, <1>8, <1>13, <1>15 DEF Holds, LibraryInv, Ended
  <2>7. row' = Ones(counted', Len(counted'))
    BY <1>7, <1>9, <1>18, <2>1
  <2>8. runs' \in [Slots -> RunRow] /\ row' \in Seq(Numbers) /\ counted' \in Seq(Numbers)
    BY <1>7, <1>11, <1>13, <1>14, <2>1 DEF LibraryInv
  <2> HIDE DEF Holds
  <2>9. \A a, b \in Slots : Holds(a)' /\ Holds(b)' => a = b
    BY <2>6 DEF LibraryInv
  <2> QED BY <1>17, <2>5, <2>7, <2>8, <2>9 DEF LibraryInv
<1>19. CASE k.mode = "dryRun"
  <2>1. UNCHANGED <<row, counted>>
    BY <1>1, <1>2, <1>19 DEF StepMean, Number
  <2>2. MeanInv(q, counted)
    BY <1>2, <1>10, <1>15, <1>19 DEF MeanInv
  <2> QED BY <1>13, <1>14, <1>15, <1>16, <1>17, <1>19, <2>1, <2>2, RunMoves
          DEF RunInv, LibraryInv
<1> QED BY <1>8, <1>18, <1>19 DEF Modes

\* Where a condition goes is the one way, and the other is skipped.
LEMMA ConditionGoes ==
  ASSUME NEW r, StepCondition(r)
  PROVE  /\ runs[r].at = "condition" /\ UNCHANGED <<definition, again, row, counted>>
         /\ \/ Fails(r)
            \/ \E port \in {"true", "false"} :
                  runs' = [runs EXCEPT ![r].at = port, ![r].port = port,
                              ![r].edge[Other(port)] = "skipped"]
<1> DEFINE port == IF LeftOf(r) = Missing THEN "failed"
                   ELSE EvaluateCondition(definition.operator, LeftOf(r), definition.right)
<1>1. port \in {"true", "false", "failed"}
  BY DEF EvaluateCondition
<1>2. /\ runs[r].at = "condition" /\ UNCHANGED <<definition, again, row, counted>>
      /\ IF port = "failed" THEN Fails(r)
         ELSE runs' = [runs EXCEPT ![r].at = port, ![r].port = port,
                           ![r].edge[IF port = "true" THEN "delay" ELSE "alert"] = "skipped"]
  BY DEF StepCondition
<1> HIDE DEF port
<1> QED BY <1>1, <1>2 DEF Other

LEMMA ConditionKept ==
  ASSUME LibraryInv, NEW r \in Slots, StepCondition(r) PROVE LibraryInv'
<1>1. PICK k \in RunRow : k = runs[r] /\ RunInv(k, counted, row)
  BY DEF LibraryInv
<1>2. k.at = "condition" /\ UNCHANGED <<definition, again, row, counted>>
  BY <1>1, ConditionGoes
<1>3. k.outputs = {} /\ k.edge = BothPending
  BY <1>1, <1>2 DEF RunInv, PlaceInv
<1>4. CASE Fails(r)
  BY <1>1, <1>2, <1>4, RunIsOver DEF Fails, Ended
<1>5. ASSUME NEW port \in {"true", "false"},
             runs' = [runs EXCEPT ![r].at = port, ![r].port = port,
                         ![r].edge[Other(port)] = "skipped"]
      PROVE  LibraryInv'
  <2>1. PICK e : e = Skipping(port)
    OBVIOUS
  <2>2. e = [k.edge EXCEPT ![Other(port)] = "skipped"]
    BY <1>3, <2>1 DEF Skipping
  <2>3. PICK q : q = [k EXCEPT !.at = port, !.port = port, !.edge = e]
    OBVIOUS
  <2>4. runs' = [runs EXCEPT ![r] = q]
    BY <1>1, <1>5, <2>2, <2>3 DEF LibraryInv, RunRow
  <2>5. e \in [Ways -> {"pending", "taken", "skipped"}]
    BY <2>1 DEF Skipping, BothPending
  <2>6. q \in RunRow
    BY <2>3, <2>5 DEF RunRow, Places
  <2>7. /\ q.at = port /\ q.port = port /\ q.edge = e /\ q.mode = k.mode /\ q.initial = k.initial
        /\ q.mean = k.mean /\ q.reading = k.reading /\ q.outputs = {} /\ q.because = k.because
        /\ q.upTo = k.upTo
    BY <1>3, <2>3 DEF RunRow
  <2>8. PlaceInv(q, row) /\ MeanInv(q, counted) /\ JoinInv(q)
    BY <1>1, <2>1, <2>7 DEF RunInv, PlaceInv, MeanInv, JoinInv, Ended
  <2>9. q.mode = "live" => Holds(r)
    BY <1>1, <1>2, <2>7 DEF Holds, Ended
  <2> QED BY <1>2, <2>4, <2>6, <2>8, <2>9, RunMoves DEF RunInv, LibraryInv
<1> QED BY <1>4, <1>5, ConditionGoes

\* A node asks and the run waits.
LEMMA EffectKept ==
  ASSUME LibraryInv, NEW r \in Slots, StepEffect(r) PROVE LibraryInv'
<1>1. PICK k \in RunRow : k = runs[r] /\ RunInv(k, counted, row)
  BY DEF LibraryInv
<1>2. UNCHANGED <<definition, again, row, counted>>
  BY DEF StepEffect
<1>3. PICK p \in Ways : /\ \/ k.at = "true" /\ p = "alert"
                           \/ k.at = "false" /\ p = "delay"
                        /\ runs' = [runs EXCEPT ![r].at = p]
  BY <1>1 DEF StepEffect, MovesTo, Ways
<1>4. PICK q : q = [k EXCEPT !.at = p]
  OBVIOUS
<1>5. runs' = [runs EXCEPT ![r] = q]
  BY <1>1, <1>3, <1>4 DEF LibraryInv
<1>6. q \in RunRow
  BY <1>3, <1>4 DEF RunRow, Places, Ways
<1>7. /\ q.at = p /\ q.port = k.port /\ q.edge = k.edge /\ q.mode = k.mode /\ q.initial = k.initial
      /\ q.mean = k.mean /\ q.reading = k.reading /\ q.outputs = k.outputs
      /\ q.because = k.because /\ q.upTo = k.upTo
  BY <1>4 DEF RunRow
<1>8. PlaceInv(q, row) /\ MeanInv(q, counted) /\ JoinInv(q)
  BY <1>1, <1>3, <1>7 DEF RunInv, PlaceInv, MeanInv, JoinInv, Ended
<1>9. q.mode = "live" => Holds(r)
  BY <1>1, <1>3, <1>7 DEF Holds, Ended
<1> QED BY <1>2, <1>5, <1>6, <1>8, <1>9, RunMoves DEF RunInv, LibraryInv

\* The answer comes to the node that asked.
LEMMA AnswerKept ==
  ASSUME LibraryInv, NEW r \in Slots, NEW isSuccess \in BOOLEAN,
         CompleteFromResponse(r, isSuccess)
  PROVE  LibraryInv'
<1>1. PICK k \in RunRow : k = runs[r] /\ RunInv(k, counted, row)
  BY DEF LibraryInv
<1>2. UNCHANGED <<definition, again, row, counted>>
  BY DEF CompleteFromResponse
<1>3. PICK p \in Ways : p = k.at
  BY <1>1 DEF CompleteFromResponse, Ways
<1>4. CASE ~ isSuccess
  BY <1>1, <1>2, <1>4, RunIsOver DEF CompleteFromResponse, Fails, Ended
<1>5. CASE isSuccess
  <2>1. PICK e : e = [k.edge EXCEPT ![p] = "taken"]
    OBVIOUS
  <2>2. k.port = (IF p = "alert" THEN "true" ELSE "false")
        /\ k.edge = Skipping(k.port) /\ k.outputs = {}
    BY <1>1, <1>3 DEF RunInv, PlaceInv, Ways
  <2>3. p = Way(k.port)
    BY <2>2 DEF Way, Ways
  <2>4. PICK q : q = [k EXCEPT !.at = "join", !.outputs = {p}, !.edge = e]
    OBVIOUS
  <2>5. k.outputs \cup {p} = {p}
    BY <2>2
  <2>6. runs' = [runs EXCEPT ![r].at = "join", ![r].outputs = @ \cup {p}, ![r].edge[p] = "taken"]
    BY <1>1, <1>3, <1>5 DEF CompleteFromResponse
  <2>7. runs' = [runs EXCEPT ![r] = q]
    BY <1>1, <2>1, <2>4, <2>5, <2>6 DEF LibraryInv, RunRow
  <2>8. e \in [Ways -> {"pending", "taken", "skipped"}]
    BY <2>1 DEF RunRow
  <2>9. q \in RunRow
    BY <2>4, <2>8 DEF RunRow, Places
  <2>10. /\ q.at = "join" /\ q.port = k.port /\ q.edge = e /\ q.mode = k.mode
         /\ q.initial = k.initial /\ q.mean = k.mean /\ q.reading = k.reading
         /\ q.outputs = {p} /\ q.because = k.because /\ q.upTo = k.upTo
    BY <2>4 DEF RunRow
  <2>11. q.port \in {"true", "false"} /\ q.outputs = {Way(q.port)}
         /\ q.edge = [Skipping(q.port) EXCEPT ![Way(q.port)] = "taken"]
    BY <2>1, <2>2, <2>3, <2>10
  <2>12. PlaceInv(q, row) /\ MeanInv(q, counted) /\ JoinInv(q)
    <3>0. q.mode = "dryRun" => q.initial = << >>
      BY <1>1, <2>10 DEF RunInv, PlaceInv
    <3>1. PlaceInv(q, row)
      BY <2>10, <2>11, <3>0 DEF PlaceInv, Ended
    <3>2. MeanInv(q, counted)
      BY <1>1, <2>10 DEF RunInv, MeanInv, Ended
    <3>3. JoinInv(q)
      BY <1>1, <2>10, <2>11 DEF RunInv, JoinInv, Ended
    <3> QED BY <3>1, <3>2, <3>3
  <2>13. q.mode = "live" => Holds(r)
    BY <1>1, <1>3, <2>10 DEF Holds, Ended, Ways
  <2> QED BY <1>2, <2>7, <2>9, <2>12, <2>13, RunMoves DEF RunInv, LibraryInv
<1> QED BY <1>4, <1>5

\* The join reads the way that was taken, which has an output.
LEMMA JoinKept ==
  ASSUME LibraryInv, NEW r \in Slots, StepJoin(r) PROVE LibraryInv'
<1>1. PICK k \in RunRow : k = runs[r] /\ RunInv(k, counted, row)
  BY DEF LibraryInv
<1>2. k.at = "join" /\ UNCHANGED <<definition, again, row, counted>>
  BY <1>1 DEF StepJoin
<1>3. PICK p \in {"true", "false"} :
         p = k.port /\ k.outputs = {Way(p)} /\ k.edge = [Skipping(p) EXCEPT ![Way(p)] = "taken"]
  BY <1>1, <1>2 DEF RunInv, PlaceInv
<1>4. PICK e : e = k.edge
  OBVIOUS
<1>5. DOMAIN e = Ways /\ e[Way(p)] = "taken" /\ e[Other(p)] = "skipped"
  BY <1>3, <1>4 DEF Skipping, BothPending, Way, Other, Ways
<1>6. {x \in DOMAIN e : e[x] = "taken"} = {Way(p)}
  BY <1>5 DEF Way, Other, Ways
<1>7. (CHOOSE x \in {Way(p)} : TRUE) = Way(p)
  OBVIOUS
<1>8. InputNamesForStart(e) = {Way(p)}
  BY <1>6, <1>7 DEF InputNamesForStart
<1>9. RunEndsAs(r, "completed", {Way(p)})
  BY <1>1, <1>3, <1>4, <1>8 DEF StepJoin, ResolvesInputs
<1>10. {Way(p)} = IF runs[r].port = "true" THEN {"alert"} ELSE {"delay"}
  BY <1>1, <1>3 DEF Way
<1>11. {Way(p)} \in SUBSET Ways
  BY DEF Way, Ways
<1> QED BY <1>2, <1>9, <1>10, <1>11, RunIsOver DEF Ended

\* Whatever the nodes do, what is remembered stays what was counted.
LEMMA LibraryKept ==
  ASSUME LibraryInv, [NodeLibraryNext]_libraryVars PROVE LibraryInv'
<1>1. CASE UNCHANGED libraryVars
  BY <1>1 DEF libraryVars, LibraryInv, RunInv, PlaceInv, MeanInv, JoinInv, LookupBinding, Holds
<1>2. ASSUME NEW r \in Slots, NEW reading \in Readings, StartDry(r, reading)
      PROVE  LibraryInv'
  <2>1. << >> \in Seq(Numbers) /\ "dryRun" \in Modes
    BY DEF Modes
  <2>2. /\ runs' = [runs EXCEPT ![r] = StartedRun("dryRun", reading, << >>)]
        /\ UNCHANGED <<definition, row, counted>> /\ again' \in Readings \cup {NoTrigger}
    BY <1>2 DEF StartDry, LibraryInv
  <2> QED BY <2>1, <2>2, RunBegins
<1>3. ASSUME NEW r \in Slots, NEW reading \in Readings, NEW isMarked \in BOOLEAN,
             StartLive(r, reading, isMarked)
      PROVE  LibraryInv'
  <2>1. row \in Seq(Numbers) /\ "live" \in Modes
    BY DEF Modes, LibraryInv
  <2>2. /\ runs' = [runs EXCEPT ![r] = StartedRun("live", reading, row)] /\ FlowIsFree
        /\ UNCHANGED <<definition, row, counted>> /\ again' \in Readings \cup {NoTrigger}
    BY <1>3 DEF StartLive
  <2> QED BY <2>1, <2>2, RunBegins
<1>4. ASSUME NEW r \in Slots, StepMean(r) PROVE LibraryInv'
  <2>1. CASE LookupBinding(runs[r].reading).is = "number"
    BY <1>4, <2>1, ReadingIsCounted
  <2>2. CASE LookupBinding(runs[r].reading).is # "number"
    <3>1. RunEndsAs(r, "failed", {}) /\ UNCHANGED <<definition, again, row, counted>>
          /\ runs[r].at = "mean"
      BY <1>4, <2>2 DEF StepMean, Fails
    <3> QED BY <3>1, RunIsOver DEF Ended
  <2> QED BY <2>1, <2>2
<1>5. ASSUME NEW r \in Slots, CancelRun(r) PROVE LibraryInv'
  BY <1>5, RunIsOver DEF CancelRun, Ended
<1> QED BY <1>1, <1>2, <1>3, <1>4, <1>5, ConditionKept, EffectKept, AnswerKept, JoinKept
        DEF NodeLibraryNext

LEMMA LibrarySound == ASSUME LibraryInv PROVE NodeLibraryHolds /\ NodeLibraryTypeOK
<1>1. RowIsLastReadings
  BY DEF LibraryInv, RowIsLastReadings, LastOnes, Ones
<1>2. MeansAreOfReadings
  BY DEF LibraryInv, RunInv, MeanInv, MeansAreOfReadings, LastOnes, Ones
<1>3. JoinsFindTheirInputs
  BY DEF LibraryInv, RunInv, JoinInv, JoinsFindTheirInputs
<1>4. PICK n \in Nat : n = Len(counted)
  BY DEF LibraryInv
<1>5. Len(row) = n - Before(n)
  BY <1>4, OnesType DEF LibraryInv
<1>6. Len(row) <= WindowSize
  BY <1>4, <1>5, LibraryAssumption DEF Before
<1>7. NodeLibraryTypeOK
  BY <1>6 DEF LibraryInv, NodeLibraryTypeOK, RunRow, Ways
<1> QED BY <1>1, <1>2, <1>3, <1>7 DEF NodeLibraryHolds

-----------------------------------------------------------------------------
(***************************************************************************)
(* Connections to MCP servers.  A row says `ready' only while the session  *)
(* it was written for was not closed, or while some reload has still to    *)
(* open the connection, or all of them.                                    *)
(***************************************************************************)
Reopens(r, c) ==
    /\ reload[r].at = "opening"
    /\ \/ \E x \in reload[r].left : x[1] = c
       \/ reload[r].sess # 0 /\ client[reload[r].sess].conn = c

SessionStands(c) ==
    /\ opened[c] # 0 /\ connRow[c].digest = opened[c]
    /\ client[opened[c]].at \in {"open", "ended"}

ConfigInv ==
    \A c \in Conns : config[c] = 0 => connRow[c].status = "none" /\ opened[c] = 0

OpenedInv ==
    \A c \in Conns : opened[c] # 0 =>
        client[opened[c]].conn = c /\ client[opened[c]].at \in {"open", "closed", "ended"}

ReloadInv ==
    /\ \A r \in Reloads :
          /\ \A x \in reload[r].left : config[x[1]] # 0
          /\ reload[r].sess # 0 => /\ reload[r].at = "opening"
                                   /\ client[reload[r].sess].at = "opening"
                                   /\ config[client[reload[r].sess].conn] # 0
    /\ \A r, q \in Reloads : reload[r].sess = reload[q].sess /\ reload[r].sess # 0 => r = q

ReadyInv ==
    \A c \in Conns : connRow[c].status = "ready" =>
        \/ phase = "recovering"
        \/ \E r \in Reloads : reload[r].at = "closing" \/ Reopens(r, c)
        \/ SessionStands(c)

McpInv == McpTypeOK /\ ConfigInv /\ OpenedInv /\ ReloadInv /\ ReadyInv

ClientRow ==
    [conn : Conns, version : 0..MaxSaved, bearer : 0..MaxAttempts,
     at : {"none", "opening", "open", "closed", "ended"}]
ReloadRow ==
    [at : {"none", "closing", "opening", "over"}, visited : SUBSET Conns,
     left : SUBSET (Conns \X (1..MaxSaved)), sess : 0..MaxSessions]
McpCallRow ==
    [at : {"new", "running", "succeeded", "unknown"}, sess : 0..MaxSessions]

LEMMA McpTypes ==
  McpTypeOK <=>
    /\ phase \in {"recovering", "starting", "serving"}
    /\ config \in [Conns -> 0..MaxSaved]
    /\ bearer \in [Conns -> 0..MaxAttempts] /\ oauth \in [Conns -> 0..MaxAttempts]
    /\ connRow \in [Conns -> RowFor]
    /\ opened \in [Conns -> 0..MaxSessions]
    /\ client \in [Sessions -> ClientRow]
    /\ reload \in [Reloads -> ReloadRow]
    /\ exchange \subseteq Conns \X Attempts
    /\ mcpCall \in [McpCalls -> McpCallRow]
    /\ attempts \in 0..MaxAttempts /\ slips \in 0..MaxFailed
BY DEF McpTypeOK, ClientRow, ReloadRow, McpCallRow

LEMMA ClientUpdates ==
  ASSUME NEW k \in ClientRow, NEW at \in {"none", "opening", "open", "closed", "ended"}
  PROVE  /\ [k EXCEPT !.at = at] \in ClientRow
         /\ [k EXCEPT !.at = at].at = at /\ [k EXCEPT !.at = at].conn = k.conn
BY DEF ClientRow

LEMMA ReloadUpdates ==
  ASSUME NEW k \in ReloadRow, NEW at \in {"none", "closing", "opening", "over"},
         NEW visited \in SUBSET Conns, NEW left \in SUBSET (Conns \X (1..MaxSaved)),
         NEW sess \in 0..MaxSessions
  PROVE  /\ [k EXCEPT !.at = at] \in ReloadRow
         /\ [k EXCEPT !.at = at].at = at /\ [k EXCEPT !.at = at].left = k.left
         /\ [k EXCEPT !.at = at].sess = k.sess
         /\ [k EXCEPT !.visited = visited] \in ReloadRow
         /\ [k EXCEPT !.visited = visited].at = k.at
         /\ [k EXCEPT !.visited = visited].left = k.left
         /\ [k EXCEPT !.visited = visited].sess = k.sess
         /\ [k EXCEPT !.sess = sess] \in ReloadRow
         /\ [k EXCEPT !.sess = sess].at = k.at /\ [k EXCEPT !.sess = sess].left = k.left
         /\ [k EXCEPT !.sess = sess].sess = sess
         /\ [k EXCEPT !.sess = sess, !.left = left] \in ReloadRow
         /\ [k EXCEPT !.sess = sess, !.left = left].at = k.at
         /\ [k EXCEPT !.sess = sess, !.left = left].left = left
         /\ [k EXCEPT !.sess = sess, !.left = left].sess = sess
         /\ [k EXCEPT !.at = at, !.visited = visited, !.left = left] \in ReloadRow
         /\ [k EXCEPT !.at = at, !.visited = visited, !.left = left].at = at
         /\ [k EXCEPT !.at = at, !.visited = visited, !.left = left].left = left
         /\ [k EXCEPT !.at = at, !.visited = visited, !.left = left].sess = k.sess
BY DEF ReloadRow

LEMMA NextFreeType ==
  ASSUME NEW n \in Nat, NEW S \in SUBSET (1..n), S # {}
  PROVE  NextFree(S) \in S
<1>1. S \in SUBSET Nat
  OBVIOUS
<1> QED BY <1>1, Least DEF NextFree

LEMMA NoReloadIsRow ==
  NoReload \in ReloadRow /\ NoReload.at = "none" /\ NoReload.left = {} /\ NoReload.sess = 0
BY McpAssumption DEF NoReload, ReloadRow

LEMMA McpStarts == McpInit => McpInv
<1> SUFFICES ASSUME McpInit PROVE McpInv
  OBVIOUS
<1>1. NoSession \in ClientRow
  BY McpAssumption DEF NoSession, ClientRow, AnyConn
<1>2. Row("none", 0) \in RowFor /\ Row("none", 0).status = "none"
  BY McpAssumption DEF Row, RowFor
<1>3. [at |-> "new", sess |-> 0] \in McpCallRow
  BY McpAssumption DEF McpCallRow
<1>4. McpTypeOK
  BY <1>1, <1>2, <1>3, NoReloadIsRow, McpAssumption, McpTypes DEF McpInit
<1>5. ConfigInv /\ ReadyInv
  BY <1>2 DEF McpInit, ConfigInv, ReadyInv
<1>6. OpenedInv
  BY DEF McpInit, OpenedInv
<1>7. ReloadInv
  BY NoReloadIsRow DEF McpInit, ReloadInv
<1> QED BY <1>4, <1>5, <1>6, <1>7 DEF McpInv

\* A reload that somebody begins.
LEMMA BeginsWell ==
  ASSUME McpInv, Begins, UNCHANGED <<client>>,
         config' \in [Conns -> 0..MaxSaved], \A c \in Conns : config[c] # 0 => config'[c] # 0
  PROVE  /\ reload' \in [Reloads -> ReloadRow] /\ ReloadInv'
         /\ \E r \in Reloads : reload'[r].at = "closing"
<1>1. reload \in [Reloads -> ReloadRow] /\ client \in [Sessions -> ClientRow]
  BY McpTypes DEF McpInv
<1>2. PICK r : r = NextFree(FreeReloads)
  OBVIOUS
<1>3. r \in FreeReloads
  BY <1>2, NextFreeType, McpAssumption DEF Begins, FreeReloads, Reloads
<1>4. PICK k \in ReloadRow : k = reload[r] /\ k.at = "none" /\ r \in Reloads
  BY <1>1, <1>3 DEF FreeReloads
<1>5. PICK q : q = [k EXCEPT !.at = "closing"]
  OBVIOUS
<1>6. q \in ReloadRow /\ q.at = "closing" /\ q.left = k.left /\ q.sess = k.sess
  BY <1>5 DEF ReloadRow
<1>7. reload' = [reload EXCEPT ![r] = q]
  BY <1>1, <1>2, <1>4, <1>5 DEF Begins
<1>8. /\ reload' \in [Reloads -> ReloadRow] /\ reload'[r] = q
      /\ \A s \in Reloads : s # r => reload'[s] = reload[s]
  BY <1>1, <1>4, <1>6, <1>7
<1>9. k.sess = 0
  BY <1>4 DEF McpInv, ReloadInv
<1>10. \A s \in Reloads : reload'[s].left = reload[s].left /\ reload'[s].sess = reload[s].sess
                          /\ (s # r => reload'[s].at = reload[s].at)
  BY <1>4, <1>6, <1>8
<1>11. \A s \in Reloads : /\ \A x \in reload[s].left : x[1] \in Conns
                          /\ reload[s].sess # 0 => client[reload[s].sess].conn \in Conns
  BY <1>1, McpAssumption DEF ReloadRow, ClientRow, Sessions
<1>12. ReloadInv'
  BY <1>4, <1>9, <1>10, <1>11 DEF McpInv, ReloadInv
<1> QED BY <1>4, <1>6, <1>8, <1>12

\* The row of no connection changes to ready, and what reopens it stays, or it is closed by
\* a reload that opens it again.
LEMMA ReadyStays ==
  ASSUME ReadyInv, phase' = phase \/ ~ (phase = "recovering"),
         \A c \in Conns : connRow'[c].status = "ready" =>
             /\ connRow[c] = connRow'[c]
             /\ SessionStands(c) => SessionStands(c)' \/ \E r \in Reloads : reload'[r].at = "closing",
         \A r \in Reloads : reload[r].at = "closing" => reload'[r].at = "closing",
         \A r \in Reloads, c \in Conns :
             Reopens(r, c) /\ connRow'[c].status = "ready" => Reopens(r, c)'
  PROVE  ReadyInv'
<1> SUFFICES ASSUME NEW c \in Conns, connRow'[c].status = "ready"
             PROVE  \/ phase' = "recovering"
                    \/ \E r \in Reloads : reload'[r].at = "closing" \/ Reopens(r, c)'
                    \/ SessionStands(c)'
  BY DEF ReadyInv
<1>1. connRow[c].status = "ready"
  OBVIOUS
<1> QED BY <1>1 DEF ReadyInv

LEMMA McpKept ==
  ASSUME McpInv, [McpNext]_mcpVars
  PROVE  McpInv'
<1> DEFINE Kept ==
        /\ phase' \in {"recovering", "starting", "serving"}
        /\ config' \in [Conns -> 0..MaxSaved]
        /\ bearer' \in [Conns -> 0..MaxAttempts] /\ oauth' \in [Conns -> 0..MaxAttempts]
        /\ connRow' \in [Conns -> RowFor]
        /\ opened' \in [Conns -> 0..MaxSessions]
        /\ client' \in [Sessions -> ClientRow]
        /\ reload' \in [Reloads -> ReloadRow]
        /\ exchange' \subseteq Conns \X Attempts
        /\ mcpCall' \in [McpCalls -> McpCallRow]
        /\ attempts' \in 0..MaxAttempts /\ slips' \in 0..MaxFailed
        /\ ConfigInv' /\ OpenedInv' /\ ReloadInv' /\ ReadyInv'
<1>t. /\ phase \in {"recovering", "starting", "serving"}
      /\ config \in [Conns -> 0..MaxSaved]
      /\ bearer \in [Conns -> 0..MaxAttempts] /\ oauth \in [Conns -> 0..MaxAttempts]
      /\ connRow \in [Conns -> RowFor]
      /\ opened \in [Conns -> 0..MaxSessions]
      /\ client \in [Sessions -> ClientRow]
      /\ reload \in [Reloads -> ReloadRow]
      /\ exchange \subseteq Conns \X Attempts
      /\ mcpCall \in [McpCalls -> McpCallRow]
      /\ attempts \in 0..MaxAttempts /\ slips \in 0..MaxFailed
  BY McpTypes DEF McpInv
<1>i. ConfigInv /\ OpenedInv /\ ReloadInv /\ ReadyInv
  BY DEF McpInv
<1>n. /\ MaxReloads \in Nat /\ MaxSessions \in Nat /\ MaxSaved \in Nat
      /\ MaxAttempts \in Nat /\ MaxFailed \in Nat
  BY McpAssumption
<1>s. \A c \in Conns : opened[c] # 0 => opened[c] \in Sessions
  BY <1>t, <1>n DEF Sessions
<1>r. \A r \in Reloads : /\ reload[r].sess # 0 => reload[r].sess \in Sessions
                         /\ reload[r].left \subseteq Conns \X (1..MaxSaved)
                         /\ reload[r].visited \subseteq Conns
  BY <1>t, <1>n DEF Sessions, ReloadRow
<1>1. CASE UNCHANGED mcpVars
  BY <1>1 DEF mcpVars, McpInv, McpTypeOK, ConfigInv, OpenedInv, ReloadInv, ReadyInv, Reopens,
              SessionStands
<1>2. ASSUME BootReloads PROVE Kept
  <2>1. UNCHANGED <<config, bearer, connRow, oauth, opened, client, exchange, mcpCall, attempts, slips>>
        /\ phase' = "starting" /\ Begins
    BY <1>2 DEF BootReloads
  <2>2. /\ reload' \in [Reloads -> ReloadRow] /\ ReloadInv'
        /\ \E r \in Reloads : reload'[r].at = "closing"
    BY <1>t, <2>1, BeginsWell
  <2>3. ConfigInv' /\ OpenedInv' /\ ReadyInv'
    BY <1>i, <2>1, <2>2 DEF ConfigInv, OpenedInv, ReadyInv
  <2> QED BY <1>t, <2>1, <2>2, <2>3
<1>3. ASSUME NEW c \in Conns, SavesConfig(c) PROVE Kept
  <2>1. UNCHANGED <<phase, bearer, oauth, opened, client, exchange, mcpCall, attempts, slips>>
        /\ Begins
    BY <1>3 DEF SavesConfig
  <2>2. PICK v \in 1..MaxSaved : config' = [config EXCEPT ![c] = v]
    BY <1>3 DEF SavesConfig
  <2>3. config' \in [Conns -> 0..MaxSaved] /\ config'[c] # 0
        /\ \A d \in Conns : config[d] # 0 => config'[d] # 0
    BY <1>t, <1>n, <2>2
  <2>4. /\ reload' \in [Reloads -> ReloadRow] /\ ReloadInv'
        /\ \E r \in Reloads : reload'[r].at = "closing"
    BY <2>1, <2>3, BeginsWell
  <2>5. connRow' = [connRow EXCEPT ![c] = Row("configured", 0)]
    BY <1>3 DEF SavesConfig
  <2>6. Row("configured", 0) \in RowFor
    BY <1>n DEF Row, RowFor
  <2>7. connRow' \in [Conns -> RowFor] /\ \A d \in Conns : d # c => connRow'[d] = connRow[d]
    BY <1>t, <2>5, <2>6
  <2>8. \A d \in Conns : d # c => config'[d] = config[d]
    BY <1>t, <2>2
  <2>9. ConfigInv'
    BY <1>i, <2>1, <2>3, <2>7, <2>8 DEF ConfigInv
  <2>10. OpenedInv' /\ ReadyInv'
    BY <1>i, <2>1, <2>4 DEF OpenedInv, ReadyInv
  <2> QED BY <1>t, <2>1, <2>3, <2>4, <2>7, <2>9, <2>10
<1>4. ASSUME NEW x \in exchange, Exchanged(x) PROVE Kept
  <2>1. UNCHANGED <<phase, config, connRow, opened, client, mcpCall, attempts, slips>> /\ Begins
    BY <1>4 DEF Exchanged
  <2>2. /\ reload' \in [Reloads -> ReloadRow] /\ ReloadInv'
        /\ \E r \in Reloads : reload'[r].at = "closing"
    BY <1>t, <2>1, BeginsWell
  <2>3. x[1] \in Conns /\ x[2] \in 0..MaxAttempts /\ exchange' \subseteq Conns \X Attempts
    BY <1>t, <1>n, <1>4 DEF Exchanged, Attempts
  <2>4. bearer' \in [Conns -> 0..MaxAttempts] /\ oauth' \in [Conns -> 0..MaxAttempts]
    BY <1>t, <1>n, <1>4, <2>3 DEF Exchanged
  <2>5. ConfigInv' /\ OpenedInv' /\ ReadyInv'
    BY <1>i, <2>1, <2>2 DEF ConfigInv, OpenedInv, ReadyInv
  <2> QED BY <1>t, <2>1, <2>2, <2>3, <2>4, <2>5
<1>5. ASSUME McpRestarts PROVE Kept
  <2>1. /\ UNCHANGED <<config, bearer, connRow, oauth, attempts>> /\ phase' = "recovering"
        /\ opened' = [c \in Conns |-> 0] /\ exchange' = {} /\ slips' = slips + 1 /\ slips < MaxFailed
    BY <1>5 DEF McpRestarts
  <2>2. client' \in [Sessions -> ClientRow]
    BY <1>t, <1>5, ClientUpdates DEF McpRestarts
  <2>3. \A r \in Reloads : reload'[r] \in ReloadRow /\ reload'[r].left = {} /\ reload'[r].sess = 0
    <3>1. PICK k : k = [NoReload EXCEPT !.at = "over"]
      OBVIOUS
    <3>2. k \in ReloadRow /\ k.left = {} /\ k.sess = 0
      BY <3>1, NoReloadIsRow DEF ReloadRow
    <3>3. \A r \in Reloads : reload'[r] = NoReload \/ reload'[r] = k
      BY <1>5, <3>1 DEF McpRestarts
    <3> QED BY <3>2, <3>3, NoReloadIsRow
  <2>4. reload' \in [Reloads -> ReloadRow]
    BY <1>5, <2>3 DEF McpRestarts
  <2>5. mcpCall' \in [McpCalls -> McpCallRow]
    BY <1>t, <1>5 DEF McpRestarts, McpCallRow
  <2>6. opened' \in [Conns -> 0..MaxSessions] /\ \A c \in Conns : opened'[c] = 0
    BY <1>n, <2>1
  <2>7. ConfigInv' /\ OpenedInv' /\ ReadyInv'
    BY <1>i, <2>1, <2>6 DEF ConfigInv, OpenedInv, ReadyInv
  <2>8. ReloadInv'
    BY <2>3 DEF ReloadInv
  <2>9. slips' \in 0..MaxFailed
    BY <1>t, <1>n, <2>1
  <2> QED BY <1>t, <2>1, <2>2, <2>4, <2>5, <2>6, <2>7, <2>8, <2>9
<1>6. ASSUME NEW r \in Reloads, NEW c \in Conns, ClosesNext(r, c) PROVE Kept
  <2>1. /\ UNCHANGED <<phase, config, bearer, connRow, oauth, opened, exchange, mcpCall, attempts, slips>>
        /\ reload[r].at = "closing" /\ opened[c] # 0
    BY <1>6 DEF ClosesNext
  <2>2. PICK s \in Sessions : s = opened[c]
    BY <1>s, <2>1
  <2>3. PICK k : k = [client[s] EXCEPT !.at = "closed"]
    OBVIOUS
  <2>4. k \in ClientRow /\ k.at = "closed" /\ k.conn = client[s].conn
    BY <1>t, <2>3, ClientUpdates
  <2>5. client' = [client EXCEPT ![s] = k]
    BY <1>t, <1>6, <2>2, <2>3 DEF ClosesNext
  <2>6. /\ client' \in [Sessions -> ClientRow]
        /\ \A z \in Sessions : client'[z].conn = client[z].conn
                               /\ (z # s => client'[z].at = client[z].at)
        /\ client'[s].at = "closed"
    BY <1>t, <2>4, <2>5
  <2>7. PICK j : j = [reload[r] EXCEPT !.visited = reload[r].visited \cup {c}]
    OBVIOUS
  <2>8. j \in ReloadRow /\ j.at = reload[r].at /\ j.left = reload[r].left /\ j.sess = reload[r].sess
    BY <1>t, <1>r, <2>7 DEF ReloadRow
  <2>9. reload' = [reload EXCEPT ![r] = j]
    BY <1>t, <1>6, <2>7 DEF ClosesNext
  <2>10. /\ reload' \in [Reloads -> ReloadRow]
         /\ \A q \in Reloads : /\ reload'[q].at = reload[q].at /\ reload'[q].left = reload[q].left
                               /\ reload'[q].sess = reload[q].sess
    BY <1>t, <2>8, <2>9
  <2>11. ConfigInv'
    BY <1>i, <2>1 DEF ConfigInv
  <2>12. OpenedInv'
    BY <1>i, <1>s, <2>1, <2>6 DEF OpenedInv
  <2>13. client[s].at # "opening"
    BY <1>i, <2>1, <2>2 DEF OpenedInv
  <2>14. ReloadInv'
    BY <1>i, <1>r, <2>1, <2>6, <2>10, <2>13 DEF ReloadInv
  <2>15. ReadyInv'
    BY <1>i, <2>1, <2>10 DEF ReadyInv
  <2> QED BY <1>t, <2>1, <2>6, <2>10, <2>11, <2>12, <2>14, <2>15
<1>7. ASSUME NEW r \in Reloads, ClearsAll(r) PROVE Kept
  <2>1. UNCHANGED <<phase, config, bearer, connRow, oauth, client, exchange, mcpCall, attempts, slips>>
        /\ opened' = [c \in Conns |-> 0] /\ reload[r].at = "closing"
    BY <1>7, Zenon DEF ClearsAll
  <2> DEFINE Row0 == [reload[r] EXCEPT !.at = "opening", !.visited = {},
                         !.left = {<<c, config[c]>> : c \in {d \in Conns : config[d] # 0}}]
  <2>r. reload' = [q \in Reloads |-> IF q = r THEN Row0 ELSE [reload[q] EXCEPT !.visited = {}]]
    BY <1>7, Zenon DEF ClearsAll
  <2>2. PICK left : left = {<<c, config[c]>> : c \in {d \in Conns : config[d] # 0}}
    OBVIOUS
  <2>l. left \in SUBSET (Conns \X (1..MaxSaved))
    <3>1. \A c \in Conns : config[c] # 0 => config[c] \in 1..MaxSaved
      BY <1>t, <1>n
    <3> QED BY <2>2, <3>1
  <2>3. PICK j : j = Row0
    BY Zenon
  <2>j. j = [reload[r] EXCEPT !.at = "opening", !.visited = {}, !.left = left]
    BY <2>2, <2>3, Zenon
  <2> HIDE DEF Row0
  <2>4. j \in ReloadRow /\ j.at = "opening" /\ j.left = left /\ j.sess = reload[r].sess
    BY <1>t, <2>j, <2>l DEF ReloadRow
  <2>5. reload' = [q \in Reloads |-> IF q = r THEN j ELSE [reload[q] EXCEPT !.visited = {}]]
    BY <2>3, <2>r
  <2>6. \A q \in Reloads : q # r =>
           /\ reload'[q] \in ReloadRow /\ reload'[q].at = reload[q].at
           /\ reload'[q].left = reload[q].left /\ reload'[q].sess = reload[q].sess
    BY <1>t, <2>5 DEF ReloadRow
  <2>7. reload'[r] = j
    BY <2>5
  <2>8. reload' \in [Reloads -> ReloadRow]
    BY <2>4, <2>5, <2>6, <2>7
  <2>9. \A c \in Conns : config[c] # 0 => \E x \in left : x[1] = c
    <3>1. \A c \in Conns : config[c] # 0 => <<c, config[c]>> \in left /\ <<c, config[c]>>[1] = c
      BY <2>2
    <3> QED BY <3>1
  <2>10. \A x \in left : config[x[1]] # 0
    BY <2>2
  <2>11. ConfigInv' /\ OpenedInv'
    BY <1>i, <2>1 DEF ConfigInv, OpenedInv
  <2>12. ReloadInv'
    <3>1. \A q \in Reloads : /\ \A x \in reload'[q].left : config[x[1]] # 0
                             /\ reload'[q].sess = reload[q].sess
                             /\ (q # r => reload'[q].at = reload[q].at)
      BY <1>i, <2>4, <2>6, <2>7, <2>10 DEF ReloadInv
    <3>2. reload[r].sess = 0
      BY <1>i, <2>1 DEF ReloadInv
    <3> QED BY <1>i, <2>1, <3>1, <3>2 DEF ReloadInv
  <2>13. \A c \in Conns : connRow'[c].status = "ready" => Reopens(r, c)'
    BY <1>i, <2>1, <2>4, <2>7, <2>9 DEF ConfigInv, Reopens
  <2>14. ReadyInv'
    BY <2>13 DEF ReadyInv
  <2> QED BY <1>t, <1>n, <2>1, <2>8, <2>11, <2>12, <2>14
<1>8. ASSUME NEW r \in Reloads, NEW c \in Conns, OpensNext(r, c) PROVE Kept
  <2>1. /\ UNCHANGED <<phase, config, bearer, connRow, oauth, opened, exchange, mcpCall, attempts, slips>>
        /\ reload[r].at = "opening" /\ reload[r].sess = 0 /\ FreeSessions # {}
    BY <1>8 DEF OpensNext
  <2>2. PICK s : s = NextFree(FreeSessions)
    OBVIOUS
  <2>3. s \in Sessions /\ client[s].at = "none" /\ s # 0 /\ s \in 0..MaxSessions
    <3>0. FreeSessions \in SUBSET (1..MaxSessions)
      BY DEF FreeSessions, Sessions
    <3>1. s \in FreeSessions
      BY <1>n, <2>1, <2>2, <3>0, NextFreeType
    <3>2. s \in Sessions /\ client[s].at = "none"
      BY <3>1 DEF FreeSessions
    <3> QED BY <1>n, <3>2 DEF Sessions
  <2>4. PICK x \in reload[r].left :
           /\ x[1] = c
           /\ client' = [client EXCEPT ![s] =
                  [conn |-> c, version |-> x[2], bearer |-> bearer[c], at |-> "opening"]]
           /\ reload' = [reload EXCEPT ![r].sess = s, ![r].left = @ \ {x}]
    BY <1>8, <2>2 DEF OpensNext
  <2>5. PICK k : k = [conn |-> c, version |-> x[2], bearer |-> bearer[c], at |-> "opening"]
    OBVIOUS
  <2>6. k \in ClientRow /\ k.conn = c /\ k.at = "opening"
    <3>1. x[2] \in 0..MaxSaved
      BY <1>n, <1>r
    <3> QED BY <1>t, <2>5, <3>1 DEF ClientRow
  <2>7. /\ client' \in [Sessions -> ClientRow] /\ client'[s] = k
        /\ \A z \in Sessions : z # s => client'[z] = client[z]
    BY <1>t, <2>3, <2>4, <2>5, <2>6
  <2>8. PICK j : j = [reload[r] EXCEPT !.sess = s, !.left = reload[r].left \ {x}]
    OBVIOUS
  <2>9. j \in ReloadRow /\ j.at = "opening" /\ j.left = reload[r].left \ {x} /\ j.sess = s
    BY <1>t, <1>r, <2>1, <2>3, <2>8 DEF ReloadRow
  <2>10. reload' = [reload EXCEPT ![r] = j]
    BY <1>t, <2>4, <2>8
  <2>11. /\ reload' \in [Reloads -> ReloadRow] /\ reload'[r] = j
         /\ \A q \in Reloads : q # r => reload'[q] = reload[q]
    BY <1>t, <2>9, <2>10
  <2>12. \A q \in Reloads : reload[q].sess # s
    BY <1>i, <2>3 DEF ReloadInv
  <2>13. \A d \in Conns : opened[d] # s
    BY <1>i, <2>3 DEF OpenedInv
  <2>14. ConfigInv'
    BY <1>i, <2>1 DEF ConfigInv
  <2>15. OpenedInv'
    BY <1>i, <1>s, <2>1, <2>7, <2>13 DEF OpenedInv
  <2>16. ReloadInv'
    <3>1. \A q \in Reloads : \A y \in reload'[q].left : config'[y[1]] # 0
      BY <1>i, <2>1, <2>9, <2>11 DEF ReloadInv
    <3>2. \A q \in Reloads : reload'[q].sess # 0 =>
             /\ reload'[q].at = "opening" /\ client'[reload'[q].sess].at = "opening"
             /\ config'[client'[reload'[q].sess].conn] # 0
      <4> SUFFICES ASSUME NEW q \in Reloads, reload'[q].sess # 0
                   PROVE  /\ reload'[q].at = "opening" /\ client'[reload'[q].sess].at = "opening"
                          /\ config'[client'[reload'[q].sess].conn] # 0
        OBVIOUS
      <4>1. CASE q = r
        <5>1. config[c] # 0
          BY <1>i, <2>4 DEF ReloadInv
        <5> QED BY <2>1, <2>6, <2>7, <2>9, <2>11, <4>1, <5>1
      <4>2. CASE q # r
        BY <1>i, <1>r, <2>1, <2>7, <2>11, <2>12, <4>2 DEF ReloadInv
      <4> QED BY <4>1, <4>2
    <3>3. \A q, p \in Reloads : reload'[q].sess = reload'[p].sess /\ reload'[q].sess # 0 => q = p
      BY <1>i, <2>9, <2>11, <2>12 DEF ReloadInv
    <3> QED BY <3>1, <3>2, <3>3 DEF ReloadInv
  <2>17. \A q \in Reloads, d \in Conns : Reopens(q, d) => Reopens(q, d)'
    <3> SUFFICES ASSUME NEW q \in Reloads, NEW d \in Conns, Reopens(q, d) PROVE Reopens(q, d)'
      OBVIOUS
    <3>1. CASE q # r
      BY <1>r, <2>7, <2>11, <2>12, <3>1 DEF Reopens
    <3>2. CASE q = r /\ d = c
      BY <2>3, <2>6, <2>7, <2>9, <2>11, <3>2 DEF Reopens
    <3>3. CASE q = r /\ d # c
      <4>1. PICK y \in reload[r].left : y[1] = d
        BY <2>1, <3>3 DEF Reopens
      <4>2. y \in j.left
        BY <2>4, <2>9, <3>3, <4>1
      <4> QED BY <2>9, <2>11, <3>3, <4>1, <4>2 DEF Reopens
    <3> QED BY <3>1, <3>2, <3>3
  <2>18. \A d \in Conns : SessionStands(d) => SessionStands(d)'
    BY <1>s, <2>1, <2>7, <2>13 DEF SessionStands
  <2>19. ReadyInv'
    BY <1>i, <2>1, <2>9, <2>11, <2>17, <2>18, ReadyStays
  <2> QED BY <1>t, <2>1, <2>7, <2>11, <2>14, <2>15, <2>16, <2>19
<1>9. ASSUME NEW r \in Reloads, IsOpened(r) \/ IsRefused(r) PROVE Kept
  <2>1. /\ UNCHANGED <<phase, config, bearer, oauth, exchange, mcpCall, attempts>>
        /\ reload[r].sess # 0 /\ reload' = [reload EXCEPT ![r].sess = 0]
        /\ slips' \in 0..MaxFailed
    BY <1>t, <1>n, <1>9 DEF IsOpened, IsRefused
  <2>2. PICK s \in Sessions : s = reload[r].sess
    BY <1>r, <2>1
  <2>3. PICK c \in Conns : c = client[s].conn
    BY <1>t DEF ClientRow
  <2>4. reload[r].at = "opening" /\ client[s].at = "opening" /\ config[c] # 0
    BY <1>i, <2>1, <2>2, <2>3 DEF ReloadInv
  <2>5. s # 0 /\ s \in 0..MaxSessions /\ 0 \in 0..MaxSessions
    BY <1>n DEF Sessions
  <2>6. PICK at \in {"open", "closed"}, o \in {s, opened[c]}, m \in {Row("ready", s), Row("error", 0)} :
           /\ client' = [client EXCEPT ![s].at = at]
           /\ opened' = [opened EXCEPT ![c] = o]
           /\ connRow' = [connRow EXCEPT ![c] = m]
           /\ m.status = "ready" => at = "open" /\ o = s /\ m.digest = s
           /\ o = s => at = "open"
    <3>1. CASE IsOpened(r)
      BY <2>2, <2>3, <3>1 DEF IsOpened, Row
    <3>2. CASE IsRefused(r)
      <4>1. opened' = [opened EXCEPT ![c] = opened[c]]
        BY <1>t, <3>2 DEF IsRefused
      <4>2. opened[c] # s
        BY <1>i, <2>4, <2>5 DEF OpenedInv
      <4> QED BY <2>2, <2>3, <3>2, <4>1, <4>2 DEF IsRefused, Row
    <3> QED BY <1>9, <3>1, <3>2
  <2>7. PICK k : k = [client[s] EXCEPT !.at = at]
    OBVIOUS
  <2>8. k \in ClientRow /\ k.at = at /\ k.conn = c
    BY <1>t, <2>3, <2>7 DEF ClientRow
  <2>9. /\ client' \in [Sessions -> ClientRow] /\ client'[s] = k
        /\ \A z \in Sessions : z # s => client'[z] = client[z]
    <3>1. client' = [client EXCEPT ![s] = k]
      BY <1>t, <2>6, <2>7
    <3> QED BY <1>t, <2>8, <3>1
  <2>10. /\ opened' \in [Conns -> 0..MaxSessions] /\ opened'[c] = o
         /\ \A d \in Conns : d # c => opened'[d] = opened[d]
    BY <1>t, <2>5, <2>6
  <2>11. m \in RowFor
    BY <2>5 DEF Row, RowFor
  <2>12. /\ connRow' \in [Conns -> RowFor] /\ connRow'[c] = m
         /\ \A d \in Conns : d # c => connRow'[d] = connRow[d]
    BY <1>t, <2>6, <2>11
  <2>13. PICK j : j = [reload[r] EXCEPT !.sess = 0]
    OBVIOUS
  <2>14. j \in ReloadRow /\ j.at = "opening" /\ j.left = reload[r].left /\ j.sess = 0
    BY <1>t, <2>4, <2>5, <2>13 DEF ReloadRow
  <2>15. /\ reload' \in [Reloads -> ReloadRow] /\ reload'[r] = j
         /\ \A q \in Reloads : q # r => reload'[q] = reload[q]
    <3>1. reload' = [reload EXCEPT ![r] = j]
      BY <1>t, <2>1, <2>13
    <3> QED BY <1>t, <2>14, <3>1
  <2>16. \A q \in Reloads : q # r => reload[q].sess # s
    BY <1>i, <2>1, <2>2 DEF ReloadInv
  <2>17. \A d \in Conns : opened[d] # s
    BY <1>i, <2>4, <2>5 DEF OpenedInv
  <2>18. ConfigInv'
    BY <1>i, <2>1, <2>4, <2>10, <2>12 DEF ConfigInv
  <2>19. OpenedInv'
    <3> SUFFICES ASSUME NEW d \in Conns, opened'[d] # 0
                 PROVE  client'[opened'[d]].conn = d /\ client'[opened'[d]].at \in {"open", "closed", "ended"}
      BY DEF OpenedInv
    <3>1. CASE opened'[d] = s
      <4>1. d = c /\ o = s
        BY <2>10, <2>17, <3>1
      <4> QED BY <2>6, <2>8, <2>9, <3>1, <4>1
    <3>2. CASE opened'[d] # s
      <4>1. opened'[d] = opened[d]
        BY <2>10, <3>2
      <4> QED BY <1>i, <1>s, <2>9, <3>2, <4>1 DEF OpenedInv
    <3> QED BY <3>1, <3>2
  <2>20. ReloadInv'
    <3>1. \A q \in Reloads : \A y \in reload'[q].left : config'[y[1]] # 0
      BY <1>i, <2>1, <2>14, <2>15 DEF ReloadInv
    <3>2. \A q \in Reloads : reload'[q].sess # 0 =>
             /\ reload'[q].at = "opening" /\ client'[reload'[q].sess].at = "opening"
             /\ config'[client'[reload'[q].sess].conn] # 0
      BY <1>i, <1>r, <2>1, <2>9, <2>14, <2>15, <2>16 DEF ReloadInv
    <3>3. \A q, p \in Reloads : reload'[q].sess = reload'[p].sess /\ reload'[q].sess # 0 => q = p
      BY <1>i, <2>14, <2>15 DEF ReloadInv
    <3> QED BY <3>1, <3>2, <3>3 DEF ReloadInv
  <2>21. ReadyInv'
    <3> SUFFICES ASSUME NEW d \in Conns, connRow'[d].status = "ready"
                 PROVE  \/ phase' = "recovering"
                        \/ \E q \in Reloads : reload'[q].at = "closing" \/ Reopens(q, d)'
                        \/ SessionStands(d)'
      BY DEF ReadyInv
    <3>1. CASE d = c
      BY <2>5, <2>6, <2>8, <2>9, <2>10, <2>12, <3>1 DEF SessionStands
    <3>2. CASE d # c
      <4>1. connRow[d].status = "ready" /\ connRow'[d] = connRow[d] /\ opened'[d] = opened[d]
        BY <2>10, <2>12, <3>2
      <4>2. SessionStands(d) => SessionStands(d)'
        BY <1>s, <2>9, <2>17, <4>1 DEF SessionStands
      <4>3. \A q \in Reloads : reload[q].at = "closing" => reload'[q].at = "closing"
        BY <2>4, <2>15
      <4>4. \A q \in Reloads : Reopens(q, d) => Reopens(q, d)'
        <5> SUFFICES ASSUME NEW q \in Reloads, Reopens(q, d) PROVE Reopens(q, d)'
          OBVIOUS
        <5>1. CASE q # r
          BY <1>r, <2>9, <2>15, <2>16, <5>1 DEF Reopens
        <5>2. CASE q = r
          BY <2>2, <2>3, <2>14, <2>15, <3>2, <5>2 DEF Reopens
        <5> QED BY <5>1, <5>2
      <4> QED BY <1>i, <2>1, <4>1, <4>2, <4>3, <4>4 DEF ReadyInv
    <3> QED BY <3>1, <3>2
  <2> QED BY <1>t, <2>1, <2>9, <2>10, <2>12, <2>15, <2>18, <2>19, <2>20, <2>21
<1>10. ASSUME NEW r \in Reloads, EndsReload(r) PROVE Kept
  <2>1. /\ UNCHANGED <<config, bearer, connRow, oauth, opened, client, exchange, mcpCall, attempts, slips>>
        /\ reload[r].at = "opening" /\ reload[r].sess = 0 /\ reload[r].left = {}
        /\ phase' \in {"recovering", "starting", "serving"} /\ (phase = "recovering" => phase' = phase)
    BY <1>t, <1>10 DEF EndsReload
  <2>2. PICK j : j = [reload[r] EXCEPT !.at = "over"]
    OBVIOUS
  <2>3. j \in ReloadRow /\ j.at = "over" /\ j.left = {} /\ j.sess = 0
    BY <1>t, <2>1, <2>2 DEF ReloadRow
  <2>4. reload' = [reload EXCEPT ![r] = j]
    BY <1>t, <1>10, <2>2 DEF EndsReload
  <2>5. /\ reload' \in [Reloads -> ReloadRow] /\ reload'[r] = j
        /\ \A q \in Reloads : q # r => reload'[q] = reload[q]
    BY <1>t, <2>3, <2>4
  <2>6. ConfigInv' /\ OpenedInv'
    BY <1>i, <2>1 DEF ConfigInv, OpenedInv
  <2>7. ReloadInv'
    BY <1>i, <2>1, <2>3, <2>5 DEF ReloadInv
  <2>8. \A c \in Conns : ~ Reopens(r, c)
    BY <2>1 DEF Reopens
  <2>9. \A q \in Reloads, c \in Conns : Reopens(q, c) => Reopens(q, c)'
    BY <2>1, <2>5, <2>8 DEF Reopens
  <2>10. \A c \in Conns : SessionStands(c) => SessionStands(c)'
    BY <2>1 DEF SessionStands
  <2>11. ReadyInv'
    BY <1>i, <2>1, <2>5, <2>9, <2>10 DEF ReadyInv
  <2> QED BY <1>t, <2>1, <2>5, <2>6, <2>7, <2>11
<1>11. ASSUME UNCHANGED <<phase, config, connRow, opened, client, reload>>,
              bearer' \in [Conns -> 0..MaxAttempts], oauth' \in [Conns -> 0..MaxAttempts],
              exchange' \subseteq Conns \X Attempts, mcpCall' \in [McpCalls -> McpCallRow],
              attempts' \in 0..MaxAttempts, slips' \in 0..MaxFailed
       PROVE  Kept
  <2>1. ConfigInv' /\ OpenedInv' /\ ReloadInv' /\ ReadyInv'
    BY <1>i, <1>11 DEF ConfigInv, OpenedInv, ReloadInv, ReadyInv, Reopens, SessionStands
  <2> QED BY <1>t, <1>11, <2>1
<1>12. ASSUME NEW c \in Conns, StartMcpOauth(c) \/ FinishMcpOauth(c) PROVE Kept
  <2>1. UNCHANGED <<phase, config, connRow, opened, client, reload, bearer, mcpCall, slips>>
    BY <1>12 DEF StartMcpOauth, FinishMcpOauth
  <2>2. attempts' \in 0..MaxAttempts /\ oauth' \in [Conns -> 0..MaxAttempts]
    BY <1>t, <1>n, <1>12 DEF StartMcpOauth, FinishMcpOauth
  <2>3. oauth[c] # 0 => <<c, oauth[c]>> \in Conns \X Attempts
    BY <1>t, <1>n DEF Attempts
  <2>4. exchange' \subseteq Conns \X Attempts
    BY <1>t, <1>12, <2>3 DEF StartMcpOauth, FinishMcpOauth
  <2> QED BY <1>t, <1>11, <2>1, <2>2, <2>4
<1>13. ASSUME NEW x \in exchange, ExchangeFails(x) PROVE Kept
  BY <1>t, <1>11, <1>13 DEF ExchangeFails
<1>14. ASSUME NEW k \in McpCalls, ToolAnswers(k) \/ ToolIsLost(k) \/ \E c \in Conns : ExecutesTool(k, c)
       PROVE  Kept
  <2>1. UNCHANGED <<phase, config, connRow, opened, client, reload, bearer, oauth, exchange, attempts>>
    BY <1>14 DEF ToolAnswers, ToolIsLost, ExecutesTool
  <2>2. mcpCall' \in [McpCalls -> McpCallRow]
    BY <1>t, <1>14 DEF ToolAnswers, ToolIsLost, ExecutesTool, McpCallRow
  <2>3. slips' \in 0..MaxFailed
    BY <1>t, <1>n, <1>14 DEF ToolAnswers, ToolIsLost, ExecutesTool
  <2> QED BY <1>t, <1>11, <2>1, <2>2, <2>3
<1>15. ASSUME NEW s \in Sessions, SessionEnds(s) PROVE Kept
  <2>1. /\ UNCHANGED <<phase, config, bearer, connRow, oauth, opened, reload, exchange, mcpCall, attempts>>
        /\ client[s].at = "open" /\ slips' \in 0..MaxFailed
    BY <1>t, <1>n, <1>15 DEF SessionEnds
  <2>2. PICK k : k = [client[s] EXCEPT !.at = "ended"]
    OBVIOUS
  <2>3. k \in ClientRow /\ k.at = "ended" /\ k.conn = client[s].conn
    BY <1>t, <2>2, ClientUpdates
  <2>4. client' = [client EXCEPT ![s] = k]
    BY <1>t, <1>15, <2>2 DEF SessionEnds
  <2>5. /\ client' \in [Sessions -> ClientRow]
        /\ \A z \in Sessions : client'[z].conn = client[z].conn
                               /\ (z # s => client'[z].at = client[z].at)
        /\ client'[s].at = "ended"
    BY <1>t, <2>3, <2>4
  <2>6. OpenedInv'
    BY <1>i, <1>s, <2>1, <2>5 DEF OpenedInv
  <2>7. \A q \in Reloads : reload[q].sess # s
    BY <1>i, <2>1, <1>n DEF ReloadInv, Sessions
  <2>8. ConfigInv' /\ ReloadInv'
    BY <1>i, <1>r, <2>1, <2>5, <2>7 DEF ConfigInv, ReloadInv
  <2>9. \A q \in Reloads, d \in Conns : Reopens(q, d) => Reopens(q, d)'
    BY <1>r, <2>1, <2>5 DEF Reopens
  <2>10. \A d \in Conns : SessionStands(d) => SessionStands(d)'
    BY <1>s, <2>1, <2>5 DEF SessionStands
  <2>11. ReadyInv'
    BY <1>i, <2>1, <2>9, <2>10 DEF ReadyInv
  <2> QED BY <1>t, <2>1, <2>5, <2>6, <2>8, <2>11
<1> HIDE DEF Kept
<1>16. CASE McpNext
  <2>1. Kept
    BY <1>2, <1>3, <1>4, <1>5, <1>6, <1>7, <1>8, <1>9, <1>10, <1>12, <1>13, <1>14, <1>15, <1>16
    DEF McpNext
  <2>2. McpTypeOK'
    BY <2>1 DEF Kept, McpTypeOK, ClientRow, ReloadRow, McpCallRow
  <2> QED BY <2>1, <2>2 DEF Kept, McpInv
<1> QED BY <1>1, <1>16

LEMMA McpSound == ASSUME McpInv PROVE ReadyIsOpen
<1> SUFFICES ASSUME AtRest, NEW c \in Conns, AssertMcpReady(c)
             PROVE  /\ SnapshotOf(c) = "ready"
                    /\ client[opened[c]].at \in {"open", "ended"}
                    /\ connRow[c].digest = opened[c]
  BY DEF ReadyIsOpen
<1>1. SessionStands(c)
  BY DEF McpInv, ReadyInv, AtRest, AssertMcpReady, Reopens
<1> QED BY <1>1 DEF SessionStands, SnapshotOf

-----------------------------------------------------------------------------
(***************************************************************************)
(* Times.  What is due to start waits in memory until a tick; what a tick  *)
(* has learnt was started, is over, is what waits, or, of the sun, is of   *)
(* the day after what waits, which starts before the sun's next time is    *)
(* read.                                                                   *)
(***************************************************************************)
Events   == {d * Day + SunAt : d \in Week}
OffOf(b) == IF b = "before" THEN 0 - Offset ELSE Offset

FiredInv == \A k \in Keys : pending[k].fired => <<k, pending[k].due>> \in inbox

\* A schedule waits for the first of its times of today that is not over, and fires in time.
PlanInv ==
    \A k \in Keys : k[2] = "schedule" /\ pending[k] # Forgotten =>
        /\ pending[k].due \in ScheduleDues
        /\ \A t \in ScheduleDues : t < pending[k].due => t + Grace <= now \/ t < Today
        /\ ~pending[k].fired => now <= pending[k].due /\ (ticked => now < pending[k].due)

PlanStarted ==
    up /\ ticked /\ active # 0 =>
        \A due \in {t \in ScheduleDues : t >= Today /\ InTime(t)} :
            <<<<active, "schedule">>, due>> \in inbox

SunInv ==
    \/ /\ sun = NoSun
       /\ \A k \in Keys : k[2] # "schedule" => pending[k] = Forgotten
       /\ \A x \in learnt : x[1][2] = "schedule"
    \/ /\ sun.next \in Events /\ sun.since \in 0..now
       /\ sun.since < sun.next /\ sun.next <= sun.since + Day

AwaitedInv ==
    \A k \in Keys : k[2] # "schedule" /\ pending[k] # Forgotten =>
        \E e \in Events : e <= sun.next /\ pending[k].due = e + OffOf(k[2])

\* The trigger waits for the day before, or has just started for it.
Soon(k, due) ==
    /\ k[2] # "schedule"
    /\ due = sun.next + OffOf(k[2])
    /\ pending[k] # Forgotten /\ pending[k].due = due - Day
    /\ IF pending[k].fired
       THEN now <= due - Day + Grace /\ (ticked => now < due - Day + Grace)
       ELSE now <= due - Day /\ (ticked => now < due - Day)

Waiting(k, due) ==
    /\ pending[k] # Forgotten /\ pending[k].due = due /\ ~pending[k].fired
    /\ ticked => now < due

LearntInv ==
    \A x \in learnt :
        x \in inbox \/ x[2] + Grace <= now \/ Waiting(x[1], x[2]) \/ Soon(x[1], x[2])

DownInv == ~up => learnt = {} /\ pending = [k \in Keys |-> Forgotten] /\ sun = NoSun

ScheduleInv ==
    /\ ScheduleTypeOK /\ FiredInv /\ PlanInv /\ PlanStarted /\ SunInv /\ AwaitedInv
    /\ LearntInv /\ DownInv

PendRow == [due : Int, fired : BOOLEAN]

\* Days do not overlap.
LEMMA DaysApart ==
  ASSUME NEW a \in Nat, NEW b \in Nat, a < b
  PROVE  a * Day \in Nat /\ b * Day \in Nat /\ a * Day + Day <= b * Day
<1>1. Day \in Nat
  BY ScheduleAssumption
<1>2. PICK c \in Nat : b = a + 1 + c
  <2>1. b - a - 1 \in Nat /\ b = a + 1 + (b - a - 1)
    OBVIOUS
  <2> QED BY <2>1
<1>3. b * Day = a * Day + Day + c * Day
  BY <1>1, <1>2
<1>4. a * Day \in Nat /\ c * Day \in Nat /\ b * Day \in Nat
  BY <1>1
<1> QED BY <1>1, <1>3, <1>4

LEMMA Apart ==
  ASSUME NEW at \in 0..(Day - 1), NEW a \in Nat, NEW b \in Nat
  PROVE  /\ a * Day + at \in Nat
         /\ a * Day + at < b * Day + at => a * Day + at + Day <= b * Day + at
         /\ a * Day + at < b * Day + at /\ b * Day + at < a * Day + at + 2 * Day
               => b * Day + at = a * Day + at + Day
<1>1. Day \in Nat /\ at \in Nat /\ a * Day \in Nat /\ b * Day \in Nat
  BY ScheduleAssumption
<1>2. b <= a => b * Day <= a * Day
  BY <1>1, DaysApart
<1>3. CASE b <= a
  BY <1>1, <1>2, <1>3
<1>4. CASE a < b
  <2>1. a * Day + Day <= b * Day
    BY <1>4, DaysApart
  <2>2. a + 1 < b => (a + 1) * Day + Day <= b * Day
    BY DaysApart
  <2>3. (a + 1) * Day = a * Day + Day
    BY <1>1
  <2>4. a + 1 < b => a * Day + 2 * Day <= b * Day
    BY <1>1, <2>2, <2>3
  <2>5. a + 1 < b \/ b = a + 1
    BY <1>4
  <2> QED BY <1>1, <2>1, <2>3, <2>4, <2>5
<1> QED BY <1>3, <1>4

LEMMA WeekIs ==
  /\ Week \subseteq Nat
  /\ \A d \in Nat : d <= MaxTime \div Day + 7 => d \in Week
  /\ MaxTime \div Day \in Nat
  /\ MaxTime < (MaxTime \div Day + 1) * Day
<1>1. Day \in Nat /\ Day > 0 /\ MaxTime \in Nat
  BY ScheduleAssumption
<1>2. MaxTime \div Day \in Nat /\ MaxTime < (MaxTime \div Day + 1) * Day
  BY <1>1
<1> QED BY <1>2 DEF Week

LEMMA EventsApart ==
  ASSUME NEW e \in Events, NEW f \in Events
  PROVE  /\ e \in Nat /\ f \in Nat
         /\ e < f => e + Day <= f
         /\ e < f /\ f < e + 2 * Day => f = e + Day
<1>1. PICK a \in Nat, b \in Nat : e = a * Day + SunAt /\ f = b * Day + SunAt
  BY WeekIs DEF Events
<1> QED BY <1>1, Apart, ScheduleAssumption

LEMMA DuesApart ==
  ASSUME NEW e \in ScheduleDues, NEW f \in ScheduleDues
  PROVE  /\ e \in Nat /\ f \in Nat
         /\ e < f => e + Day <= f
<1>1. PICK a \in Nat, b \in Nat : e = a * Day + TimeOfDay /\ f = b * Day + TimeOfDay
  BY WeekIs DEF ScheduleDues
<1> QED BY <1>1, Apart, ScheduleAssumption

LEMMA EarliestIs ==
  ASSUME NEW S \in SUBSET Nat, S # {}
  PROVE  Earliest(S) \in S /\ \A u \in S : Earliest(S) <= u
BY Least DEF Earliest

\* There is an event within a day, and a time of the schedule within the weeks.
LEMMA NextEvent ==
  ASSUME now \in 0..MaxTime
  PROVE  Events \cap (now + 1)..(now + Day) # {}
<1>1. /\ Day \in Nat /\ Day > 0 /\ SunAt \in Nat /\ SunAt < Day /\ now \in Nat
      /\ now <= MaxTime /\ MaxTime \in Nat
  BY ScheduleAssumption
<1> DEFINE Late == {d \in Nat : d * Day + SunAt > now}
<1>2. MaxTime \div Day + 1 \in Late
  BY <1>1, WeekIs
<1>3. PICK d \in Late : \A u \in Late : d <= u
  BY <1>2, Least
<1>4. d \in Nat /\ d <= MaxTime \div Day + 1 /\ d * Day + SunAt > now /\ d * Day \in Nat
  BY <1>1, <1>2, <1>3
<1>5. d \in Week
  BY <1>4, WeekIs
<1>6. d * Day + SunAt <= now + Day
  <2>1. CASE d = 0
    BY <1>1, <2>1
  <2>2. CASE d # 0
    <3>1. PICK c \in Nat : d = c + 1
      <4>1. d - 1 \in Nat /\ d = (d - 1) + 1
        BY <1>4, <2>2
      <4> QED BY <4>1
    <3>2. c \notin Late
      BY <1>3, <3>1
    <3>3. c * Day + SunAt <= now /\ c * Day \in Nat
      BY <1>1, <3>2
    <3>4. d * Day = c * Day + Day
      BY <1>1, <3>1
    <3> QED BY <1>1, <3>3, <3>4
  <2> QED BY <2>1, <2>2
<1>7. d * Day + SunAt \in Events
  BY <1>5 DEF Events
<1>8. d * Day + SunAt \in (now + 1)..(now + Day)
  BY <1>1, <1>4, <1>6
<1> QED BY <1>7, <1>8

\* Today began before now, and does not go back.
LEMMA TodayIs ==
  ASSUME now \in 0..MaxTime
  PROVE  /\ Today \in Nat /\ Today <= now
         /\ now' = now + 1 => Today' \in Nat /\ Today <= Today'
<1>1. Day \in Nat /\ Day > 0 /\ now \in Nat
  BY ScheduleAssumption
<1>2. PICK q \in Nat : q = now \div Day
  <2>1. now \div Day \in Nat
    BY <1>1
  <2> QED BY <2>1
<1>3. q * Day \in Nat /\ q * Day <= now
  BY <1>1, <1>2
<1>4. ASSUME now' = now + 1 PROVE Today' \in Nat /\ Today <= Today'
  <2>1. PICK r \in Nat : r = (now + 1) \div Day
    <3>1. (now + 1) \div Day \in Nat
      BY <1>1
    <3> QED BY <3>1
  <2>2. now + 1 < (r + 1) * Day /\ r * Day \in Nat
    BY <1>1, <2>1
  <2>3. (r + 1) * Day = r * Day + Day
    BY <1>1
  <2>4. r < q => r * Day + Day <= q * Day
    BY DaysApart
  <2>5. q < r => q * Day + Day <= r * Day
    BY DaysApart
  <2>6. q * Day <= r * Day
    BY <1>1, <1>3, <2>2, <2>3, <2>4, <2>5
  <2>7. Today = q * Day /\ Today' = r * Day
    BY <1>2, <1>4, <2>1 DEF Today
  <2> QED BY <2>2, <2>6, <2>7
<1> QED BY <1>2, <1>3, <1>4 DEF Today

LEMMA NextDue ==
  ASSUME now \in 0..MaxTime
  PROVE  /\ ScheduleDue \in ScheduleDues /\ ScheduleDue >= Today /\ ScheduleDue + Grace > now
         /\ \A t \in ScheduleDues : t < ScheduleDue => t + Grace <= now \/ t < Today
<1>1. /\ Day \in Nat /\ Day > 0 /\ TimeOfDay \in Nat /\ Grace \in Nat /\ now \in Nat
      /\ now <= MaxTime /\ MaxTime \in Nat
  BY ScheduleAssumption
<1>2. PICK w \in Nat : w = MaxTime \div Day
  BY WeekIs
<1>3. PICK r \in DaysOn : r \in 0..6
  BY ScheduleAssumption
<1>4. PICK d \in (w + 1)..(w + 7) : d % 7 = r
  <2>1. \E d \in {w + 1, w + 2, w + 3, w + 4, w + 5, w + 6, w + 7} : d % 7 = r
    BY <1>3
  <2> QED BY <2>1
<1>5. d \in Nat /\ d \in Week /\ d % 7 \in DaysOn
  BY <1>2, <1>3, <1>4, WeekIs
<1>6. (w + 1) * Day <= d * Day /\ d * Day \in Nat /\ (w + 1) * Day \in Nat
  <2>1. w + 1 < d \/ w + 1 = d
    BY <1>4
  <2>2. w + 1 < d => (w + 1) * Day + Day <= d * Day
    BY <1>5, DaysApart
  <2>3. d * Day \in Nat /\ (w + 1) * Day \in Nat
    BY <1>1, <1>5
  <2> QED BY <1>1, <2>1, <2>2, <2>3
<1>7. d * Day + TimeOfDay + Grace > now /\ d * Day + TimeOfDay >= Today
  <2>1. MaxTime < (w + 1) * Day
    BY <1>2, WeekIs
  <2>2. Today \in Nat /\ Today <= now
    BY TodayIs
  <2> QED BY <1>1, <1>6, <2>1, <2>2
<1>8. d * Day + TimeOfDay \in ScheduleDues
  BY <1>5 DEF ScheduleDues
<1>9. PICK S \in SUBSET Nat : S = {t \in ScheduleDues : t >= Today /\ t + Grace > now}
  BY DuesApart
<1>10. S # {}
  BY <1>7, <1>8, <1>9
<1>11. ScheduleDue \in S /\ \A u \in S : ScheduleDue <= u
  BY <1>9, <1>10, EarliestIs DEF ScheduleDue
<1>12. \A t \in ScheduleDues : t < ScheduleDue => t + Grace <= now \/ t < Today
  <2>1. ASSUME NEW t \in ScheduleDues, t < ScheduleDue PROVE t + Grace <= now \/ t < Today
    <3>1. t \in Nat /\ ScheduleDue \in Nat
      BY <1>9, <1>11, DuesApart
    <3>2. t \notin S
      BY <1>11, <2>1, <3>1
    <3>3. Today \in Nat
      BY TodayIs
    <3> QED BY <1>1, <1>9, <2>1, <3>1, <3>2, <3>3
  <2> QED BY <2>1
<1> QED BY <1>9, <1>11, <1>12

LEMMA ScheduleTypes ==
  ScheduleTypeOK <=>
    /\ now \in 0..MaxTime /\ up \in BOOLEAN /\ ticked \in BOOLEAN
    /\ active \in Artifacts \cup {0} /\ pending \in [Keys -> PendRow]
    /\ sun \in [next : Int, since : Int]
    /\ inbox \subseteq Keys \X Int /\ learnt \subseteq Keys \X Int
    /\ breaks \in 0..MaxBreaks
BY DEF ScheduleTypeOK, PendRow

LEMMA KeysAre ==
  ASSUME NEW k \in Keys
  PROVE  k[1] \in Artifacts /\ k[2] \in Bindings /\ k = <<k[1], k[2]>>
BY DEF Keys

\* When a trigger is due, and what is remembered of it.
LEMMA DueIs ==
  ASSUME ScheduleTypeOK, SunInv, NEW b \in Bindings
  PROVE  /\ DueOf(b) \in Int
         /\ b = "schedule" => DueOf(b) = ScheduleDue /\ DueOf(b) # Never
         /\ b # "schedule" /\ DueOf(b) # Never =>
               /\ sun # NoSun /\ sun.next \in Events /\ DueOf(b) = sun.next + OffOf(b)
         /\ b # "schedule" /\ sun # NoSun => DueOf(b) # Never
<1>t. now \in 0..MaxTime /\ sun \in [next : Int, since : Int] /\ Offset \in Nat /\ Day \in Nat
  BY ScheduleTypes, ScheduleAssumption
<1>n. Never \in Int /\ Never < 0 - Offset
  BY <1>t DEF Never
<1>1. CASE b = "schedule"
  <2>1. DueOf(b) = ScheduleDue
    BY <1>1 DEF DueOf
  <2>2. ScheduleDue \in ScheduleDues
    BY <1>t, NextDue
  <2>3. ScheduleDue \in Nat
    BY <2>2, DuesApart
  <2> QED BY <1>1, <1>t, <1>n, <2>1, <2>3
<1>2. CASE b # "schedule" /\ sun.next = Never
  <2>1. DueOf(b) = Never
    BY <1>2 DEF DueOf, SunDue
  <2>2. sun = NoSun
    <3>1. sun.next \in Events => sun.next \in Nat
      BY EventsApart
    <3> QED BY <1>2, <1>t, <1>n, <3>1 DEF SunInv
  <2> QED BY <1>2, <1>n, <2>1, <2>2
<1>3. CASE b # "schedule" /\ sun.next # Never
  <2>1. sun # NoSun
    BY <1>3 DEF NoSun
  <2>2. sun.next \in Events
    BY <2>1 DEF SunInv
  <2>3. sun.next \in Nat
    BY <2>2, EventsApart
  <2>4. DueOf(b) = sun.next + OffOf(b)
    BY <1>3, <1>t, <2>3 DEF DueOf, SunDue, OffOf, Bindings
  <2>5. DueOf(b) \in Int /\ DueOf(b) # Never
    BY <1>t, <1>n, <2>3, <2>4 DEF OffOf
  <2> QED BY <1>3, <2>1, <2>2, <2>4, <2>5
<1> QED BY <1>1, <1>2, <1>3

LEMMA ForgottenIs ==
  /\ Forgotten \in PendRow /\ Forgotten.due = Never /\ ~Forgotten.fired
  /\ \A d \in Int : /\ [due |-> d, fired |-> FALSE] \in PendRow
                    /\ [due |-> d, fired |-> FALSE].due = d
                    /\ ~[due |-> d, fired |-> FALSE].fired
                    /\ d # Never => [due |-> d, fired |-> FALSE] # Forgotten
<1>1. Never \in Int
  BY ScheduleAssumption DEF Never
<1> QED BY <1>1 DEF Forgotten, PendRow

LEMMA TickKeeps ==
  ASSUME ScheduleInv, TickTimeTriggers
  PROVE  ScheduleInv'
<1>t. /\ now \in 0..MaxTime /\ pending \in [Keys -> PendRow]
      /\ active \in Artifacts \cup {0} /\ sun \in [next : Int, since : Int]
      /\ inbox \subseteq Keys \X Int /\ learnt \subseteq Keys \X Int /\ breaks \in 0..MaxBreaks
  BY ScheduleTypes DEF ScheduleInv
<1>c. /\ Day \in Nat /\ Grace \in Nat /\ Grace > 0 /\ Offset \in Nat /\ Offset + Grace < Day
      /\ now \in Nat
  BY <1>t, ScheduleAssumption
<1>1. /\ up /\ ~ticked /\ ticked' = TRUE /\ up' = up /\ now' = now /\ active' = active
      /\ sun' = sun /\ breaks' = breaks
  BY DEF TickTimeTriggers
<1>2. PICK item : item = [k \in Keys |-> IF k[1] = active THEN Track(k) ELSE Forgotten]
  OBVIOUS
<1>3. PICK fire \in SUBSET Keys : fire = {k \in Keys : Fires(item[k])}
  OBVIOUS
<1>4. /\ pending' = [k \in Keys |-> IF k \in fire THEN [item[k] EXCEPT !.fired = TRUE] ELSE item[k]]
      /\ inbox' = inbox \cup {<<k, item[k].due>> : k \in fire}
      /\ learnt' = {<<k, DueOf(k[2])>> : k \in {j \in Keys : j[1] = active /\ DueOf(j[2]) # Never}}
                        \cup {x \in learnt : x[1][1] = active}
  BY <1>2, <1>3 DEF TickTimeTriggers
<1>5. \A k \in Keys : DueOf(k[2]) \in Int
  BY DueIs, KeysAre DEF ScheduleInv
<1>6. ASSUME NEW k \in Keys, k[1] = active
      PROVE  \/ /\ item[k] = pending[k]
                /\ \/ pending[k] # Forgotten /\ ~pending[k].fired /\ now < pending[k].due + Grace
                   \/ DueOf(k[2]) = Never \/ DueOf(k[2]) + Grace <= now
                   \/ pending[k].fired /\ pending[k].due = DueOf(k[2])
             \/ /\ item[k] = [due |-> DueOf(k[2]), fired |-> FALSE]
                /\ DueOf(k[2]) # Never /\ ~ (DueOf(k[2]) + Grace <= now)
                /\ ~ (pending[k] # Forgotten /\ ~pending[k].fired /\ now < pending[k].due + Grace)
  BY <1>2, <1>6 DEF Track
<1>7. \A k \in Keys : k[1] # active => item[k] = Forgotten
  BY <1>2
<1>8. \A k \in Keys : item[k] \in PendRow
  BY <1>t, <1>5, <1>6, <1>7, ForgottenIs
<1>9. ASSUME NEW k \in Keys
      PROVE  /\ pending'[k] \in PendRow /\ pending'[k].due = item[k].due
             /\ k \in fire => /\ pending'[k].fired /\ <<k, item[k].due>> \in inbox'
                              /\ item[k] # Forgotten
             /\ k \notin fire => pending'[k] = item[k]
             /\ k \in fire <=> Fires(item[k])
  <2>1. PICK i \in PendRow : i = item[k]
    BY <1>8
  <2>2. PICK p : p = [i EXCEPT !.fired = TRUE]
    OBVIOUS
  <2>3. p \in PendRow /\ p.due = i.due /\ p.fired
    BY <2>2 DEF PendRow
  <2>4. pending'[k] = IF k \in fire THEN p ELSE i
    BY <1>4, <2>1, <2>2
  <2>5. k \in fire => <<k, item[k].due>> \in inbox'
    BY <1>4
  <2>6. k \in fire <=> Fires(item[k])
    BY <1>3
  <2>7. Fires(item[k]) => item[k] # Forgotten
    BY DEF Fires
  <2> QED BY <2>1, <2>3, <2>4, <2>5, <2>6, <2>7
<1>10. \A i \in PendRow : Fires(i) <=> i # Forgotten /\ ~i.fired /\ i.due <= now /\ now < i.due + Grace
  BY DEF Fires
<1>11. inbox \subseteq inbox'
  BY <1>4
<1>12. ScheduleTypeOK'
  <2>1. pending' \in [Keys -> PendRow]
    <3>1. \A k \in Keys : pending'[k] \in PendRow
      BY <1>9
    <3>2. PICK p : p = [k \in Keys |-> IF k \in fire THEN [item[k] EXCEPT !.fired = TRUE] ELSE item[k]]
      OBVIOUS
    <3>3. p = pending'
      BY <1>4, <3>2
    <3> QED BY <3>1, <3>2, <3>3
  <2>2. inbox' \subseteq Keys \X Int
    <3>1. \A k \in Keys : item[k].due \in Int
      BY <1>8 DEF PendRow
    <3> QED BY <1>t, <1>4, <3>1
  <2>3. learnt' \subseteq Keys \X Int
    BY <1>t, <1>4, <1>5
  <2> QED BY <1>t, <1>1, <2>1, <2>2, <2>3 DEF ScheduleTypeOK, PendRow
<1>13. FiredInv'
  <2>1. ASSUME NEW k \in Keys, pending'[k].fired PROVE <<k, pending'[k].due>> \in inbox'
    <3>1. CASE k \in fire
      BY <1>9, <3>1
    <3>2. CASE k \notin fire
      <4>1. item[k].fired /\ pending'[k] = item[k]
        BY <1>9, <2>1, <3>2
      <4>2. k[1] = active
        BY <1>7, <4>1, ForgottenIs
      <4>3. item[k] = pending[k]
        BY <1>5, <1>6, <4>1, <4>2, ForgottenIs
      <4> QED BY <1>11, <4>1, <4>3 DEF ScheduleInv, FiredInv
    <3> QED BY <3>1, <3>2
  <2> QED BY <2>1 DEF FiredInv
<1>14. ASSUME NEW k \in Keys, pending'[k] # Forgotten PROVE item[k] # Forgotten /\ k[1] = active
  BY <1>7, <1>9, <1>14
<1>15. /\ ScheduleDue \in ScheduleDues /\ ScheduleDue >= Today /\ ScheduleDue + Grace > now
       /\ \A t \in ScheduleDues : t < ScheduleDue => t + Grace <= now \/ t < Today
       /\ Today \in Nat /\ Today <= now /\ Today' = Today
  BY <1>t, <1>1, NextDue, TodayIs DEF Today
<1>16. ASSUME NEW k \in Keys, k[2] = "schedule", item[k] # Forgotten
       PROVE  /\ item[k].due \in ScheduleDues
              /\ \A t \in ScheduleDues : t < item[k].due => t + Grace <= now \/ t < Today
              /\ ~item[k].fired => now < item[k].due + Grace
  <2>1. k[1] = active
    BY <1>7, <1>16
  <2>2. CASE item[k] = pending[k]
    <3>1. /\ item[k].due \in ScheduleDues
          /\ \A t \in ScheduleDues : t < item[k].due => t + Grace <= now \/ t < Today
          /\ ~item[k].fired => now <= item[k].due
      BY <1>16, <2>2 DEF ScheduleInv, PlanInv
    <3>2. item[k].due \in Nat
      BY <3>1, DuesApart
    <3> QED BY <1>c, <3>1, <3>2
  <2>3. CASE item[k] # pending[k]
    <3>1. item[k].due = DueOf(k[2])
      BY <1>5, <1>6, <2>1, <2>3, ForgottenIs
    <3>2. item[k].due = ScheduleDue
      BY <1>16, <3>1, DueIs, KeysAre DEF ScheduleInv
    <3>3. ScheduleDue \in Nat
      BY <1>15, DuesApart
    <3> QED BY <1>c, <1>15, <3>2, <3>3
  <2> QED BY <2>2, <2>3
<1>17. PlanInv'
  <2>1. ASSUME NEW k \in Keys, k[2] = "schedule", pending'[k] # Forgotten
        PROVE  /\ pending'[k].due \in ScheduleDues
               /\ \A t \in ScheduleDues : t < pending'[k].due => t + Grace <= now' \/ t < Today'
               /\ ~pending'[k].fired => now' < pending'[k].due
    <3>1. item[k] # Forgotten /\ pending'[k].due = item[k].due
      BY <1>9, <1>14, <2>1
    <3>2. /\ item[k].due \in ScheduleDues
          /\ \A t \in ScheduleDues : t < item[k].due => t + Grace <= now \/ t < Today
          /\ ~item[k].fired => now < item[k].due + Grace
      BY <1>16, <2>1, <3>1
    <3>3. item[k].due \in Nat
      BY <3>2, DuesApart
    <3>4. ASSUME ~pending'[k].fired PROVE now < item[k].due
      <4>1. k \notin fire /\ ~item[k].fired /\ ~Fires(item[k])
        BY <1>9, <3>4
      <4>2. ~ (item[k].due <= now)
        BY <1>8, <1>10, <3>1, <3>2, <4>1
      <4> QED BY <1>c, <3>3, <4>2
    <3> QED BY <1>1, <1>15, <3>1, <3>2, <3>4
  <2>2. ASSUME NEW k \in Keys, k[2] = "schedule", pending'[k] # Forgotten, ~pending'[k].fired
        PROVE  now' <= pending'[k].due
    <3>1. pending'[k].due \in Nat
      BY <2>1, <2>2, DuesApart
    <3> QED BY <1>1, <1>c, <2>1, <2>2, <3>1
  <2> QED BY <2>1, <2>2 DEF PlanInv
<1>18. PlanStarted'
  <2>1. ASSUME active # 0, NEW due \in ScheduleDues, due >= Today, due <= now, now < due + Grace
        PROVE  <<<<active, "schedule">>, due>> \in inbox'
    <3>1. PICK k \in Keys : k = <<active, "schedule">>
      BY <1>t, <2>1 DEF Keys, Bindings
    <3>2. k[1] = active /\ k[2] = "schedule"
      BY <3>1
    <3>3. DueOf(k[2]) = ScheduleDue /\ DueOf(k[2]) # Never
      BY <3>2, DueIs, KeysAre DEF ScheduleInv
    <3>4. ScheduleDue = due
      <4>1. due \in Nat /\ ScheduleDue \in Nat
        BY <1>15, DuesApart
      <4>2. ~ (due < ScheduleDue)
        BY <1>c, <1>15, <2>1, <4>1
      <4>3. ScheduleDue < due => ScheduleDue + Day <= due
        BY <1>15, DuesApart
      <4> QED BY <1>c, <1>15, <2>1, <4>1, <4>2, <4>3
    <3>5. due \in Nat
      BY DuesApart
    <3>6. CASE item[k] = [due |-> DueOf(k[2]), fired |-> FALSE]
      <4>1. item[k] # Forgotten /\ item[k].due = due /\ ~item[k].fired
        BY <1>5, <3>3, <3>4, <3>6, ForgottenIs
      <4>2. k \in fire
        BY <1>8, <1>9, <1>10, <2>1, <4>1
      <4> QED BY <1>9, <3>1, <4>1, <4>2
    <3>7. CASE item[k] = pending[k] /\ pending[k].fired /\ pending[k].due = DueOf(k[2])
      BY <1>11, <3>1, <3>3, <3>4, <3>7 DEF ScheduleInv, FiredInv
    <3>8. CASE /\ item[k] = pending[k]
               /\ pending[k] # Forgotten /\ ~pending[k].fired /\ now < pending[k].due + Grace
      <4>1. /\ pending[k].due \in ScheduleDues
            /\ \A t \in ScheduleDues : t < pending[k].due => t + Grace <= now \/ t < Today
        BY <3>2, <3>8 DEF ScheduleInv, PlanInv
      <4>2. pending[k].due \in Nat /\ pending[k].due < due => pending[k].due + Day <= due
        BY <4>1, DuesApart
      <4>3. ~ (due < pending[k].due)
        BY <1>c, <1>15, <2>1, <3>5, <4>1
      <4>4. pending[k].due \in Nat
        BY <4>1, DuesApart
      <4>5. pending[k].due = due
        BY <1>c, <2>1, <3>5, <3>8, <4>2, <4>3, <4>4
      <4>6. k \in fire
        BY <1>8, <1>9, <1>10, <2>1, <3>8, <4>5
      <4> QED BY <1>9, <3>1, <3>8, <4>5, <4>6
    <3>9. ~ (DueOf(k[2]) + Grace <= now)
      BY <1>c, <2>1, <3>3, <3>4, <3>5
    <3> QED BY <1>6, <3>2, <3>3, <3>6, <3>7, <3>8, <3>9
  <2> QED BY <1>1, <1>15, <2>1 DEF PlanStarted, InTime
<1>19. SunInv'
  <2>1. CASE sun = NoSun
    <3>1. \A k \in Keys : k[2] # "schedule" => pending[k] = Forgotten
      <4>1. NoSun.next \notin Events
        <5>1. NoSun.next = Never /\ Never < 0
          BY <1>c DEF NoSun, Never
        <5>2. NoSun.next \in Events => NoSun.next \in Nat
          BY EventsApart
        <5> QED BY <5>1, <5>2
      <4> QED BY <2>1, <4>1 DEF ScheduleInv, SunInv
    <3>2. \A x \in learnt : x[1][2] = "schedule"
      <4>1. NoSun.next \notin Events
        <5>1. NoSun.next = Never /\ Never < 0
          BY <1>c DEF NoSun, Never
        <5>2. NoSun.next \in Events => NoSun.next \in Nat
          BY EventsApart
        <5> QED BY <5>1, <5>2
      <4> QED BY <2>1, <4>1 DEF ScheduleInv, SunInv
    <3>3. \A k \in Keys : k[2] # "schedule" => DueOf(k[2]) = Never
      BY <2>1, DueIs, KeysAre DEF ScheduleInv
    <3>4. ASSUME NEW k \in Keys, k[2] # "schedule" PROVE pending'[k] = Forgotten
      <4>1. item[k] = Forgotten
        BY <1>6, <1>7, <3>1, <3>3, <3>4
      <4> QED BY <1>9, <4>1
    <3>5. ASSUME NEW x \in learnt' PROVE x[1][2] = "schedule"
      BY <1>4, <3>2, <3>3, <3>5
    <3> QED BY <1>1, <2>1, <3>4, <3>5 DEF SunInv
  <2>2. CASE sun # NoSun
    BY <1>1, <2>2 DEF ScheduleInv, SunInv
  <2> QED BY <2>1, <2>2
<1>20. AwaitedInv'
  <2>1. ASSUME NEW k \in Keys, k[2] # "schedule", pending'[k] # Forgotten
        PROVE  \E e \in Events : e <= sun'.next /\ pending'[k].due = e + OffOf(k[2])
    <3>1. item[k] # Forgotten /\ k[1] = active /\ pending'[k].due = item[k].due
      BY <1>9, <1>14, <2>1
    <3>2. CASE item[k] = pending[k]
      BY <1>1, <2>1, <3>1, <3>2 DEF ScheduleInv, AwaitedInv
    <3>3. CASE item[k] # pending[k]
      <4>1. item[k] = [due |-> DueOf(k[2]), fired |-> FALSE] /\ DueOf(k[2]) # Never
        BY <1>6, <3>1, <3>3
      <4>2. sun.next \in Events /\ DueOf(k[2]) = sun.next + OffOf(k[2])
        BY <2>1, <4>1, DueIs, KeysAre DEF ScheduleInv
      <4>3. sun.next <= sun.next
        BY <1>t
      <4> QED BY <1>1, <1>5, <3>1, <4>1, <4>2, <4>3, ForgottenIs
    <3> QED BY <3>2, <3>3
  <2> QED BY <2>1 DEF AwaitedInv
<1>o. \A b \in Bindings : OffOf(b) \in Int /\ OffOf(b) <= Offset
  BY <1>c DEF OffOf
\* What of a time a tick has made, when the trigger waits for it or starts.
<1>21. ASSUME NEW k \in Keys, k[1] = active, NEW due \in Int, item[k] # Forgotten, item[k].due = due,
              ~item[k].fired, now < due + Grace
       PROVE  <<k, due>> \in inbox' \/ Waiting(k, due)'
  <2>1. CASE due <= now
    <3>1. k \in fire
      BY <1>8, <1>9, <1>10, <1>21, <2>1
    <3> QED BY <1>9, <1>21, <3>1
  <2>2. CASE ~ (due <= now)
    <3>1. k \notin fire
      BY <1>8, <1>9, <1>10, <1>21, <2>2
    <3>2. now < due
      BY <1>c, <2>2
    <3> QED BY <1>1, <1>9, <1>21, <3>1, <3>2 DEF Waiting
  <2> QED BY <2>1, <2>2
<1>22. ASSUME NEW k \in Keys, k[1] = active, k[2] # "schedule", sun # NoSun,
              NEW due \in Int, due = sun.next + OffOf(k[2])
       PROVE  <<k, due>> \in inbox' \/ due + Grace <= now' \/ Waiting(k, due)' \/ Soon(k, due)'
  <2>1. DueOf(k[2]) = due /\ DueOf(k[2]) # Never
    BY <1>22, DueIs, KeysAre DEF ScheduleInv
  <2>2. /\ sun.next \in Events /\ sun.since \in 0..now /\ sun.since < sun.next
        /\ sun.next <= sun.since + Day
    BY <1>22 DEF ScheduleInv, SunInv
  <2>3. CASE item[k] = [due |-> DueOf(k[2]), fired |-> FALSE] /\ ~ (DueOf(k[2]) + Grace <= now)
    <3>1. item[k] # Forgotten /\ item[k].due = due /\ ~item[k].fired
      BY <2>1, <2>3, ForgottenIs
    <3>2. now < due + Grace
      BY <1>c, <2>1, <2>3
    <3> QED BY <1>21, <1>22, <3>1, <3>2
  <2>4. CASE DueOf(k[2]) + Grace <= now
    BY <1>1, <2>1, <2>4
  <2>5. CASE item[k] = pending[k] /\ pending[k].fired /\ pending[k].due = DueOf(k[2])
    BY <1>11, <2>1, <2>5 DEF ScheduleInv, FiredInv
  <2>6. CASE /\ item[k] = pending[k] /\ ~ (DueOf(k[2]) + Grace <= now)
             /\ pending[k] # Forgotten /\ ~pending[k].fired /\ now < pending[k].due + Grace
    <3>1. PICK e \in Events : e <= sun.next /\ pending[k].due = e + OffOf(k[2])
      BY <1>22, <2>6 DEF ScheduleInv, AwaitedInv
    <3>2. e \in Nat /\ sun.next \in Nat
      BY <2>2, EventsApart
    <3>3. OffOf(k[2]) \in Int /\ OffOf(k[2]) <= Offset
      BY <1>o, KeysAre
    <3>4. CASE e = sun.next
      <4>1. pending[k].due = due
        BY <1>22, <3>1, <3>4
      <4> QED BY <1>21, <1>22, <2>6, <4>1
    <3>5. CASE e # sun.next
      <4>1. e < sun.next
        BY <3>1, <3>2, <3>5
      <4>2. sun.next - Day <= now
        BY <1>c, <2>2, <3>2
      <4>3. sun.next < e + 2 * Day
        BY <1>c, <2>6, <3>1, <3>2, <3>3, <4>2
      <4>4. sun.next = e + Day
        BY <2>2, <4>1, <4>3, EventsApart
      <4>5. pending[k].due = due - Day
        BY <1>c, <1>22, <3>1, <3>2, <3>3, <4>4
      <4>6. CASE pending[k].due <= now
        <5>1. k \in fire
          BY <1>8, <1>9, <1>10, <2>6, <4>6
        <5>2. pending'[k].fired /\ pending'[k].due = due - Day
          BY <1>9, <2>6, <4>5, <5>1
        <5>3. pending'[k] # Forgotten
          BY <5>2, ForgottenIs
        <5>4. now < due - Day + Grace
          BY <2>6, <4>5
        <5>5. now <= due - Day + Grace
          BY <1>c, <5>4
        <5> QED BY <1>1, <1>22, <5>2, <5>3, <5>4, <5>5 DEF Soon
      <4>7. CASE ~ (pending[k].due <= now)
        <5>1. k \notin fire
          BY <1>8, <1>9, <1>10, <2>6, <4>7
        <5>2. pending'[k] = pending[k]
          BY <1>9, <2>6, <5>1
        <5>3. now < due - Day /\ now <= due - Day
          BY <1>c, <4>5, <4>7
        <5> QED BY <1>1, <1>22, <2>6, <4>5, <5>2, <5>3 DEF Soon
      <4> QED BY <4>6, <4>7
    <3> QED BY <3>4, <3>5
  <2> QED BY <1>6, <1>22, <2>1, <2>3, <2>4, <2>5, <2>6
<1>23. ASSUME NEW x \in learnt, x[1][1] = active
       PROVE  x \in inbox' \/ x[2] + Grace <= now' \/ Waiting(x[1], x[2])' \/ Soon(x[1], x[2])'
  <2>1. PICK k \in Keys, due \in Int : x = <<k, due>>
    BY <1>t
  <2>2. k[1] = active
    BY <1>23, <2>1
  <2>3. <<k, due>> \in inbox \/ due + Grace <= now \/ Waiting(k, due) \/ Soon(k, due)
    BY <1>23, <2>1 DEF ScheduleInv, LearntInv
  <2>4. CASE <<k, due>> \in inbox
    BY <1>11, <2>1, <2>4
  <2>5. CASE due + Grace <= now
    BY <1>1, <2>1, <2>5
  <2>6. CASE Waiting(k, due) /\ ~ (due + Grace <= now)
    <3>1. /\ pending[k].due = due /\ ~pending[k].fired /\ now < due + Grace
      BY <1>c, <2>6 DEF Waiting
    <3>2. item[k] # Forgotten /\ item[k].due = due /\ ~item[k].fired
      <4>1. pending[k] # Forgotten
        BY <2>6 DEF Waiting
      <4> QED BY <1>6, <2>2, <3>1, <4>1
    <3> QED BY <1>21, <2>1, <2>2, <3>1, <3>2
  <2>7. CASE Soon(k, due)
    <3>1. k[2] # "schedule" /\ due = sun.next + OffOf(k[2])
      BY <2>7 DEF Soon
    <3>2. NoSun.next \notin Events
      <4>1. NoSun.next = Never /\ Never < 0
        BY <1>c DEF NoSun, Never
      <4>2. NoSun.next \in Events => NoSun.next \in Nat
        BY EventsApart
      <4> QED BY <4>1, <4>2
    <3>3. sun # NoSun
      BY <1>23, <2>1, <3>1, <3>2 DEF ScheduleInv, SunInv
    <3> QED BY <1>22, <2>1, <2>2, <3>1, <3>3
  <2> QED BY <2>3, <2>4, <2>5, <2>6, <2>7
\* A schedule's time that is found waits, starts, or was started before.
<1>24. ASSUME NEW k \in Keys, k[1] = active, k[2] = "schedule", NEW due \in Int, due = ScheduleDue
       PROVE  <<k, due>> \in inbox' \/ Waiting(k, due)'
  <2>1. DueOf(k[2]) = due /\ DueOf(k[2]) # Never
    BY <1>24, DueIs, KeysAre DEF ScheduleInv
  <2>2. due \in Nat /\ due >= Today /\ now < due + Grace /\ due \in ScheduleDues
    BY <1>c, <1>15, <1>24, DuesApart
  <2>3. CASE item[k] = [due |-> DueOf(k[2]), fired |-> FALSE]
    <3>1. item[k] # Forgotten /\ item[k].due = due /\ ~item[k].fired
      BY <2>1, <2>3, ForgottenIs
    <3> QED BY <1>21, <1>24, <2>2, <3>1
  <2>4. CASE pending[k].fired /\ pending[k].due = DueOf(k[2])
    BY <1>11, <2>1, <2>4 DEF ScheduleInv, FiredInv
  <2>5. CASE /\ item[k] = pending[k]
             /\ pending[k] # Forgotten /\ ~pending[k].fired /\ now < pending[k].due + Grace
    <3>1. /\ pending[k].due \in ScheduleDues /\ now <= pending[k].due
          /\ \A t \in ScheduleDues : t < pending[k].due => t + Grace <= now \/ t < Today
      BY <1>24, <2>5 DEF ScheduleInv, PlanInv
    <3>2. pending[k].due \in Nat
      BY <3>1, DuesApart
    <3>3. ~ (due < pending[k].due)
      BY <1>c, <1>15, <2>2, <3>1
    <3>4. ~ (pending[k].due < due)
      BY <1>c, <1>15, <1>24, <2>5, <3>1, <3>2
    <3>5. pending[k].due = due
      BY <2>2, <3>2, <3>3, <3>4
    <3> QED BY <1>21, <1>24, <2>2, <2>5, <3>5
  <2>6. ~ (DueOf(k[2]) + Grace <= now)
    BY <1>c, <2>1, <2>2
  <2> QED BY <1>6, <1>24, <2>1, <2>3, <2>4, <2>5, <2>6
<1>25. LearntInv'
  <2>1. ASSUME NEW x \in learnt', x \notin learnt \/ x[1][1] # active
        PROVE  x \in inbox' \/ x[2] + Grace <= now' \/ Waiting(x[1], x[2])' \/ Soon(x[1], x[2])'
    <3>1. PICK k \in Keys : k[1] = active /\ DueOf(k[2]) # Never /\ x = <<k, DueOf(k[2])>>
      BY <1>4, <2>1
    <3>2. PICK due \in Int : due = DueOf(k[2])
      BY <1>5
    <3>3. CASE k[2] = "schedule"
      <4>1. due = ScheduleDue
        BY <3>2, <3>3, DueIs, KeysAre DEF ScheduleInv
      <4> QED BY <1>24, <3>1, <3>2, <3>3, <4>1
    <3>4. CASE k[2] # "schedule"
      <4>1. sun # NoSun /\ DueOf(k[2]) = sun.next + OffOf(k[2])
        BY <3>1, <3>4, DueIs, KeysAre DEF ScheduleInv
      <4> QED BY <1>22, <3>1, <3>2, <3>4, <4>1
    <3> QED BY <3>3, <3>4
  <2>2. \A x \in learnt' : x \in learnt /\ x[1][1] = active =>
           x \in inbox' \/ x[2] + Grace <= now' \/ Waiting(x[1], x[2])' \/ Soon(x[1], x[2])'
    BY <1>23
  <2> QED BY <2>1, <2>2 DEF LearntInv
<1>26. DownInv'
  BY <1>1 DEF DownInv
<1> QED BY <1>12, <1>13, <1>17, <1>18, <1>19, <1>20, <1>25, <1>26 DEF ScheduleInv

LEMMA ScheduleStarts == ScheduleInit => ScheduleInv
<1> SUFFICES ASSUME ScheduleInit PROVE ScheduleInv
  OBVIOUS
<1>1. /\ now = 0 /\ up = TRUE /\ ticked = FALSE /\ active = 1 /\ sun = NoSun /\ inbox = {}
      /\ learnt = {} /\ breaks = 0 /\ pending = [k \in Keys |-> Forgotten]
  BY DEF ScheduleInit
<1>2. \A k \in Keys : pending[k] = Forgotten
  BY <1>1
<1>3. ScheduleTypeOK
  <2>1. pending \in [Keys -> PendRow]
    BY <1>1, ForgottenIs
  <2>2. sun \in [next : Int, since : Int]
    BY <1>1, ScheduleAssumption DEF NoSun, Never
  <2>3. now \in 0..MaxTime /\ breaks \in 0..MaxBreaks
    BY <1>1, ScheduleAssumption
  <2>4. active \in Artifacts \cup {0}
    BY <1>1, ScheduleAssumption
  <2> QED BY <1>1, <2>1, <2>2, <2>3, <2>4, ScheduleTypes
<1>4. FiredInv /\ PlanInv /\ AwaitedInv
  BY <1>2, ForgottenIs DEF FiredInv, PlanInv, AwaitedInv
<1>5. PlanStarted /\ SunInv /\ LearntInv /\ DownInv
  BY <1>1, <1>2 DEF PlanStarted, SunInv, LearntInv, DownInv
<1> QED BY <1>3, <1>4, <1>5 DEF ScheduleInv

\* What is waited for stands while the clock, the sun and what is remembered do.
LEMMA ScheduleKept ==
  ASSUME ScheduleInv, [ScheduleNext]_scheduleVars
  PROVE  ScheduleInv'
<1>t. /\ now \in 0..MaxTime /\ pending \in [Keys -> PendRow] /\ up \in BOOLEAN
      /\ ticked \in BOOLEAN
      /\ active \in Artifacts \cup {0} /\ sun \in [next : Int, since : Int]
      /\ inbox \subseteq Keys \X Int /\ learnt \subseteq Keys \X Int /\ breaks \in 0..MaxBreaks
  BY ScheduleTypes DEF ScheduleInv
<1>c. /\ Day \in Nat /\ Grace \in Nat /\ Grace > 0 /\ Offset \in Nat /\ Offset + Grace < Day
      /\ now \in Nat /\ MaxTime \in Nat /\ MaxBreaks \in Nat
  BY <1>t, ScheduleAssumption
<1>o. \A b \in Bindings : OffOf(b) \in Int /\ OffOf(b) <= Offset
  BY <1>c DEF OffOf
<1>n. NoSun.next \notin Events
  <2>1. NoSun.next = Never /\ Never < 0
    BY <1>c DEF NoSun, Never
  <2>2. NoSun.next \in Events => NoSun.next \in Nat
    BY EventsApart
  <2> QED BY <2>1, <2>2
<1>x. \A x \in learnt : x[1] \in Keys /\ x[2] \in Int
  BY <1>t
<1>p. \A k \in Keys : pending[k].due \in Int
  BY <1>t DEF PendRow
<1>1. CASE UNCHANGED scheduleVars
  BY <1>1 DEF scheduleVars, ScheduleInv, ScheduleTypeOK, FiredInv, PlanInv, PlanStarted, SunInv,
              AwaitedInv, LearntInv, DownInv, Waiting, Soon, InTime, Today
<1>2. CASE TickTimeTriggers
  BY <1>2, TickKeeps
<1>3. CASE RefreshSun
  <2>1. /\ up /\ UNCHANGED <<now, up, ticked, active, pending, inbox, learnt, breaks>>
        /\ sun' = [next |-> Earliest({d * Day + SunAt : d \in Week} \cap (now + 1)..(now + Day)),
                   since |-> now]
    BY <1>3 DEF RefreshSun
  <2>2. PICK S \in SUBSET Nat : S = Events \cap (now + 1)..(now + Day)
    BY EventsApart
  <2>3. PICK next \in S : next = Earliest(S) /\ \A u \in S : next <= u
    BY <1>t, <2>2, NextEvent, EarliestIs
  <2>4. /\ sun' = [next |-> next, since |-> now] /\ sun'.next = next /\ sun'.since = now
        /\ next \in Events /\ next \in Nat /\ now < next /\ next <= now + Day
    <3>1. next \in Events /\ next \in Nat /\ next \in (now + 1)..(now + Day)
      BY <2>2, <2>3
    <3> QED BY <1>c, <2>1, <2>2, <2>3, <3>1 DEF Events
  <2>5. ScheduleTypeOK'
    BY <1>t, <2>1, <2>4 DEF ScheduleTypeOK, PendRow
  <2>6. FiredInv' /\ PlanInv' /\ PlanStarted' /\ DownInv'
    BY <2>1 DEF ScheduleInv, FiredInv, PlanInv, PlanStarted, DownInv, InTime, Today
  <2>7. SunInv'
    BY <1>c, <2>1, <2>4 DEF SunInv
  <2>8. CASE sun = NoSun
    <3>1. /\ \A k \in Keys : k[2] # "schedule" => pending[k] = Forgotten
          /\ \A x \in learnt : x[1][2] = "schedule"
      BY <1>n, <2>8 DEF ScheduleInv, SunInv
    <3>2. AwaitedInv'
      BY <2>1, <3>1 DEF AwaitedInv
    <3>3. LearntInv'
      BY <2>1, <3>1 DEF ScheduleInv, LearntInv, Waiting, Soon
    <3> QED BY <2>5, <2>6, <2>7, <3>2, <3>3 DEF ScheduleInv
  <2>9. CASE sun # NoSun
    <3>1. /\ sun.next \in Events /\ sun.since \in 0..now /\ sun.since < sun.next
          /\ sun.next <= sun.since + Day
      BY <2>9 DEF ScheduleInv, SunInv
    <3>2. sun.next \in Nat
      BY <3>1, EventsApart
    <3>3. sun.next <= next
      <4>1. next < sun.next => next + Day <= sun.next
        BY <2>4, <3>1, EventsApart
      <4> QED BY <1>c, <2>4, <3>1, <3>2, <4>1
    <3>4. now < sun.next => sun.next = next
      <4>1. SUFFICES ASSUME now < sun.next PROVE sun.next = next
        OBVIOUS
      <4>2. sun.next \in (now + 1)..(now + Day)
        BY <1>c, <3>1, <3>2, <4>1
      <4>3. next <= sun.next
        BY <2>2, <2>3, <3>1, <4>2
      <4> QED BY <2>4, <3>2, <3>3, <4>3
    <3>5. AwaitedInv'
      <4>1. ASSUME NEW k \in Keys, k[2] # "schedule", pending[k] # Forgotten
            PROVE  \E e \in Events : e <= next /\ pending[k].due = e + OffOf(k[2])
        <5>1. PICK e \in Events : e <= sun.next /\ pending[k].due = e + OffOf(k[2])
          BY <4>1 DEF ScheduleInv, AwaitedInv
        <5>2. e \in Nat
          BY <5>1, EventsApart
        <5>3. e <= next
          BY <2>4, <3>2, <3>3, <5>1, <5>2
        <5> QED BY <5>1, <5>3
      <4> QED BY <2>1, <2>4, <4>1 DEF AwaitedInv
    <3>6. ASSUME NEW k \in Keys, NEW due \in Int, Soon(k, due) PROVE Soon(k, due)'
      <4>1. /\ due = sun.next + OffOf(k[2]) /\ now <= due - Day + Grace /\ k[2] # "schedule"
        BY <1>c, <3>6 DEF Soon
      <4>2. OffOf(k[2]) \in Int /\ OffOf(k[2]) <= Offset
        BY <1>o, KeysAre
      <4>3. now < sun.next
        BY <1>c, <3>2, <4>1, <4>2
      <4> QED BY <2>1, <2>4, <3>4, <3>6, <4>3 DEF Soon
    <3>7. LearntInv'
      <4>1. \A k \in Keys, due \in Int : Waiting(k, due) => Waiting(k, due)'
        BY <2>1 DEF Waiting
      <4> QED BY <1>x, <2>1, <3>6, <4>1 DEF ScheduleInv, LearntInv
    <3> QED BY <2>5, <2>6, <2>7, <3>5, <3>7 DEF ScheduleInv
  <2> QED BY <2>8, <2>9
<1>4. CASE TimePasses
  <2>1. /\ now < MaxTime /\ (up => ticked) /\ now' = now + 1 /\ ticked' = FALSE
        /\ UNCHANGED <<up, active, pending, sun, inbox, learnt, breaks>>
    BY <1>4 DEF TimePasses
  <2>2. ScheduleTypeOK'
    <3>1. now' \in 0..MaxTime
      BY <1>t, <1>c, <2>1
    <3> QED BY <1>t, <2>1, <3>1 DEF ScheduleTypeOK, PendRow
  <2>3. FiredInv' /\ PlanStarted' /\ AwaitedInv' /\ DownInv'
    BY <2>1 DEF ScheduleInv, FiredInv, PlanStarted, AwaitedInv, DownInv
  <2>4. PlanInv'
    <3>1. \A t \in ScheduleDues : t \in Nat
      BY DuesApart
    <3>2. Today \in Nat /\ Today' \in Nat /\ Today <= Today'
      BY <1>t, <2>1, TodayIs
    <3>3. \A t \in ScheduleDues : t + Grace <= now \/ t < Today => t + Grace <= now' \/ t < Today'
      BY <1>c, <2>1, <3>1, <3>2
    <3> SUFFICES ASSUME NEW k \in Keys, k[2] = "schedule", pending[k] # Forgotten
                 PROVE  /\ pending[k].due \in ScheduleDues
                        /\ \A t \in ScheduleDues : t < pending[k].due => t + Grace <= now' \/ t < Today'
                        /\ ~pending[k].fired => now' <= pending[k].due
      BY <2>1 DEF PlanInv
    <3>4. /\ pending[k].due \in ScheduleDues
          /\ \A t \in ScheduleDues : t < pending[k].due => t + Grace <= now \/ t < Today
          /\ ~pending[k].fired /\ ticked => now < pending[k].due
      BY DEF ScheduleInv, PlanInv
    <3>5. ticked
      <4>1. ~up => pending[k] = Forgotten
        BY DEF ScheduleInv, DownInv
      <4> QED BY <1>t, <2>1, <4>1
    <3>6. ~pending[k].fired => now' <= pending[k].due
      BY <1>c, <2>1, <3>1, <3>4, <3>5
    <3> QED BY <3>3, <3>4, <3>6
  <2>5. SunInv'
    BY <1>c, <2>1 DEF ScheduleInv, SunInv
  <2>6. ASSUME NEW x \in learnt
        PROVE  x \in inbox \/ x[2] + Grace <= now' \/ Waiting(x[1], x[2])' \/ Soon(x[1], x[2])'
    <3>1. PICK k \in Keys, due \in Int : k = x[1] /\ due = x[2]
      BY <1>x
    <3>2. ticked
      BY <1>t, <2>1, <2>6 DEF ScheduleInv, DownInv
    <3>3. x \in inbox \/ due + Grace <= now \/ Waiting(k, due) \/ Soon(k, due)
      BY <2>6, <3>1 DEF ScheduleInv, LearntInv
    <3>4. due + Grace <= now => due + Grace <= now'
      BY <1>c, <2>1
    <3>5. Waiting(k, due) => Waiting(k, due)'
      BY <2>1 DEF Waiting
    <3>6. ASSUME Soon(k, due) PROVE Soon(k, due)'
      <4>1. CASE pending[k].fired
        <5>1. now < due - Day + Grace
          BY <3>2, <3>6, <4>1 DEF Soon
        <5>2. now' <= due - Day + Grace
          BY <1>c, <2>1, <5>1
        <5> QED BY <2>1, <3>6, <4>1, <5>2 DEF Soon
      <4>2. CASE ~pending[k].fired
        <5>1. now < due - Day
          BY <3>2, <3>6, <4>2 DEF Soon
        <5>2. now' <= due - Day
          BY <1>c, <2>1, <5>1
        <5> QED BY <2>1, <3>6, <4>2, <5>2 DEF Soon
      <4> QED BY <4>1, <4>2
    <3> QED BY <3>1, <3>3, <3>4, <3>5, <3>6
  <2>7. LearntInv'
    BY <2>1, <2>6 DEF ScheduleInv, LearntInv
  <2> QED BY <2>2, <2>3, <2>4, <2>5, <2>7 DEF ScheduleInv
<1>5. CASE StopsRuntime
  <2>1. /\ up' = FALSE /\ breaks < MaxBreaks /\ breaks' = breaks + 1
        /\ pending' = [k \in Keys |-> Forgotten]
        /\ sun' = NoSun /\ learnt' = {} /\ UNCHANGED <<now, ticked, active, inbox>>
    BY <1>5 DEF StopsRuntime
  <2>2. \A k \in Keys : pending'[k] = Forgotten
    BY <2>1
  <2>3. ScheduleTypeOK'
    <3>1. pending' \in [Keys -> PendRow]
      BY <2>1, ForgottenIs
    <3>2. sun' \in [next : Int, since : Int]
      BY <1>c, <2>1 DEF NoSun, Never
    <3>3. breaks' \in 0..MaxBreaks
      BY <1>t, <1>c, <2>1
    <3> QED BY <1>t, <2>1, <3>1, <3>2, <3>3 DEF ScheduleTypeOK, PendRow
  <2>4. FiredInv' /\ PlanInv' /\ AwaitedInv'
    BY <2>2, ForgottenIs DEF FiredInv, PlanInv, AwaitedInv
  <2>5. PlanStarted' /\ SunInv' /\ LearntInv' /\ DownInv'
    BY <2>1, <2>2 DEF PlanStarted, SunInv, LearntInv, DownInv
  <2> QED BY <2>3, <2>4, <2>5 DEF ScheduleInv
<1>6. CASE StartsRuntime
  <2>1. /\ ~up /\ up' = TRUE /\ ticked' = FALSE
        /\ UNCHANGED <<now, active, pending, sun, inbox, learnt, breaks>>
    BY <1>6 DEF StartsRuntime
  <2>2. learnt = {}
    BY <2>1 DEF ScheduleInv, DownInv
  <2>3. ScheduleTypeOK'
    BY <1>t, <2>1 DEF ScheduleTypeOK, PendRow
  <2> QED BY <2>1, <2>2, <2>3 DEF ScheduleInv, FiredInv, PlanInv, PlanStarted, SunInv, AwaitedInv,
                                  LearntInv, DownInv, Today
<1>7. ASSUME NEW a \in Artifacts \cup {0}, Deploys(a) PROVE ScheduleInv'
  <2>1. /\ up /\ breaks < MaxBreaks /\ breaks' = breaks + 1 /\ active' = a /\ ticked' = FALSE
        /\ UNCHANGED <<now, up, pending, sun, inbox, learnt>>
    BY <1>7 DEF Deploys
  <2>2. ScheduleTypeOK'
    <3>1. breaks' \in 0..MaxBreaks
      BY <1>t, <1>c, <2>1
    <3> QED BY <1>t, <2>1, <3>1 DEF ScheduleTypeOK, PendRow
  <2>3. \A k \in Keys, due \in Int : Waiting(k, due) => Waiting(k, due)'
    BY <2>1 DEF Waiting
  <2>4. \A k \in Keys, due \in Int : Soon(k, due) => Soon(k, due)'
    BY <2>1 DEF Soon
  <2>5. LearntInv'
    BY <1>x, <2>1, <2>3, <2>4 DEF ScheduleInv, LearntInv
  <2> QED BY <2>1, <2>2, <2>5 DEF ScheduleInv, FiredInv, PlanInv, PlanStarted, SunInv, AwaitedInv,
                                  DownInv, Today
<1> QED BY <1>1, <1>2, <1>3, <1>4, <1>5, <1>6, <1>7 DEF ScheduleNext

LEMMA ScheduleSound == ASSUME ScheduleInv PROVE DueIsStarted /\ ScheduleTypeOK
<1>1. ASSUME up, ticked, active # 0, NEW x \in learnt, x[1][1] = active, InTime(x[2])
      PROVE  x \in inbox
  <2>t. learnt \subseteq Keys \X Int /\ now \in 0..MaxTime
    BY ScheduleTypes DEF ScheduleInv
  <2>1. PICK k \in Keys, due \in Int : x = <<k, due>>
    BY <2>t
  <2>2. k[1] = active /\ due <= now /\ now < due + Grace
    BY <1>1, <2>1 DEF InTime
  <2>c. /\ Day \in Nat /\ Grace \in Nat /\ Offset \in Nat /\ Offset + Grace < Day /\ now \in Nat
    BY <2>t, ScheduleAssumption
  <2>3. x \in inbox \/ due + Grace <= now \/ Waiting(k, due) \/ Soon(k, due)
    BY <2>1 DEF ScheduleInv, LearntInv
  <2>4. ~ (due + Grace <= now)
    BY <2>c, <2>2
  <2>5. ~Waiting(k, due)
    BY <1>1, <2>c, <2>2 DEF Waiting
  <2>6. ~Soon(k, due)
    <3>1. SUFFICES ASSUME Soon(k, due) PROVE FALSE
      OBVIOUS
    <3>2. now <= due - Day + Grace
      BY <2>c, <3>1 DEF Soon
    <3> QED BY <2>c, <2>2, <3>2
  <2> QED BY <2>3, <2>4, <2>5, <2>6
<1> QED BY <1>1 DEF ScheduleInv, PlanStarted, DueIsStarted

-----------------------------------------------------------------------------
(***************************************************************************)
(* Drawing. A drawing has one node for an id, its edges and bindings lead  *)
(* from nodes that are there, and one edge comes in at a place: every way  *)
(* to draw keeps it so, with what was bound to a node that is removed and  *)
(* with the names of a join.                                               *)
(***************************************************************************)
InputNames == JoinNames \cup FieldNames \cup {"left"}
Inputs == UNION {[names -> DrawnBindings] : names \in SUBSET InputNames}
NodeRow == [id : Ids, inputs : Inputs, names : NameLists \cup {<< >>}]
Drawings == [entry : Ids, nodes : Seq(NodeRow), edges : SUBSET Edges]

\* One node for an id, within the bound; a join has names.
NodesFit(d) ==
    /\ Len(d.nodes) <= MaxNodes
    /\ \A i, j \in DOMAIN d.nodes : d.nodes[i].id = d.nodes[j].id => i = j
    /\ \A i \in DOMAIN d.nodes : IsJoin(d.nodes[i].id[1]) => d.nodes[i].names \in NameLists

\* Edges and bindings lead from nodes that are there.
Joins(d) == \A e \in d.edges : e.source \in NodesOf(d) /\ e.target \in NodesOf(d)
TakesFrom(inputs, ids) ==
    \A name \in DOMAIN inputs :
        inputs[name] = Literal \/ inputs[name].node \in ids \cup {<<"input", 1>>, <<"mean", 1>>}
Reads(d) == \A i \in DOMAIN d.nodes : TakesFrom(d.nodes[i].inputs, NodesOf(d))

\* What comes in at a place comes alone; a line is drawn once, to a port that is there.
OneComesIn(d) == \A e, f \in d.edges : SameInbound(f, e.target, e.at) => e = f
LinesDiffer(d) ==
    \A e, f \in d.edges :
        /\ e.source = f.source /\ e.port = f.port /\ e.target = f.target /\ e.n = f.n
        => e = f
PortsAreNamed(d) ==
    \A e \in d.edges : IsJoin(e.target[1]) => e.at \in ToSet(NodeOf(d, e.target).names)

Drawn(d) ==
    /\ d \in Drawings /\ NodesFit(d)
    /\ Joins(d) /\ Reads(d)
    /\ OneComesIn(d) /\ LinesDiffer(d) /\ PortsAreNamed(d)

DrawingInv == Drawn(drawing) /\ edits \in 0..MaxEdits

-----------------------------------------------------------------------------
(***************************************************************************)
(* Drawing: functions that are computed step by step. What is reached from *)
(* a node, what is left of a sequence and what is available at a node are  *)
(* such functions, so that the proofs go by the number of the step.        *)
(***************************************************************************)
\* What holds at 0, and with every number at the next, holds up to n.
LEMMA UpTo ==
  ASSUME NEW n \in Nat, NEW G, 0 \in G, \A k \in 1..n : k - 1 \in G => k \in G
  PROVE  \A k \in 0..n : k \in G
<1> DEFINE Bad == {k \in 0..n : k \notin G}
<1>1. SUFFICES ASSUME Bad # {} PROVE FALSE
  OBVIOUS
<1>2. Bad \in SUBSET Nat
  OBVIOUS
<1>3. PICK k \in Bad : \A j \in Bad : k <= j
  <2> HIDE DEF Bad
  <2> QED BY <1>1, <1>2, Least
<1>4. k \in 1..n /\ k - 1 \in 0..n /\ k \notin G /\ ~ (k <= k - 1)
  OBVIOUS
<1>5. k - 1 \notin Bad
  <2> HIDE DEF Bad
  <2> QED BY <1>3, <1>4
<1> QED BY <1>4, <1>5

\* A function that is computed step by step, from b and with g.
Hops(S, b, g, n) ==
    \E f \in [0..n -> S] : f[0] = b /\ \A k \in 1..n : f[k] = g[k][f[k - 1]]

LEMMA HopsExist ==
  ASSUME NEW S, NEW b \in S, NEW n \in Nat, NEW g \in [1..n -> [S -> S]]
  PROVE  Hops(S, b, g, n)
<1> DEFINE Runs(f, j) == f[0] = b /\ \A k \in 1..j : f[k] = g[k][f[k - 1]]
           Bad == {j \in 0..n : ~ \E f \in [0..n -> S] : Runs(f, j)}
<1>1. SUFFICES ASSUME Bad # {} PROVE FALSE
  <2>1. n \in 0..n
    OBVIOUS
  <2> QED BY <2>1 DEF Hops
<1>2. PICK j \in Bad : \A i \in Bad : j <= i
  <2>1. Bad \in SUBSET Nat
    OBVIOUS
  <2> HIDE DEF Bad
  <2> QED BY <2>1, <1>1, Least
<1>5. j \in 0..n /\ ~ \E f \in [0..n -> S] : Runs(f, j)
  OBVIOUS
<1>6. \A i \in 0..n : i < j => \E f \in [0..n -> S] : Runs(f, i)
  <2>1. ASSUME NEW i \in 0..n, i < j PROVE i \notin Bad
    <3> HIDE DEF Bad
    <3> QED BY <2>1, <1>2, <1>5
  <2> QED BY <2>1
<1> HIDE DEF Bad
<1>3. CASE j = 0
  <2>1. [k \in 0..n |-> b] \in [0..n -> S] /\ Runs([k \in 0..n |-> b], j)
    BY <1>3
  <2> QED BY <2>1, <1>5
<1>4. CASE j # 0
  <2>1. j - 1 \in 0..n /\ j - 1 < j /\ j \in 1..n
    BY <1>4, <1>5
  <2>2. PICK f \in [0..n -> S] : Runs(f, j - 1)
    BY <2>1, <1>6
  <2>3. g[j] \in [S -> S] /\ f[j - 1] \in S
    BY <2>1
  <2> DEFINE h == [k \in 0..n |-> IF k = j THEN g[j][f[j - 1]] ELSE f[k]]
  <2>4. h \in [0..n -> S]
    BY <2>3
  <2>5. h[0] = b /\ h[j] = g[j][f[j - 1]] /\ \A k \in 0..(j - 1) : h[k] = f[k]
    BY <2>1, <2>2
  <2>6. ASSUME NEW k \in 1..j PROVE h[k] = g[k][h[k - 1]]
    <3>1. k - 1 \in 0..(j - 1)
      BY <2>1
    <3>2. h[k - 1] = f[k - 1]
      BY <3>1, <2>5
    <3>3. CASE k = j
      BY <3>2, <3>3, <2>5
    <3>4. CASE k # j
      <4>1. k \in 1..(j - 1) /\ k \in 0..(j - 1)
        BY <3>4, <2>1
      <4>2. f[k] = g[k][f[k - 1]]
        BY <4>1, <2>2
      <4>3. h[k] = f[k]
        <5> HIDE DEF h
        <5> QED BY <4>1, <2>5
      <4> HIDE DEF h
      <4> QED BY <4>2, <4>3, <3>2
    <3> QED BY <3>3, <3>4
  <2>7. Runs(h, j)
    BY <2>5, <2>6
  <2> HIDE DEF h
  <2> QED BY <2>4, <2>7, <1>5
<1> QED BY <1>3, <1>4

\* f runs through the nodes that paths of up to k edges lead to.
Farther(d, S) == S \cup {p[2] : p \in EdgesBetween(d, S)}
Far(f, d, S) ==
    f = [k \in 0..Len(d.nodes) |-> IF k = 0 THEN S ELSE f[k - 1] \cup {p[2] : p \in EdgesBetween(d, f[k - 1])}]

Follows(d, S) == \A e \in d.edges : e.source \in S => e.target \in S

LEMMA ReachedFar ==
  ASSUME NEW d, NEW S
  PROVE  Reached(d, S) = (CHOOSE f : Far(f, d, S))[Len(d.nodes)]
BY DEF Reached, Far

LEMMA FartherIs ==
  ASSUME NEW d, NEW S
  PROVE  \A x : x \in Farther(d, S) <=> x \in S \/ \E e \in d.edges : e.source \in S /\ e.target = x
<1> DEFINE P == EdgesBetween(d, S)
<1>1. \A p : p \in P <=> \E e \in d.edges : e.source \in S /\ p = <<e.source, e.target>>
  BY DEF EdgesBetween
<1>2. \A x : x \in Farther(d, S) <=> x \in S \/ \E p \in P : p[2] = x
  BY DEF Farther
<1> HIDE DEF P
<1>3. ASSUME NEW x PROVE (\E p \in P : p[2] = x) <=> \E e \in d.edges : e.source \in S /\ e.target = x
  <2>1. ASSUME NEW e \in d.edges, e.source \in S, e.target = x PROVE \E p \in P : p[2] = x
    <3>1. <<e.source, e.target>> \in P
      BY <1>1, <2>1
    <3> QED BY <3>1, <2>1
  <2>2. ASSUME NEW p \in P, p[2] = x PROVE \E e \in d.edges : e.source \in S /\ e.target = x
    BY <1>1, <2>2
  <2> QED BY <2>1, <2>2
<1> QED BY <1>2, <1>3

\* The nodes of a drawing are no more than its length.
LEMMA NodesAreFew ==
  ASSUME NEW d, d.nodes \in Seq(NodeRow)
  PROVE  IsFiniteSet(NodesOf(d)) /\ Cardinality(NodesOf(d)) <= Len(d.nodes)
         /\ Len(d.nodes) \in Nat
<1> DEFINE I == DOMAIN d.nodes
           f == [i \in I |-> d.nodes[i].id]
<1>1. Len(d.nodes) \in Nat /\ I = 1..Len(d.nodes)
  OBVIOUS
<1>2. IsFiniteSet(I) /\ Cardinality(I) = Len(d.nodes)
  BY <1>1, FS_Interval
<1>3. f \in Surjection(I, NodesOf(d))
  BY DEF Surjection, NodesOf
<1> HIDE DEF f, I
<1> QED BY <1>1, <1>2, <1>3, FS_Surjection

\* What is reached: the least set with S that no edge leads out of.
LEMMA ReachedIs ==
  ASSUME NEW d, d.nodes \in Seq(NodeRow), Joins(d), NEW S \in SUBSET NodesOf(d)
  PROVE  /\ S \subseteq Reached(d, S)
         /\ Follows(d, Reached(d, S))
         /\ Reached(d, S) \subseteq NodesOf(d)
         /\ \A C : S \subseteq C /\ Follows(d, C) => Reached(d, S) \subseteq C
<1> DEFINE n == Len(d.nodes)
           T == SUBSET NodesOf(d)
           g == [k \in 1..n |-> [X \in T |-> Farther(d, X)]]
<1>1. n \in Nat /\ IsFiniteSet(NodesOf(d)) /\ Cardinality(NodesOf(d)) <= n
  BY NodesAreFew
<1>2. \A X \in T : Farther(d, X) \in T
  BY FartherIs DEF Joins
<1>3. PICK f \in [0..n -> T] : f[0] = S /\ \A k \in 1..n : f[k] = Farther(d, f[k - 1])
  <2>1. g \in [1..n -> [T -> T]]
    BY <1>2
  <2>2. \E f \in [0..n -> T] : f[0] = S /\ \A k \in 1..n : f[k] = g[k][f[k - 1]]
    <3> HIDE DEF g, T, n
    <3>1. S \in T
      BY DEF T
    <3>2. n \in Nat
      BY <1>1
    <3>3. Hops(T, S, g, n)
      BY <2>1, <3>1, <3>2, HopsExist
    <3> QED BY <3>3 DEF Hops
  <2>3. ASSUME NEW f \in [0..n -> T], NEW k \in 1..n PROVE g[k][f[k - 1]] = Farther(d, f[k - 1])
    <3>1. k - 1 \in 0..n
      BY <1>1
    <3>2. f[k - 1] \in T
      BY <3>1
    <3> QED BY <3>2
  <2> HIDE DEF g, T, n
  <2> QED BY <2>2, <2>3
<1>4. Far(f, d, S)
  <2>1. \A k \in 0..n : f[k] = IF k = 0 THEN S ELSE Farther(d, f[k - 1])
    BY <1>3, <1>1
  <2>2. f = [k \in 0..n |-> f[k]]
    OBVIOUS
  <2> QED BY <2>1, <2>2 DEF Far, Farther
<1>5. PICK h : Far(h, d, S) /\ Reached(d, S) = h[n]
  BY <1>4, ReachedFar
<1>6. h[0] = S /\ \A k \in 1..n : h[k] = Farther(d, h[k - 1])
  <2>1. h = [k \in 0..n |-> IF k = 0 THEN S ELSE Farther(d, h[k - 1])]
    BY <1>5 DEF Far, Farther
  <2>2. \A k \in 0..n : h[k] = IF k = 0 THEN S ELSE Farther(d, h[k - 1])
    BY <2>1
  <2> HIDE DEF n
  <2> QED BY <2>2, <1>1
<1> HIDE DEF n
<1>7. ASSUME NEW C, S \subseteq C, Follows(d, C) PROVE h[n] \subseteq C
  <2> DEFINE Bad == {k \in 0..n : ~ (h[k] \subseteq C)}
  <2>1. SUFFICES ASSUME Bad # {} PROVE FALSE
    BY <1>1
  <2>2. Bad \in SUBSET Nat
    BY <1>1
  <2>3. PICK k \in Bad : \A j \in Bad : k <= j
    <3> HIDE DEF Bad
    <3> QED BY <2>1, <2>2, Least
  <2>4. k # 0
    BY <1>6, <1>7
  <2>5. k - 1 \in 0..n /\ k - 1 \notin Bad /\ k \in 1..n
    <3>1. k \in 0..n
      OBVIOUS
    <3>2. k - 1 \in 0..n /\ k \in 1..n /\ ~ (k <= k - 1)
      BY <3>1, <2>4, <1>1
    <3> HIDE DEF Bad
    <3> QED BY <3>2, <2>3
  <2>6. h[k - 1] \subseteq C
    BY <2>5
  <2>7. h[k] \subseteq C
    BY <2>5, <2>6, <1>6, <1>7, FartherIs DEF Follows
  <2> QED BY <2>7
<1>8. h[n] \subseteq NodesOf(d)
  <2>1. Follows(d, NodesOf(d))
    BY DEF Follows, Joins
  <2> QED BY <2>1, <1>7
<1>9. ASSUME NEW k \in 0..n PROVE S \subseteq h[k] /\ h[k] \subseteq NodesOf(d)
                                  /\ (\/ Follows(d, h[k])
                                      \/ Cardinality(h[k]) > k)
  <2> DEFINE Good(j) == S \subseteq h[j] /\ h[j] \subseteq NodesOf(d)
                        /\ (Follows(d, h[j]) \/ Cardinality(h[j]) > j)
             Bad == {j \in 0..n : ~ Good(j)}
  <2>1. SUFFICES ASSUME Bad # {} PROVE FALSE
    OBVIOUS
  <2>2. Bad \in SUBSET Nat
    BY <1>1
  <2>3. PICK j \in Bad : \A i \in Bad : j <= i
    <3> HIDE DEF Bad
    <3> QED BY <2>1, <2>2, Least
  <2>4. Good(0)
    <3>1. CASE S = {}
      BY <3>1, <1>6 DEF Follows
    <3>2. CASE S # {}
      <4>1. Cardinality(S) \in Nat /\ Cardinality(S) # 0
        BY <3>2, <1>1, FS_Subset, FS_EmptySet, FS_CardinalityType
      <4> QED BY <4>1, <1>6
    <3> QED BY <3>1, <3>2
  <2>5. j - 1 \in 0..n /\ j - 1 \notin Bad /\ j \in 1..n
    <3>1. j \in 0..n /\ j # 0
      BY <2>4
    <3>2. j - 1 \in 0..n /\ j \in 1..n /\ ~ (j <= j - 1)
      BY <3>1, <1>1
    <3> HIDE DEF Bad
    <3> QED BY <3>2, <2>3
  <2>6. Good(j - 1)
    BY <2>5
  <2>7. h[j] = Farther(d, h[j - 1])
    BY <2>5, <1>6
  <2>8. S \subseteq h[j] /\ h[j] \subseteq NodesOf(d) /\ h[j - 1] \subseteq h[j]
    BY <2>6, <2>7, FartherIs DEF Joins
  <2>9. CASE Follows(d, h[j - 1])
    <3>1. h[j] \subseteq h[j - 1]
      BY <2>7, <2>9, FartherIs DEF Follows
    <3>2. h[j] = h[j - 1]
      BY <3>1, <2>8
    <3> QED BY <3>2, <2>9, <2>8
  <2>10. CASE ~ Follows(d, h[j - 1])
    <3>1. h[j] # h[j - 1]
      BY <2>7, <2>10, FartherIs DEF Follows
    <3>2. IsFiniteSet(h[j]) /\ IsFiniteSet(h[j - 1])
      BY <2>6, <2>8, <1>1, FS_Subset
    <3>3. Cardinality(h[j - 1]) <= Cardinality(h[j]) /\ Cardinality(h[j - 1]) # Cardinality(h[j])
      BY <3>1, <3>2, <2>8, FS_Subset
    <3>4. Cardinality(h[j]) \in Nat /\ Cardinality(h[j - 1]) \in Nat
      BY <3>2, FS_CardinalityType
    <3>5. Cardinality(h[j - 1]) > j - 1
      BY <2>6, <2>10
    <3>6. Cardinality(h[j]) > j
      BY <3>3, <3>4, <3>5, <2>5
    <3> QED BY <3>6, <2>8
  <2> QED BY <2>9, <2>10
<1>10. Follows(d, h[n])
  <2>1. n \in 0..n
    BY <1>1
  <2>2. Cardinality(h[n]) <= Cardinality(NodesOf(d)) /\ Cardinality(h[n]) \in Nat
        /\ Cardinality(NodesOf(d)) \in Nat
    BY <1>1, <1>8, FS_Subset, FS_CardinalityType
  <2>3. ~ (Cardinality(h[n]) > n)
    BY <2>2, <1>1
  <2> QED BY <2>1, <2>3, <1>9
<1>11. S \subseteq h[n]
  BY <1>9, <1>1
<1> QED BY <1>5, <1>7, <1>8, <1>10, <1>11

-----------------------------------------------------------------------------
(***************************************************************************)
(* Drawing: nodes and their numbers, the nodes that remain, and drawings   *)
(* that differ in inputs only.                                             *)
(***************************************************************************)
LEMMA InputsType ==
  ASSUME NEW D \in SUBSET InputNames, NEW f \in [D -> DrawnBindings]
  PROVE  f \in Inputs
BY DEF Inputs

LEMMA InputsAre ==
  ASSUME NEW f \in Inputs
  PROVE  /\ DOMAIN f \subseteq InputNames /\ f \in [DOMAIN f -> DrawnBindings]
         /\ \A name \in DOMAIN f : f[name] \in DrawnBindings
<1>1. PICK D \in SUBSET InputNames : f \in [D -> DrawnBindings]
  BY DEF Inputs
<1> QED BY <1>1

LEMMA NodesAre ==
  ASSUME NEW d, d.nodes \in Seq(NodeRow)
  PROVE  /\ Len(d.nodes) \in Nat /\ DOMAIN d.nodes = 1..Len(d.nodes)
         /\ \A i \in DOMAIN d.nodes : d.nodes[i] \in NodeRow
         /\ \A i \in DOMAIN d.nodes : d.nodes[i].id \in NodesOf(d)
         /\ \A id \in NodesOf(d) : \E i \in DOMAIN d.nodes : d.nodes[i].id = id
         /\ NodesOf(d) \subseteq Ids
<1>1. Len(d.nodes) \in Nat /\ DOMAIN d.nodes = 1..Len(d.nodes)
      /\ \A i \in DOMAIN d.nodes : d.nodes[i] \in NodeRow
  OBVIOUS
<1>2. \A r \in NodeRow : r.id \in Ids
  BY DEF NodeRow
<1> QED BY <1>1, <1>2 DEF NodesOf

LEMMA NodeOfIs ==
  ASSUME NEW d, NodesFit(d), NEW i \in DOMAIN d.nodes
  PROVE  NodeOf(d, d.nodes[i].id) = d.nodes[i]
<1>1. \A j \in DOMAIN d.nodes : d.nodes[j].id = d.nodes[i].id <=> j = i
  BY DEF NodesFit
<1> QED BY <1>1 DEF NodeOf

LEMMA NodeOfNode ==
  ASSUME NEW d, d.nodes \in Seq(NodeRow), NodesFit(d), NEW id \in NodesOf(d)
  PROVE  \E i \in DOMAIN d.nodes : NodeOf(d, id) = d.nodes[i] /\ d.nodes[i].id = id
<1>1. PICK i \in DOMAIN d.nodes : d.nodes[i].id = id
  BY NodesAre
<1> QED BY <1>1, NodeOfIs

\* A new node gets a number that is free.
LEMMA NextIsFree ==
  ASSUME DrawingAssumption, NEW d, d.nodes \in Seq(NodeRow), Len(d.nodes) < MaxNodes,
         NEW t \in NodeTypes
  PROVE  /\ NextNodeId(d, t) \in Ids /\ NextNodeId(d, t) \notin NodesOf(d)
         /\ NextNodeId(d, t)[1] = t
<1> DEFINE Free == {n \in 1..MaxNodes : <<t, n>> \notin NodesOf(d)}
<1>1. MaxNodes \in Nat /\ 1..MaxNodes \subseteq Nat
  BY DEF DrawingAssumption
<1>2. Free # {}
  <2>1. SUFFICES ASSUME \A n \in 1..MaxNodes : <<t, n>> \in NodesOf(d) PROVE FALSE
    OBVIOUS
  <2> DEFINE f == [n \in 1..MaxNodes |-> <<t, n>>]
  <2>2. f \in [1..MaxNodes -> NodesOf(d)]
    BY <2>1
  <2>3. IsFiniteSet(1..MaxNodes) /\ Cardinality(1..MaxNodes) = MaxNodes
    BY <1>1, FS_Interval
  <2>4. IsFiniteSet(NodesOf(d)) /\ Cardinality(NodesOf(d)) \in Nat
        /\ Cardinality(NodesOf(d)) < Cardinality(1..MaxNodes)
    BY <2>3, <1>1, NodesAreFew, FS_CardinalityType
  <2>5. \E x, y \in 1..MaxNodes : x # y /\ f[x] = f[y]
    <3> HIDE DEF f
    <3> QED BY <2>2, <2>3, <2>4, FS_PigeonHole
  <2> QED BY <2>5
<1>3. PICK n \in Free : \A k \in Free : n <= k
  <2>1. Free \in SUBSET Nat
    BY <1>1
  <2> HIDE DEF Free
  <2> QED BY <2>1, <1>2, Least
<1>4. n \in 1..MaxNodes /\ <<t, n>> \notin NodesOf(d)
  OBVIOUS
<1>5. \A k \in 1..(n - 1) : <<t, k>> \in NodesOf(d)
  <2> TAKE k \in 1..(n - 1)
  <2>1. k \in 1..MaxNodes /\ ~ (n <= k)
    BY <1>1, <1>4
  <2>2. k \notin Free
    <3> HIDE DEF Free
    <3> QED BY <2>1, <1>3
  <2> QED BY <2>1, <2>2
<1> DEFINE c == CHOOSE m \in 1..MaxNodes :
                  <<t, m>> \notin NodesOf(d) /\ \A k \in 1..(m - 1) : <<t, k>> \in NodesOf(d)
<1>6. c \in 1..MaxNodes /\ <<t, c>> \notin NodesOf(d)
  BY <1>4, <1>5
<1>7. NextNodeId(d, t) = <<t, c>>
  BY DEF NextNodeId
<1> HIDE DEF c
<1> QED BY <1>6, <1>7 DEF Ids

LEMMA FirstNodeIs ==
  ASSUME NEW nodes \in Seq(NodeRow), NEW t
  PROVE  \/ FirstNode(nodes, t) = <<t, 1>>
         \/ \E i \in DOMAIN nodes : FirstNode(nodes, t) = nodes[i].id /\ nodes[i].id[1] = t
<1> DEFINE found == {i \in DOMAIN nodes : nodes[i].id[1] = t}
<1>1. CASE found = {}
  BY <1>1 DEF FirstNode
<1>2. CASE found # {}
  <2>1. found \in SUBSET Nat /\ FirstNode(nodes, t) = nodes[Min(found)].id
    BY <1>2 DEF FirstNode
  <2>2. Min(found) \in found
    <3> HIDE DEF found
    <3> QED BY <1>2, <2>1, MinType
  <2> QED BY <2>1, <2>2
<1> QED BY <1>1, <1>2

KeptBy(f, nodes, gone) ==
    f = [k \in 0..Len(nodes) |->
            IF k = 0 THEN << >>
            ELSE IF nodes[k].id \in gone THEN f[k - 1] ELSE Append(f[k - 1], nodes[k])]

LEMMA KeptChosen ==
  ASSUME NEW nodes, NEW gone
  PROVE  Remaining(nodes, gone) = (CHOOSE f : KeptBy(f, nodes, gone))[Len(nodes)]
BY DEF Remaining, KeptBy

\* The sequence q is the first k nodes but those that are gone.
KeptTo(q, nodes, gone, k) ==
    /\ q \in Seq(NodeRow) /\ Len(q) <= k
    /\ \A i \in DOMAIN q : \E j \in 1..k : q[i] = nodes[j] /\ nodes[j].id \notin gone
    /\ \A j \in 1..k : nodes[j].id \notin gone => \E i \in DOMAIN q : q[i] = nodes[j]
    /\ (\A i, j \in DOMAIN nodes : nodes[i].id = nodes[j].id => i = j)
        => \A i, j \in DOMAIN q : q[i].id = q[j].id => i = j

LEMMA KeptStep ==
  ASSUME NEW nodes \in Seq(NodeRow), NEW gone, NEW k \in 1..Len(nodes), NEW q,
         KeptTo(q, nodes, gone, k - 1)
  PROVE  KeptTo(IF nodes[k].id \in gone THEN q ELSE Append(q, nodes[k]), nodes, gone, k)
<1>1. nodes[k] \in NodeRow /\ k \in Nat /\ Len(nodes) \in Nat /\ DOMAIN nodes = 1..Len(nodes)
  OBVIOUS
<1>2. \A j \in 1..k : j = k \/ j \in 1..(k - 1)
  BY <1>1
<1>3. 1..(k - 1) \subseteq 1..k /\ k \notin 1..(k - 1)
  BY <1>1
<1>4. q \in Seq(NodeRow) /\ Len(q) \in Nat /\ Len(q) <= k - 1 /\ DOMAIN q = 1..Len(q)
  BY DEF KeptTo
<1>5. CASE nodes[k].id \in gone
  <2>1. Len(q) <= k
    BY <1>4, <1>1
  <2> QED BY <1>5, <1>2, <1>3, <1>4, <2>1 DEF KeptTo
<1>6. CASE nodes[k].id \notin gone
  <2> DEFINE r == Append(q, nodes[k])
  <2>1. r \in Seq(NodeRow) /\ Len(r) = Len(q) + 1 /\ r[Len(q) + 1] = nodes[k]
        /\ DOMAIN r = 1..(Len(q) + 1) /\ \A i \in DOMAIN q : i \in DOMAIN r /\ r[i] = q[i]
    BY <1>1, <1>4
  <2>2. \A i \in DOMAIN r : i \in DOMAIN q \/ i = Len(q) + 1
    BY <2>1, <1>4
  <2>3. Len(q) + 1 \in DOMAIN r /\ Len(r) <= k
    BY <2>1, <1>4, <1>1
  <2> HIDE DEF r
  <2>4. \A i \in DOMAIN r : \E j \in 1..k : r[i] = nodes[j] /\ nodes[j].id \notin gone
    <3>1. ASSUME NEW i \in DOMAIN r, i \in DOMAIN q PROVE \E j \in 1..k : r[i] = nodes[j] /\ nodes[j].id \notin gone
      <4>1. PICK j \in 1..(k - 1) : q[i] = nodes[j] /\ nodes[j].id \notin gone
        BY <3>1 DEF KeptTo
      <4> QED BY <2>1, <3>1, <4>1, <1>3
    <3>2. k \in 1..k
      BY <1>1
    <3> QED BY <2>1, <2>2, <3>1, <3>2, <1>6
  <2>5. \A j \in 1..k : nodes[j].id \notin gone => \E i \in DOMAIN r : r[i] = nodes[j]
    BY <2>1, <2>3, <1>2 DEF KeptTo
  <2>6. ASSUME \A i, j \in DOMAIN nodes : nodes[i].id = nodes[j].id => i = j
        PROVE  \A i, j \in DOMAIN r : r[i].id = r[j].id => i = j
    <3>1. \A i, j \in DOMAIN q : q[i].id = q[j].id => i = j
      BY <2>6 DEF KeptTo
    <3>2. \A i \in DOMAIN q : q[i].id # nodes[k].id
      <4> TAKE i \in DOMAIN q
      <4>1. PICK j \in 1..(k - 1) : q[i] = nodes[j]
        BY DEF KeptTo
      <4>2. j # k /\ j \in DOMAIN nodes /\ k \in DOMAIN nodes
        BY <1>1
      <4> QED BY <4>1, <4>2, <2>6
    <3> QED BY <3>1, <3>2, <2>1, <2>2
  <2>7. KeptTo(r, nodes, gone, k)
    BY <2>1, <2>3, <2>4, <2>5, <2>6 DEF KeptTo
  <2> QED BY <2>7, <1>6 DEF r
<1> QED BY <1>5, <1>6

LEMMA KeptIs ==
  ASSUME NEW nodes \in Seq(NodeRow), NEW gone
  PROVE  KeptTo(Remaining(nodes, gone), nodes, gone, Len(nodes))
<1> DEFINE n == Len(nodes)
           Longer(k, q) == IF nodes[k].id \in gone THEN q ELSE Append(q, nodes[k])
           S == Seq(NodeRow)
           g == [k \in 1..n |-> [q \in S |-> Longer(k, q)]]
<1>1. n \in Nat /\ \A k \in 1..n : nodes[k] \in NodeRow
  OBVIOUS
<1>2. PICK f \in [0..n -> S] : f[0] = << >> /\ \A k \in 1..n : f[k] = Longer(k, f[k - 1])
  <2>1. g \in [1..n -> [S -> S]]
    BY <1>1
  <2>2. << >> \in S
    OBVIOUS
  <2>3. Hops(S, << >>, g, n)
    <3> HIDE DEF g, S, n
    <3> QED BY <2>1, <2>2, <1>1, HopsExist
  <2>4. ASSUME NEW f \in [0..n -> S], NEW k \in 1..n PROVE g[k][f[k - 1]] = Longer(k, f[k - 1])
    <3>1. k - 1 \in 0..n
      BY <1>1
    <3>2. f[k - 1] \in S
      BY <3>1
    <3> QED BY <3>2
  <2> HIDE DEF g, S, n, Longer
  <2> QED BY <2>3, <2>4 DEF Hops
<1>3. KeptBy(f, nodes, gone)
  <2>1. \A k \in 0..n : f[k] = IF k = 0 THEN << >> ELSE Longer(k, f[k - 1])
    <3>1. \A k \in 0..n : k = 0 \/ k \in 1..n
      BY <1>1
    <3> HIDE DEF n, Longer
    <3> QED BY <3>1, <1>2
  <2>2. f = [k \in 0..n |-> f[k]]
    OBVIOUS
  <2> QED BY <2>1, <2>2 DEF KeptBy
<1>4. PICK h : KeptBy(h, nodes, gone) /\ Remaining(nodes, gone) = h[n]
  BY <1>3, KeptChosen
<1>5. h[0] = << >> /\ \A k \in 1..n : h[k] = Longer(k, h[k - 1])
  <2>1. h = [k \in 0..n |-> IF k = 0 THEN << >> ELSE Longer(k, h[k - 1])]
    BY <1>4 DEF KeptBy
  <2>2. \A k \in 0..n : h[k] = IF k = 0 THEN << >> ELSE Longer(k, h[k - 1])
    BY <2>1
  <2> HIDE DEF n, Longer
  <2> QED BY <2>2, <1>1
<1> DEFINE G == {k \in 0..n : KeptTo(h[k], nodes, gone, k)}
<1>6. 0 \in G
  <2>1. << >> \in Seq(NodeRow) /\ Len(<< >>) <= 0 /\ DOMAIN << >> = {} /\ 1..0 = {}
    BY EmptySeq
  <2>2. KeptTo(<< >>, nodes, gone, 0)
    BY <2>1 DEF KeptTo
  <2>3. KeptTo(h[0], nodes, gone, 0)
    BY <2>2, <1>5
  <2> QED BY <2>3, <1>1
<1>7. \A k \in 1..n : k - 1 \in G => k \in G
  BY <1>5, <1>1, KeptStep
<1>8. n \in G
  <2> HIDE DEF G, n
  <2>1. n \in 0..n
    BY <1>1
  <2> QED BY <2>1, <1>1, <1>6, <1>7, UpTo
<1> QED BY <1>8, <1>4

LEMMA OutputType ==
  ASSUME NEW id \in Ids
  PROVE  OutputFrom(id) \in DrawnBindings /\ OutputFrom(id).node = id
         /\ Output(id, "value") \in DrawnBindings /\ Output(id, "value").node = id
         /\ Output(id, "mean") \in DrawnBindings /\ Output(id, "mean").node = id
<1>1. OutputOf(id[1]) \in {"value", "mean", "result"}
  BY DEF OutputOf
<1> QED BY <1>1 DEF OutputFrom, Output, DrawnBindings

\* Only inputs, and the entry, differ.
Relabelled(d, c) ==
    /\ c.edges = d.edges /\ DOMAIN c.nodes = DOMAIN d.nodes
    /\ \A i \in DOMAIN d.nodes : c.nodes[i].id = d.nodes[i].id /\ c.nodes[i].names = d.nodes[i].names

LEMMA DrawingsAre ==
  ASSUME NEW d \in Drawings
  PROVE  /\ d.entry \in Ids /\ d.nodes \in Seq(NodeRow) /\ d.edges \in SUBSET Edges
         /\ Len(d.nodes) \in Nat /\ DOMAIN d.nodes = 1..Len(d.nodes)
         /\ \A i \in DOMAIN d.nodes : d.nodes[i] \in NodeRow
<1>1. d.entry \in Ids /\ d.nodes \in Seq(NodeRow) /\ d.edges \in SUBSET Edges
  BY DEF Drawings
<1> QED BY <1>1

LEMMA RelabelNodes ==
  ASSUME NEW d, NEW c, Relabelled(d, c)
  PROVE  NodesOf(c) = NodesOf(d)
BY DEF Relabelled, NodesOf

LEMMA RelabelNames ==
  ASSUME NEW d \in Drawings, NEW c \in Drawings, Relabelled(d, c), NodesFit(d)
  PROVE  NodesFit(c) /\ \A id \in NodesOf(d) : NodeOf(c, id).names = NodeOf(d, id).names
<1>1. NodesFit(c)
  <2>1. Len(c.nodes) = Len(d.nodes)
    BY DrawingsAre DEF Relabelled
  <2> QED BY <2>1 DEF Relabelled, NodesFit
<1>2. ASSUME NEW i \in DOMAIN d.nodes
      PROVE  NodeOf(c, d.nodes[i].id).names = NodeOf(d, d.nodes[i].id).names
  <2>1. i \in DOMAIN c.nodes /\ c.nodes[i].id = d.nodes[i].id
    BY DEF Relabelled
  <2>2. NodeOf(c, d.nodes[i].id) = c.nodes[i] /\ NodeOf(d, d.nodes[i].id) = d.nodes[i]
    BY <2>1, <1>1, NodeOfIs
  <2> QED BY <2>2 DEF Relabelled
<1> QED BY <1>1, <1>2 DEF NodesOf

LEMMA RelabelKeeps ==
  ASSUME NEW d, Drawn(d), NEW c \in Drawings, Relabelled(d, c), Reads(c)
  PROVE  Drawn(c)
<1>1. NodesOf(c) = NodesOf(d) /\ NodesFit(c) /\ c.edges = d.edges
      /\ \A id \in NodesOf(d) : NodeOf(c, id).names = NodeOf(d, id).names
  BY RelabelNodes, RelabelNames DEF Drawn, Relabelled
<1>2. \A e \in d.edges : e.target \in NodesOf(d)
  BY DEF Drawn, Joins
<1>3. PortsAreNamed(c)
  BY <1>1, <1>2 DEF Drawn, PortsAreNamed
<1> QED BY <1>1, <1>3 DEF Drawn, Joins, OneComesIn, LinesDiffer

LEMMA ReboundIs ==
  ASSUME NEW d \in Drawings, NEW id, NEW inputs \in Inputs
  PROVE  /\ Rebound(d, id, inputs) \in Drawings /\ Relabelled(d, Rebound(d, id, inputs))
         /\ Rebound(d, id, inputs).entry = d.entry
         /\ \A i \in DOMAIN d.nodes :
               Rebound(d, id, inputs).nodes[i].inputs
                 = IF d.nodes[i].id = id THEN inputs ELSE d.nodes[i].inputs
<1> DEFINE relabel(i) == IF d.nodes[i].id = id THEN [d.nodes[i] EXCEPT !.inputs = inputs] ELSE d.nodes[i]
           nodes == [i \in DOMAIN d.nodes |-> relabel(i)]
<1>1. ASSUME NEW i \in DOMAIN d.nodes
      PROVE  /\ relabel(i) \in NodeRow /\ relabel(i).id = d.nodes[i].id /\ relabel(i).names = d.nodes[i].names
             /\ relabel(i).inputs = IF d.nodes[i].id = id THEN inputs ELSE d.nodes[i].inputs
  <2>1. d.nodes[i] \in NodeRow
    BY DrawingsAre
  <2> QED BY <2>1 DEF NodeRow
<1> HIDE DEF relabel
<1>2. nodes \in Seq(NodeRow) /\ DOMAIN nodes = DOMAIN d.nodes
  <2>1. nodes \in [1..Len(d.nodes) -> NodeRow] /\ Len(d.nodes) \in Nat
    BY <1>1, DrawingsAre
  <2>2. nodes \in Seq(NodeRow)
    <3> HIDE DEF nodes
    <3> QED BY <2>1, FunctionIsSeq
  <2> QED BY <2>2
<1>3. \A i \in DOMAIN d.nodes : nodes[i] = relabel(i)
  OBVIOUS
<1>4. Rebound(d, id, inputs) = [d EXCEPT !.nodes = nodes]
  BY DEF Rebound, relabel
<1> HIDE DEF nodes
<1>5. Rebound(d, id, inputs) \in Drawings /\ Rebound(d, id, inputs).nodes = nodes
      /\ Rebound(d, id, inputs).edges = d.edges /\ Rebound(d, id, inputs).entry = d.entry
  BY <1>2, <1>4 DEF Drawings
<1> QED BY <1>1, <1>2, <1>3, <1>5 DEF Relabelled

LEMMA ReboundKeeps ==
  ASSUME NEW d, Drawn(d), NEW id, NEW inputs \in Inputs, TakesFrom(inputs, NodesOf(d))
  PROVE  Drawn(Rebound(d, id, inputs))
<1>1. PICK c : c = Rebound(d, id, inputs)
  OBVIOUS
<1>2. c \in Drawings /\ Relabelled(d, c) /\ NodesOf(c) = NodesOf(d)
  BY <1>1, ReboundIs, RelabelNodes DEF Drawn
<1>3. \A i \in DOMAIN d.nodes : c.nodes[i].inputs = inputs \/ c.nodes[i].inputs = d.nodes[i].inputs
  BY <1>1, ReboundIs DEF Drawn
<1>4. Reads(c)
  BY <1>2, <1>3 DEF Reads, Drawn, Relabelled
<1> QED BY <1>1, <1>2, <1>4, RelabelKeeps

LEMMA TakenIs ==
  ASSUME NEW inputs \in Inputs, NEW name \in InputNames, NEW b \in DrawnBindings, NEW ids,
         TakesFrom(inputs, ids),
         b = Literal \/ b.node \in ids \cup {<<"input", 1>>, <<"mean", 1>>}
  PROVE  Taking(inputs, name, b) \in Inputs /\ TakesFrom(Taking(inputs, name, b), ids)
<1> DEFINE D == DOMAIN inputs \cup {name}
           f == [x \in D |-> IF x = name THEN b ELSE inputs[x]]
<1>1. DOMAIN f = D /\ \A x \in D : f[x] = IF x = name THEN b ELSE inputs[x]
  OBVIOUS
<1>2. DOMAIN inputs \subseteq InputNames /\ \A x \in DOMAIN inputs : inputs[x] \in DrawnBindings
  BY InputsAre
<1>3. D \subseteq InputNames /\ f \in [D -> DrawnBindings]
  BY <1>2
<1>4. f = Taking(inputs, name, b)
  BY DEF Taking
<1> HIDE DEF f
<1>5. f \in Inputs
  BY <1>3, InputsType
<1>6. TakesFrom(f, ids)
  BY <1>1 DEF TakesFrom
<1> QED BY <1>4, <1>5, <1>6

-----------------------------------------------------------------------------
(***************************************************************************)
(* Drawing: edges, and nodes that are added or removed.                    *)
(***************************************************************************)
\* An edge may be drawn from one node to a port of another.
Connectable(d, source, port, target, at) ==
    /\ source \in NodesOf(d) /\ target \in NodesOf(d)
    /\ port \in {"success", "true", "false"} /\ at \in JoinNames \cup {"in"}
    /\ IsJoin(target[1]) => at \in ToSet(NodeOf(d, target).names)

LEMMA PortsType ==
  ASSUME NEW d, Drawn(d), NEW id \in NodesOf(d), NEW at \in TargetPorts(NodeOf(d, id))
  PROVE  /\ at \in JoinNames \cup {"in"}
         /\ IsJoin(id[1]) => at \in ToSet(NodeOf(d, id).names) /\ at \in JoinNames
<1>1. PICK i \in DOMAIN d.nodes : NodeOf(d, id) = d.nodes[i] /\ d.nodes[i].id = id
  BY NodeOfNode, DrawingsAre DEF Drawn
<1>2. IsJoin(id[1]) => d.nodes[i].names \in NameLists
  BY <1>1 DEF Drawn, NodesFit
<1>3. \A names \in NameLists : ToSet(names) \subseteq JoinNames
  BY DEF NameLists, ToSet, JoinNames
<1> QED BY <1>1, <1>2, <1>3 DEF TargetPorts

\* The number of a new edge.
EdgeNumber(d, source, port, target) ==
    CHOOSE n \in 1..2 :
        ~\E e \in d.edges : e.source = source /\ e.port = port /\ e.target = target /\ e.n = n

LEMMA NumberIsFree ==
  ASSUME NEW d, Drawn(d), NEW source, NEW port, NEW target, NEW at,
         Connectable(d, source, port, target, at),
         ~ \E e \in d.edges : SameInbound(e, target, at)
  PROVE  /\ EdgeNumber(d, source, port, target) \in 1..2
         /\ ~ \E e \in d.edges : /\ e.source = source /\ e.port = port /\ e.target = target
                                 /\ e.n = EdgeNumber(d, source, port, target)
<1> DEFINE Taken(n) == \E e \in d.edges : e.source = source /\ e.port = port /\ e.target = target /\ e.n = n
<1>1. SUFFICES \E n \in 1..2 : ~ Taken(n)
  BY DEF EdgeNumber
<1>2. SUFFICES ASSUME Taken(1), Taken(2) PROVE FALSE
  <2>1. 1 \in 1..2 /\ 2 \in 1..2
    OBVIOUS
  <2> QED BY <2>1
<1>3. PICK e \in d.edges : e.source = source /\ e.port = port /\ e.target = target /\ e.n = 1
  BY <1>2
<1>4. PICK f \in d.edges : f.source = source /\ f.port = port /\ f.target = target /\ f.n = 2
  BY <1>2
<1>5. e # f
  BY <1>3, <1>4
<1>6. IsJoin(target[1]) /\ e.at # at /\ f.at # at /\ e.at # f.at
  BY <1>3, <1>4, <1>5 DEF SameInbound, Drawn, OneComesIn
<1>7. e.at \in JoinNames /\ f.at \in JoinNames /\ at \in JoinNames
  <2>1. \A names \in NameLists : ToSet(names) \subseteq JoinNames
    BY DEF NameLists, ToSet, JoinNames
  <2>2. target \in NodesOf(d)
    BY DEF Connectable
  <2>3. PICK i \in DOMAIN d.nodes : NodeOf(d, target) = d.nodes[i] /\ d.nodes[i].id = target
    BY <2>2, NodeOfNode, DrawingsAre DEF Drawn
  <2>4. d.nodes[i].names \in NameLists
    BY <2>3, <1>6 DEF Drawn, NodesFit
  <2>5. e.at \in ToSet(NodeOf(d, target).names) /\ f.at \in ToSet(NodeOf(d, target).names)
    BY <1>3, <1>4, <1>6 DEF Drawn, PortsAreNamed
  <2>6. at \in ToSet(NodeOf(d, target).names)
    BY <1>6 DEF Connectable
  <2> QED BY <2>1, <2>3, <2>4, <2>5, <2>6
<1> QED BY <1>6, <1>7 DEF JoinNames

LEMMA ConnectedCases ==
  ASSUME NEW d, NEW source, NEW port, NEW target, NEW at
  PROVE  LET inputs == NodeOf(d, target).inputs
             c == IF IsJoin(target[1]) /\ at \notin DOMAIN inputs
                  THEN Rebound(d, target, Taking(inputs, at, OutputFrom(source))) ELSE d
         IN  Connected(d, source, port, target, at)
               = IF \E e \in d.edges : SameInbound(e, target, at) THEN d
                 ELSE [c EXCEPT !.edges = @ \cup
                         {[source |-> source, port |-> port, target |-> target, at |-> at,
                           n |-> EdgeNumber(d, source, port, target)]}]
BY DEF Connected, EdgeNumber

LEMMA EdgeKeeps ==
  ASSUME NEW d, Drawn(d), NEW source, NEW port, NEW target, NEW at,
         Connectable(d, source, port, target, at),
         ~ \E e \in d.edges : SameInbound(e, target, at),
         NEW n \in 1..2,
         ~ \E e \in d.edges : e.source = source /\ e.port = port /\ e.target = target /\ e.n = n,
         NEW c, c = [d EXCEPT !.edges = @ \cup {[source |-> source, port |-> port, target |-> target,
                                                 at |-> at, n |-> n]}]
  PROVE  Drawn(c) /\ NodesOf(c) = NodesOf(d) /\ c.nodes = d.nodes /\ c.entry = d.entry
<1>1. PICK x : x = [source |-> source, port |-> port, target |-> target, at |-> at, n |-> n]
  OBVIOUS
<1>2. x.source = source /\ x.port = port /\ x.target = target /\ x.at = at /\ x.n = n
  BY <1>1
<1>3. NodesOf(d) \subseteq Ids /\ source \in Ids /\ target \in Ids
  BY NodesAre, DrawingsAre DEF Drawn, Connectable
<1>4. at \in JoinNames \cup {"in"}
  BY DEF Connectable
<1>5. x \in Edges
  BY <1>1, <1>3, <1>4 DEF Edges, Connectable
<1>6. c = [d EXCEPT !.edges = @ \cup {x}]
  BY <1>1
<1>7. c \in Drawings /\ c.nodes = d.nodes /\ c.entry = d.entry /\ c.edges = d.edges \cup {x}
  BY <1>5, <1>6 DEF Drawn, Drawings
<1>8. NodesOf(c) = NodesOf(d) /\ \A id : NodeOf(c, id) = NodeOf(d, id)
  BY <1>7 DEF NodesOf, NodeOf
<1>9. Joins(c)
  BY <1>2, <1>7, <1>8 DEF Drawn, Joins, Connectable
<1>10. OneComesIn(c)
  <2>1. \A e \in d.edges : ~ SameInbound(e, x.target, x.at)
    BY <1>2
  <2>2. \A e \in d.edges : ~ SameInbound(x, e.target, e.at)
    BY <2>1 DEF SameInbound
  <2> QED BY <2>1, <2>2, <1>7 DEF Drawn, OneComesIn
<1>11. LinesDiffer(c)
  <2>1. \A e \in d.edges : ~ (e.source = x.source /\ e.port = x.port /\ e.target = x.target /\ e.n = x.n)
    BY <1>2
  <2> QED BY <2>1, <1>7 DEF Drawn, LinesDiffer
<1>12. PortsAreNamed(c)
  <2>1. IsJoin(x.target[1]) => x.at \in ToSet(NodeOf(d, x.target).names)
    BY <1>2 DEF Connectable
  <2> QED BY <2>1, <1>7, <1>8 DEF Drawn, PortsAreNamed
<1>13. Reads(c) /\ NodesFit(c)
  BY <1>7, <1>8 DEF Drawn, Reads, NodesFit
<1>14. Drawn(c)
  BY <1>7, <1>9, <1>10, <1>11, <1>12, <1>13 DEF Drawn
<1> QED BY <1>1, <1>6, <1>7, <1>8, <1>14

\* Drawing an edge leaves the nodes as they are, but for an input of a join.
LEMMA ConnectedKeeps ==
  ASSUME NEW d, Drawn(d), NEW source, NEW port, NEW target, NEW at,
         Connectable(d, source, port, target, at)
  PROVE  LET c == Connected(d, source, port, target, at)
         IN  Drawn(c) /\ NodesOf(c) = NodesOf(d) /\ DOMAIN c.nodes = DOMAIN d.nodes
             /\ \A id \in NodesOf(d) : NodeOf(c, id).names = NodeOf(d, id).names
<1> DEFINE inputs == NodeOf(d, target).inputs
<1>1. PICK n : n = EdgeNumber(d, source, port, target)
  OBVIOUS
<1>2. PICK b : b = IF IsJoin(target[1]) /\ at \notin DOMAIN inputs
                   THEN Rebound(d, target, Taking(inputs, at, OutputFrom(source))) ELSE d
  OBVIOUS
<1>3. CASE \E e \in d.edges : SameInbound(e, target, at)
  <2>1. Connected(d, source, port, target, at) = d
    BY <1>3, ConnectedCases
  <2> QED BY <2>1
<1>4. CASE ~ \E e \in d.edges : SameInbound(e, target, at)
  <2>1. Connected(d, source, port, target, at)
          = [b EXCEPT !.edges = @ \cup {[source |-> source, port |-> port, target |-> target,
                                         at |-> at, n |-> n]}]
    BY <1>4, <1>1, <1>2, ConnectedCases
  <2>2. n \in 1..2
        /\ ~ \E e \in d.edges : e.source = source /\ e.port = port /\ e.target = target /\ e.n = n
    BY <1>1, <1>4, NumberIsFree
  <2>3. Drawn(b) /\ Relabelled(d, b)
    <3>1. CASE IsJoin(target[1]) /\ at \notin DOMAIN inputs
      <4>1. PICK i \in DOMAIN d.nodes : NodeOf(d, target) = d.nodes[i] /\ d.nodes[i].id = target
        BY NodeOfNode, DrawingsAre DEF Drawn, Connectable
      <4>2. d.nodes[i] \in NodeRow
        BY DrawingsAre DEF Drawn
      <4>3. inputs \in Inputs /\ TakesFrom(inputs, NodesOf(d))
        BY <4>1, <4>2 DEF NodeRow, Drawn, Reads
      <4>4. at \in InputNames
        <5>1. d.nodes[i].names \in NameLists
          BY <3>1, <4>1 DEF Drawn, NodesFit
        <5>2. ToSet(d.nodes[i].names) \subseteq JoinNames
          BY <5>1 DEF NameLists, ToSet, JoinNames
        <5> QED BY <3>1, <4>1, <5>2 DEF InputNames, Connectable
      <4>5. OutputFrom(source) \in DrawnBindings /\ OutputFrom(source).node = source
        BY OutputType, NodesAre, DrawingsAre DEF Drawn, Connectable
      <4>6. PICK q : q = Taking(inputs, at, OutputFrom(source))
        OBVIOUS
      <4>7. q \in Inputs /\ TakesFrom(q, NodesOf(d))
        <5> HIDE DEF inputs
        <5> QED BY <4>3, <4>4, <4>5, <4>6, TakenIs DEF Connectable
      <4>8. b = Rebound(d, target, q)
        BY <1>2, <3>1, <4>6
      <4> QED BY <4>7, <4>8, ReboundIs, ReboundKeeps DEF Drawn
    <3>2. CASE ~ (IsJoin(target[1]) /\ at \notin DOMAIN inputs)
      <4>1. b = d
        BY <1>2, <3>2
      <4> QED BY <4>1 DEF Relabelled
    <3> QED BY <3>1, <3>2
  <2>4. NodesOf(b) = NodesOf(d) /\ b.edges = d.edges /\ DOMAIN b.nodes = DOMAIN d.nodes
        /\ \A id \in NodesOf(d) : NodeOf(b, id).names = NodeOf(d, id).names
    BY <2>3, RelabelNodes, RelabelNames DEF Drawn, Relabelled
  <2>7. Connectable(b, source, port, target, at)
    BY <2>4 DEF Connectable
  <2>8. PICK c : c = [b EXCEPT !.edges = @ \cup {[source |-> source, port |-> port,
                                        target |-> target, at |-> at, n |-> n]}]
    OBVIOUS
  <2>9. Drawn(c) /\ NodesOf(c) = NodesOf(b) /\ c.nodes = b.nodes
    <3>1. ~ \E e \in b.edges : SameInbound(e, target, at)
      BY <2>4, <1>4
    <3>2. ~ \E e \in b.edges : e.source = source /\ e.port = port /\ e.target = target /\ e.n = n
      BY <2>4, <2>2
    <3>3. Drawn(b) /\ n \in 1..2
      BY <2>2, <2>3
    <3> QED BY <3>1, <3>2, <3>3, <2>7, <2>8, EdgeKeeps
  <2>10. \A id : NodeOf(c, id) = NodeOf(b, id)
    BY <2>9 DEF NodeOf
  <2> QED BY <2>1, <2>4, <2>8, <2>9, <2>10
<1> QED BY <1>3, <1>4

LEMMA FirstIsKnown ==
  ASSUME DrawingAssumption, NEW d \in Drawings, NEW t \in {"input", "mean"}
  PROVE  FirstNode(d.nodes, t) \in Ids
         /\ FirstNode(d.nodes, t) \in NodesOf(d) \cup {<<"input", 1>>, <<"mean", 1>>}
<1>1. <<t, 1>> \in Ids
  BY DEF Ids, NodeTypes, DrawingAssumption
<1>2. d.nodes \in Seq(NodeRow)
  BY DrawingsAre
<1>3. \/ FirstNode(d.nodes, t) = <<t, 1>>
      \/ \E i \in DOMAIN d.nodes : FirstNode(d.nodes, t) = d.nodes[i].id
  BY <1>2, FirstNodeIs
<1>4. \A i \in DOMAIN d.nodes : d.nodes[i].id \in NodesOf(d)
  BY DEF NodesOf
<1>5. NodesOf(d) \subseteq Ids
  BY <1>2, NodesAre
<1> QED BY <1>1, <1>3, <1>4, <1>5

\* What a new node reads is there, or is the first input or mean.
LEMMA WiredIs ==
  ASSUME DrawingAssumption, NEW d \in Drawings, NEW t \in NodeTypes
  PROVE  /\ WiredInputs(t, d.nodes) \in Inputs
         /\ TakesFrom(WiredInputs(t, d.nodes), NodesOf(d))
<1> DEFINE ids == NodesOf(d) \cup {<<"input", 1>>, <<"mean", 1>>}
           Good(b) == b \in DrawnBindings /\ b.node \in ids
<1>1. ASSUME NEW name \in InputNames, NEW b, Good(b), NEW f, f = [x \in {name} |-> b]
      PROVE  f \in Inputs /\ TakesFrom(f, NodesOf(d))
  <2>1. {name} \in SUBSET InputNames /\ f \in [{name} -> DrawnBindings]
    BY <1>1
  <2>2. f \in Inputs
    BY <2>1, InputsType
  <2> QED BY <2>2, <1>1 DEF TakesFrom
<1>2. ASSUME NEW f, f = [x \in {} |-> Literal]
      PROVE  f \in Inputs /\ TakesFrom(f, NodesOf(d))
  <2>1. {} \in SUBSET InputNames /\ f \in [{} -> DrawnBindings]
    BY <1>2
  <2>2. f \in Inputs
    BY <2>1, InputsType
  <2> QED BY <2>2, <1>2 DEF TakesFrom
<1>3. Good(Output(FirstNode(d.nodes, "input"), "value"))
      /\ Good(Output(FirstNode(d.nodes, "mean"), "mean"))
  BY FirstIsKnown, OutputType
<1>4. Good(Output(<<"mean", 1>>, "value"))
  <2>1. <<"mean", 1>> \in Ids
    BY DEF Ids, NodeTypes, DrawingAssumption
  <2> QED BY <2>1, OutputType
<1>5. d.nodes # << >> => Good(OutputFrom(Last(d.nodes).id))
  <2>1. SUFFICES ASSUME d.nodes # << >> PROVE Good(OutputFrom(Last(d.nodes).id))
    OBVIOUS
  <2>2. d.nodes \in Seq(NodeRow) /\ Len(d.nodes) \in DOMAIN d.nodes
    BY <2>1, DrawingsAre, EmptySeq
  <2>3. Last(d.nodes).id \in NodesOf(d) /\ NodesOf(d) \subseteq Ids
    BY <2>2, NodesAre DEF Last
  <2> QED BY <2>3, OutputType
<1>6. "value" \in InputNames /\ "left" \in InputNames
  BY DEF InputNames, FieldNames
<1> HIDE DEF Good
<1>7. CASE t = "mean"
  <2>1. WiredInputs(t, d.nodes) = [x \in {"value"} |-> Output(FirstNode(d.nodes, "input"), "value")]
    BY <1>7 DEF WiredInputs
  <2> QED BY <2>1, <1>1, <1>3, <1>6
<1>8. CASE t = "condition"
  <2>1. PICK b : b = IF \E i \in DOMAIN d.nodes : d.nodes[i].id[1] = "mean"
                     THEN Output(FirstNode(d.nodes, "mean"), "mean")
                     ELSE IF d.nodes = << >> THEN Output(<<"mean", 1>>, "value")
                     ELSE OutputFrom(Last(d.nodes).id)
    OBVIOUS
  <2>2. WiredInputs(t, d.nodes) = [x \in {"left"} |-> b]
    BY <1>8, <2>1 DEF WiredInputs
  <2>3. Good(b)
    BY <2>1, <1>3, <1>4, <1>5
  <2> QED BY <2>2, <2>3, <1>1, <1>6
<1>9. CASE t = "map" /\ d.nodes # << >>
  <2>1. WiredInputs(t, d.nodes) = [x \in {"value"} |-> OutputFrom(Last(d.nodes).id)]
    BY <1>9 DEF WiredInputs
  <2> QED BY <2>1, <1>1, <1>5, <1>6, <1>9
<1>10. CASE t # "mean" /\ t # "condition" /\ ~ (t = "map" /\ d.nodes # << >>)
  <2>1. WiredInputs(t, d.nodes) = [x \in {} |-> Literal]
    BY <1>10 DEF WiredInputs
  <2> QED BY <2>1, <1>2
<1> QED BY <1>7, <1>8, <1>9, <1>10

Grown(d, t) ==
    [d EXCEPT !.entry = IF d.nodes = << >> THEN NextNodeId(d, t) ELSE Head(d.nodes).id,
              !.nodes = Append(@, DefaultNode(t, NextNodeId(d, t), d.nodes))]

\* A node more, with a number that was free.
LEMMA GrownKeeps ==
  ASSUME DrawingAssumption, NEW d, Drawn(d), Len(d.nodes) < MaxNodes, NEW t \in NodeTypes,
         NEW id, id = NextNodeId(d, t), NEW node, node = DefaultNode(t, id, d.nodes),
         NEW c, c = Grown(d, t)
  PROVE  /\ Drawn(c) /\ NodesOf(c) = NodesOf(d) \cup {id} /\ id \notin NodesOf(d) /\ id[1] = t
         /\ NodeOf(c, id) = node /\ \A x \in NodesOf(d) : NodeOf(c, x) = NodeOf(d, x)
         /\ c.edges = d.edges /\ c.nodes = Append(d.nodes, node)
         /\ node.id = id /\ node.inputs = WiredInputs(t, d.nodes)
         /\ node.names = IF IsJoin(t) THEN <<"a", "b">> ELSE << >>
         /\ d.nodes # << >> => c.entry = Head(d.nodes).id
         /\ \A i \in DOMAIN d.nodes : i \in DOMAIN c.nodes /\ c.nodes[i] = d.nodes[i]
         /\ Len(d.nodes) + 1 \in DOMAIN c.nodes /\ c.nodes[Len(d.nodes) + 1] = node
         /\ Len(c.nodes) = Len(d.nodes) + 1
<1> DEFINE n == Len(d.nodes)
<1>1. d \in Drawings /\ d.nodes \in Seq(NodeRow) /\ n \in Nat /\ DOMAIN d.nodes = 1..n
  BY DrawingsAre DEF Drawn
<1>2. id \in Ids /\ id \notin NodesOf(d) /\ id[1] = t
  BY <1>1, NextIsFree
<1>3. node.id = id /\ node.inputs = WiredInputs(t, d.nodes)
      /\ node.names = IF IsJoin(t) THEN <<"a", "b">> ELSE << >>
  BY DEF DefaultNode
<1>4. node \in NodeRow /\ (IsJoin(t) => node.names \in NameLists)
      /\ TakesFrom(node.inputs, NodesOf(d))
  <2>1. WiredInputs(t, d.nodes) \in Inputs /\ TakesFrom(WiredInputs(t, d.nodes), NodesOf(d))
    BY <1>1, WiredIs
  <2>2. node = [id |-> id, inputs |-> WiredInputs(t, d.nodes), names |-> node.names]
    BY DEF DefaultNode
  <2>3. node.names \in NameLists \cup {<< >>} /\ (IsJoin(t) => node.names \in NameLists)
    BY <1>3 DEF NameLists
  <2> QED BY <2>1, <2>2, <2>3, <1>2, <1>3 DEF NodeRow
<1>5. PICK nodes : nodes = Append(d.nodes, node)
  OBVIOUS
<1>6. nodes \in Seq(NodeRow) /\ Len(nodes) = n + 1 /\ DOMAIN nodes = 1..(n + 1)
      /\ nodes[n + 1] = node /\ \A i \in DOMAIN d.nodes : i \in DOMAIN nodes /\ nodes[i] = d.nodes[i]
  BY <1>1, <1>4, <1>5
<1>7. \A i \in DOMAIN nodes : i \in DOMAIN d.nodes \/ i = n + 1
  BY <1>1, <1>6
<1>8. n + 1 \in DOMAIN nodes /\ n + 1 <= MaxNodes
  BY <1>1, <1>6 DEF DrawingAssumption
<1>9. PICK entry : entry = IF d.nodes = << >> THEN id ELSE Head(d.nodes).id
  OBVIOUS
<1>10. entry \in Ids
  <2>1. d.nodes # << >> => Head(d.nodes) \in NodeRow
    BY <1>1
  <2> QED BY <2>1, <1>2, <1>9 DEF NodeRow
<1>11. c = [d EXCEPT !.entry = entry, !.nodes = nodes]
  BY <1>5, <1>9 DEF Grown
<1>12. c \in Drawings /\ c.nodes = nodes /\ c.entry = entry /\ c.edges = d.edges
  BY <1>1, <1>6, <1>10, <1>11 DEF Drawings
<1> HIDE DEF n
<1>13. NodesOf(c) = NodesOf(d) \cup {id}
  BY <1>3, <1>6, <1>7, <1>8, <1>12 DEF NodesOf
<1>14. NodesFit(c)
  <2>1. \A i, j \in DOMAIN nodes : nodes[i].id = nodes[j].id => i = j
    <3>1. \A i, j \in DOMAIN d.nodes : d.nodes[i].id = d.nodes[j].id => i = j
      BY DEF Drawn, NodesFit
    <3>2. \A i \in DOMAIN d.nodes : d.nodes[i].id # id
      BY <1>2 DEF NodesOf
    <3> QED BY <3>1, <3>2, <1>3, <1>6, <1>7
  <2>2. \A i \in DOMAIN nodes : IsJoin(nodes[i].id[1]) => nodes[i].names \in NameLists
    BY <1>2, <1>3, <1>4, <1>6, <1>7 DEF Drawn, NodesFit
  <2> QED BY <2>1, <2>2, <1>6, <1>8, <1>12 DEF NodesFit
<1>15. NodeOf(c, id) = node
  BY <1>3, <1>6, <1>8, <1>12, <1>14, NodeOfIs
<1>16. ASSUME NEW x \in NodesOf(d) PROVE NodeOf(c, x) = NodeOf(d, x)
  <2>1. PICK i \in DOMAIN d.nodes : NodeOf(d, x) = d.nodes[i] /\ d.nodes[i].id = x
    BY <1>1, NodeOfNode DEF Drawn
  <2>2. i \in DOMAIN c.nodes /\ c.nodes[i] = d.nodes[i]
    BY <1>6, <1>12
  <2> QED BY <2>1, <2>2, <1>14, NodeOfIs
<1>17. Joins(c) /\ OneComesIn(c) /\ LinesDiffer(c)
  BY <1>12, <1>13 DEF Drawn, Joins, OneComesIn, LinesDiffer
<1>18. PortsAreNamed(c)
  <2>1. \A e \in d.edges : e.target \in NodesOf(d)
    BY DEF Drawn, Joins
  <2> QED BY <2>1, <1>12, <1>16 DEF Drawn, PortsAreNamed
<1>19. Reads(c)
  <2>1. \A i \in DOMAIN nodes : TakesFrom(nodes[i].inputs, NodesOf(d))
    BY <1>4, <1>6, <1>7 DEF Drawn, Reads
  <2> QED BY <2>1, <1>12, <1>13 DEF Reads, TakesFrom
<1>20. Drawn(c)
  BY <1>12, <1>14, <1>17, <1>18, <1>19 DEF Drawn
<1> QED BY <1>2, <1>3, <1>5, <1>6, <1>8, <1>9, <1>12, <1>13, <1>15, <1>16, <1>20 DEF n

\* f draws the edges into a new join, from the last nodes.
JoinedBy(f, d, new, id, node, many) ==
    f = [i \in 0..many |->
            IF i = 0 THEN new
            ELSE Connected(f[i - 1], d.nodes[Len(d.nodes) - many + i].id,
                           SourcePort(d.nodes[Len(d.nodes) - many + i].id[1]), id, node.names[i])]

LEMMA AddedCases ==
  ASSUME NEW d, NEW t
  PROVE  LET id == NextNodeId(d, t)
             node == DefaultNode(t, id, d.nodes)
             new == Grown(d, t)
             many == IF Len(d.nodes) > Len(node.names) THEN Len(node.names) ELSE Len(d.nodes)
         IN  Added(d, t)
               = CASE IsJoin(t) -> (CHOOSE f : JoinedBy(f, d, new, id, node, many))[many]
                   [] ~IsJoin(t) /\ d.nodes # << >> ->
                         Connected(new, Last(d.nodes).id, SourcePort(Last(d.nodes).id[1]), id, "in")
                   [] OTHER -> new
BY DEF Added, Grown, JoinedBy

LEMMA SourcePortType ==
  ASSUME NEW t
  PROVE  SourcePort(t) \in SourcePorts(t) /\ SourcePort(t) \in {"success", "true", "false"}
BY DEF SourcePort, SourcePorts

LEMMA JoinAdded ==
  ASSUME DrawingAssumption, NEW d, Drawn(d), Len(d.nodes) < MaxNodes, NEW t \in NodeTypes, IsJoin(t)
  PROVE  Drawn(Added(d, t))
<1>1. PICK id : id = NextNodeId(d, t)
  OBVIOUS
<1>2. PICK node : node = DefaultNode(t, id, d.nodes)
  OBVIOUS
<1>3. PICK new : new = Grown(d, t)
  OBVIOUS
<1>4. PICK many : many = IF Len(d.nodes) > Len(node.names) THEN Len(node.names) ELSE Len(d.nodes)
  OBVIOUS
<1>5. Added(d, t) = (CHOOSE f : JoinedBy(f, d, new, id, node, many))[many]
  BY <1>1, <1>2, <1>3, <1>4, AddedCases
<1>6. /\ Drawn(new) /\ NodesOf(new) = NodesOf(d) \cup {id} /\ id[1] = t
      /\ NodeOf(new, id) = node /\ node.names = <<"a", "b">>
  BY <1>1, <1>2, <1>3, GrownKeeps
<1> DEFINE S == {c \in Drawings : /\ Drawn(c) /\ NodesOf(c) = NodesOf(new)
                                  /\ NodeOf(c, id).names = <<"a", "b">>}
           source(i) == d.nodes[Len(d.nodes) - many + i].id
           Onward(c, i) == Connected(c, source(i), SourcePort(source(i)[1]), id, node.names[i])
           g == [i \in 1..many |-> [c \in S |-> Onward(c, i)]]
<1>7. d.nodes \in Seq(NodeRow) /\ Len(d.nodes) \in Nat /\ DOMAIN d.nodes = 1..Len(d.nodes)
  BY DrawingsAre DEF Drawn
<1>8. many \in Nat /\ many <= 2 /\ many <= Len(d.nodes)
  <2>1. Len(node.names) = 2
    BY <1>6
  <2> QED BY <2>1, <1>4, <1>7
<1>9. ASSUME NEW i \in 1..many, NEW c \in S PROVE Onward(c, i) \in S
  <2>1. Len(d.nodes) - many + i \in DOMAIN d.nodes
    BY <1>7, <1>8
  <2>2. source(i) \in NodesOf(c)
    BY <2>1, <1>6 DEF NodesOf
  <2>3. id \in NodesOf(c) /\ NodeOf(c, id).names = <<"a", "b">> /\ Drawn(c)
        /\ NodesOf(c) = NodesOf(new)
    BY <1>6
  <2>5. node.names[i] \in {"a", "b"} /\ node.names[i] \in ToSet(NodeOf(c, id).names)
    <3>1. i = 1 \/ i = 2
      BY <1>8
    <3>2. node.names[1] = "a" /\ node.names[2] = "b"
      BY <1>6
    <3>3. ToSet(<<"a", "b">>) = {"a", "b"}
      BY DEF ToSet
    <3> QED BY <3>1, <3>2, <3>3, <2>3
  <2>6. PICK s : s = source(i)
    OBVIOUS
  <2>7. Connectable(c, s, SourcePort(s[1]), id, node.names[i])
    BY <2>2, <2>3, <2>5, <2>6, SourcePortType DEF Connectable, JoinNames
  <2>8. PICK r : r = Connected(c, s, SourcePort(s[1]), id, node.names[i])
    OBVIOUS
  <2>9. Drawn(r) /\ NodesOf(r) = NodesOf(c) /\ NodeOf(r, id).names = NodeOf(c, id).names
    BY <2>3, <2>7, <2>8, ConnectedKeeps
  <2>10. r \in S
    BY <2>9, <2>3 DEF Drawn
  <2>11. r = Onward(c, i)
    BY <2>6, <2>8
  <2> QED BY <2>10, <2>11
<1>10. new \in S
  BY <1>6 DEF Drawn
<1> HIDE DEF Onward
<1>11. PICK f \in [0..many -> S] : f[0] = new /\ \A i \in 1..many : f[i] = Onward(f[i - 1], i)
  <2>1. g \in [1..many -> [S -> S]]
    BY <1>9
  <2>2. Hops(S, new, g, many)
    <3> HIDE DEF g, S
    <3> QED BY <2>1, <1>8, <1>10, HopsExist
  <2>3. ASSUME NEW f \in [0..many -> S], NEW i \in 1..many PROVE g[i][f[i - 1]] = Onward(f[i - 1], i)
    <3>1. i - 1 \in 0..many
      BY <1>8
    <3>2. f[i - 1] \in S
      <4> HIDE DEF S
      <4> QED BY <3>1
    <3> QED BY <3>2
  <2> HIDE DEF g, S
  <2> QED BY <2>2, <2>3 DEF Hops
<1> HIDE DEF S
<1>12. JoinedBy(f, d, new, id, node, many)
  <2>1. \A i \in 0..many : f[i] = IF i = 0 THEN new ELSE Onward(f[i - 1], i)
    <3>1. \A i \in 0..many : i = 0 \/ i \in 1..many
      BY <1>8
    <3> QED BY <3>1, <1>11
  <2>2. f = [i \in 0..many |-> f[i]]
    OBVIOUS
  <2> QED BY <2>1, <2>2 DEF JoinedBy, Onward
<1>13. PICK h : JoinedBy(h, d, new, id, node, many) /\ Added(d, t) = h[many]
  BY <1>5, <1>12
<1>14. h[0] = new /\ \A i \in 1..many : h[i] = Onward(h[i - 1], i)
  <2>1. h = [i \in 0..many |-> IF i = 0 THEN new ELSE Onward(h[i - 1], i)]
    BY <1>13 DEF JoinedBy, Onward
  <2>2. \A i \in 0..many : h[i] = IF i = 0 THEN new ELSE Onward(h[i - 1], i)
    BY <2>1
  <2>3. 0 \in 0..many /\ \A i \in 1..many : i \in 0..many /\ i # 0
    BY <1>8
  <2> QED BY <2>2, <2>3
<1> DEFINE G == {i \in 0..many : h[i] \in S}
<1>15. 0 \in G /\ \A i \in 1..many : i - 1 \in G => i \in G
  BY <1>8, <1>9, <1>10, <1>14
<1>16. many \in G
  <2> HIDE DEF G
  <2>1. many \in 0..many
    BY <1>8
  <2> QED BY <2>1, <1>8, <1>15, UpTo
<1> QED BY <1>13, <1>16 DEF S

LEMMA AddedKeeps ==
  ASSUME DrawingAssumption, NEW d, Drawn(d), Len(d.nodes) < MaxNodes, NEW t \in NodeTypes
  PROVE  Drawn(Added(d, t))
<1>1. CASE IsJoin(t)
  BY <1>1, JoinAdded
<1>2. CASE ~ IsJoin(t)
  <2>1. PICK id : id = NextNodeId(d, t)
    OBVIOUS
  <2>2. PICK new : new = Grown(d, t)
    OBVIOUS
  <2>3. PICK node : node = DefaultNode(t, id, d.nodes)
    OBVIOUS
  <2>4. Drawn(new) /\ NodesOf(new) = NodesOf(d) \cup {id} /\ id[1] = t /\ NodeOf(new, id).id = id
    BY <2>1, <2>2, <2>3, GrownKeeps
  <2>5. CASE d.nodes = << >>
    <3>1. Added(d, t) = new
      BY <2>2, <2>5, <1>2, AddedCases
    <3> QED BY <3>1, <2>4
  <2>6. CASE d.nodes # << >>
    <3>1. PICK s : s = Last(d.nodes).id
      OBVIOUS
    <3>2. Added(d, t) = Connected(new, s, SourcePort(s[1]), id, "in")
      BY <2>1, <2>2, <2>6, <3>1, <1>2, AddedCases
    <3>3. d.nodes \in Seq(NodeRow) /\ Len(d.nodes) \in DOMAIN d.nodes
      BY <2>6, DrawingsAre, EmptySeq DEF Drawn
    <3>4. s \in NodesOf(new)
      BY <3>1, <3>3, <2>4 DEF Last, NodesOf
    <3>5. Connectable(new, s, SourcePort(s[1]), id, "in")
      BY <1>2, <3>4, <2>4, SourcePortType DEF Connectable
    <3> QED BY <3>5, <3>2, <2>4, ConnectedKeeps
  <2> QED BY <2>5, <2>6
<1> QED BY <1>1, <1>2

\* Inputs that are left.
LEMMA RestrictedIs ==
  ASSUME NEW inputs \in Inputs, NEW D \in SUBSET DOMAIN inputs, NEW ids, TakesFrom(inputs, ids),
         NEW f, f = [x \in D |-> inputs[x]]
  PROVE  f \in Inputs /\ TakesFrom(f, ids)
<1>1. D \in SUBSET InputNames /\ f \in [D -> DrawnBindings]
  BY InputsAre
<1>2. f \in Inputs
  BY <1>1, InputsType
<1> QED BY <1>2 DEF TakesFrom

Left(node, gone) ==
    [node EXCEPT !.inputs = [name \in {x \in DOMAIN @ : @[x].node \notin gone} |-> @[name]]]

LEMMA WithoutCases ==
  ASSUME NEW d, NEW gone
  PROVE  LET kept == Remaining(d.nodes, gone)
         IN  Without(d, gone)
               = [entry |-> IF d.entry \notin gone THEN d.entry
                            ELSE IF kept = << >> \/ \E i \in DOMAIN kept : kept[i].id[1] = "input"
                                 THEN FirstNode(kept, "input")
                            ELSE Head(kept).id,
                  nodes |-> [i \in DOMAIN kept |-> Left(kept[i], gone)],
                  edges |-> {e \in d.edges : e.source \notin gone /\ e.target \notin gone}]
BY DEF Without, Left

LEMMA LeftIs ==
  ASSUME NEW node \in NodeRow, NEW gone
  PROVE  /\ Left(node, gone).id = node.id /\ Left(node, gone).names = node.names
         /\ Left(node, gone) \in NodeRow
         /\ DOMAIN Left(node, gone).inputs = {x \in DOMAIN node.inputs : node.inputs[x].node \notin gone}
         /\ \A x \in DOMAIN Left(node, gone).inputs : Left(node, gone).inputs[x] = node.inputs[x]
<1> DEFINE D == {x \in DOMAIN node.inputs : node.inputs[x].node \notin gone}
<1>1. PICK f : f = [x \in D |-> node.inputs[x]]
  OBVIOUS
<1>2. node.inputs \in Inputs /\ D \subseteq DOMAIN node.inputs
  BY DEF NodeRow
<1>3. f \in Inputs
  <2>1. D \in SUBSET InputNames /\ f \in [D -> DrawnBindings]
    BY <1>1, <1>2, InputsAre
  <2> QED BY <2>1, InputsType
<1>4. Left(node, gone) = [node EXCEPT !.inputs = f]
  BY <1>1 DEF Left
<1>5. PICK r : r = [node EXCEPT !.inputs = f]
  OBVIOUS
<1>6. r \in NodeRow /\ r.inputs = f /\ r.id = node.id /\ r.names = node.names
  BY <1>3, <1>5 DEF NodeRow
<1> QED BY <1>1, <1>4, <1>5, <1>6

LEMMA WithoutKeeps ==
  ASSUME DrawingAssumption, NEW d, Drawn(d), NEW gone
  PROVE  Drawn(Without(d, gone))
<1>1. PICK kept : kept = Remaining(d.nodes, gone)
  OBVIOUS
<1>2. PICK c : c = Without(d, gone)
  OBVIOUS
<1>3. d.nodes \in Seq(NodeRow) /\ d.entry \in Ids /\ d.edges \in SUBSET Edges
      /\ Len(d.nodes) \in Nat /\ DOMAIN d.nodes = 1..Len(d.nodes) /\ d \in Drawings
  BY DrawingsAre DEF Drawn
<1>4. /\ kept \in Seq(NodeRow) /\ Len(kept) <= Len(d.nodes)
      /\ \A i \in DOMAIN kept : \E j \in DOMAIN d.nodes : kept[i] = d.nodes[j] /\ d.nodes[j].id \notin gone
      /\ \A j \in DOMAIN d.nodes : d.nodes[j].id \notin gone => \E i \in DOMAIN kept : kept[i] = d.nodes[j]
      /\ \A i, j \in DOMAIN kept : kept[i].id = kept[j].id => i = j
  <2>1. KeptTo(kept, d.nodes, gone, Len(d.nodes))
    BY <1>1, <1>3, KeptIs
  <2>2. \A i, j \in DOMAIN d.nodes : d.nodes[i].id = d.nodes[j].id => i = j
    BY DEF Drawn, NodesFit
  <2> QED BY <2>1, <2>2, <1>3 DEF KeptTo
<1>5. PICK entry : entry = IF d.entry \notin gone THEN d.entry
                           ELSE IF kept = << >> \/ \E i \in DOMAIN kept : kept[i].id[1] = "input"
                                THEN FirstNode(kept, "input")
                           ELSE Head(kept).id
  OBVIOUS
<1>6. PICK nodes : nodes = [i \in DOMAIN kept |-> Left(kept[i], gone)]
  OBVIOUS
<1>7. PICK edges : edges = {e \in d.edges : e.source \notin gone /\ e.target \notin gone}
  OBVIOUS
<1>8. c = [entry |-> entry, nodes |-> nodes, edges |-> edges]
  BY <1>1, <1>2, <1>5, <1>6, <1>7, WithoutCases
<1>9. c.entry = entry /\ c.nodes = nodes /\ c.edges = edges
  BY <1>8
<1>10. \A i \in DOMAIN kept : kept[i] \in NodeRow /\ kept[i].id \in Ids
  <2>1. kept \in Seq(NodeRow)
    BY <1>4
  <2>2. \A i \in DOMAIN kept : kept[i] \in NodeRow
    BY <2>1
  <2> QED BY <2>2 DEF NodeRow
<1>11. entry \in Ids
  <2>1. FirstNode(kept, "input") \in Ids
    <3>1. \/ FirstNode(kept, "input") = <<"input", 1>>
          \/ \E i \in DOMAIN kept : FirstNode(kept, "input") = kept[i].id
      BY <1>4, FirstNodeIs
    <3>2. <<"input", 1>> \in Ids
      BY DEF Ids, NodeTypes, DrawingAssumption
    <3> QED BY <3>1, <3>2, <1>10
  <2>2. kept # << >> => Head(kept).id \in Ids
    <3>1. kept # << >> => Head(kept) \in NodeRow
      BY <1>4
    <3> QED BY <3>1 DEF NodeRow
  <2> QED BY <2>1, <2>2, <1>3, <1>5
<1>12. nodes \in Seq(NodeRow) /\ DOMAIN nodes = DOMAIN kept /\ Len(nodes) = Len(kept)
  <2>1. Len(kept) \in Nat /\ DOMAIN kept = 1..Len(kept)
    BY <1>4
  <2>2. nodes \in [1..Len(kept) -> NodeRow]
    BY <2>1, <1>6, <1>10, LeftIs
  <2>3. nodes \in Seq(NodeRow) /\ DOMAIN nodes = 1..Len(kept)
    BY <2>1, <2>2, FunctionIsSeq
  <2> QED BY <2>1, <2>3
<1>13. \A i \in DOMAIN nodes : nodes[i].id = kept[i].id /\ nodes[i].names = kept[i].names
  BY <1>6, <1>10, LeftIs
<1>14. c \in Drawings
  BY <1>3, <1>7, <1>8, <1>11, <1>12 DEF Drawings
<1>15. NodesOf(c) = NodesOf(d) \ gone
  <2>1. ASSUME NEW x \in NodesOf(c) PROVE x \in NodesOf(d) \ gone
    <3>1. PICK i \in DOMAIN kept : x = kept[i].id
      BY <1>9, <1>12, <1>13 DEF NodesOf
    <3> QED BY <3>1, <1>4 DEF NodesOf
  <2>2. ASSUME NEW x \in NodesOf(d) \ gone PROVE x \in NodesOf(c)
    <3>1. PICK j \in DOMAIN d.nodes : x = d.nodes[j].id
      BY DEF NodesOf
    <3>2. PICK i \in DOMAIN kept : kept[i] = d.nodes[j]
      BY <3>1, <1>4
    <3> QED BY <3>1, <3>2, <1>9, <1>12, <1>13 DEF NodesOf
  <2> QED BY <2>1, <2>2
<1>16. NodesFit(c)
  <2>1. Len(c.nodes) <= MaxNodes
    <3>1. Len(d.nodes) <= MaxNodes
      BY DEF Drawn, NodesFit
    <3>2. Len(kept) \in Nat /\ MaxNodes \in Nat
      BY <1>4 DEF DrawingAssumption
    <3> QED BY <3>1, <3>2, <1>3, <1>4, <1>9, <1>12
  <2>2. \A i, j \in DOMAIN nodes : nodes[i].id = nodes[j].id => i = j
    BY <1>4, <1>12, <1>13
  <2>3. \A i \in DOMAIN nodes : IsJoin(nodes[i].id[1]) => nodes[i].names \in NameLists
    <3> TAKE i \in DOMAIN nodes
    <3>1. PICK j \in DOMAIN d.nodes : kept[i] = d.nodes[j]
      BY <1>4, <1>12
    <3> QED BY <3>1, <1>13 DEF Drawn, NodesFit
  <2> QED BY <2>1, <2>2, <2>3, <1>9 DEF NodesFit
<1>17. Joins(c) /\ OneComesIn(c) /\ LinesDiffer(c)
  BY <1>7, <1>9, <1>15 DEF Drawn, Joins, OneComesIn, LinesDiffer
<1>18. PortsAreNamed(c)
  <2>1. ASSUME NEW x \in NodesOf(c) PROVE NodeOf(c, x).names = NodeOf(d, x).names
    <3>1. PICK i \in DOMAIN nodes : NodeOf(c, x) = nodes[i] /\ nodes[i].id = x
      BY <1>9, <1>12, <1>16, NodeOfNode
    <3>2. PICK j \in DOMAIN d.nodes : kept[i] = d.nodes[j]
      BY <1>4, <1>12
    <3>3. d.nodes[j].id = x /\ d.nodes[j].names = nodes[i].names
      BY <3>1, <3>2, <1>13
    <3>4. NodeOf(d, x) = d.nodes[j]
      BY <3>3, NodeOfIs DEF Drawn
    <3> QED BY <3>1, <3>3, <3>4
  <2>2. \A e \in c.edges : e \in d.edges /\ e.target \in NodesOf(c)
    BY <1>7, <1>9, <1>17 DEF Joins
  <2> QED BY <2>1, <2>2 DEF Drawn, PortsAreNamed
<1>19. Reads(c)
  <2> SUFFICES ASSUME NEW i \in DOMAIN nodes, NEW x \in DOMAIN nodes[i].inputs
               PROVE  \/ nodes[i].inputs[x] = Literal
                      \/ nodes[i].inputs[x].node \in NodesOf(c) \cup {<<"input", 1>>, <<"mean", 1>>}
    BY <1>9 DEF Reads, TakesFrom
  <2>1. PICK j \in DOMAIN d.nodes : kept[i] = d.nodes[j]
    BY <1>4, <1>12
  <2>2. nodes[i] = Left(d.nodes[j], gone) /\ d.nodes[j] \in NodeRow
    BY <2>1, <1>6, <1>10, <1>12
  <2>3. /\ x \in DOMAIN d.nodes[j].inputs /\ d.nodes[j].inputs[x].node \notin gone
        /\ nodes[i].inputs[x] = d.nodes[j].inputs[x]
    BY <2>2, LeftIs
  <2>4. \/ d.nodes[j].inputs[x] = Literal
        \/ d.nodes[j].inputs[x].node \in NodesOf(d) \cup {<<"input", 1>>, <<"mean", 1>>}
    BY <2>3 DEF Drawn, Reads, TakesFrom
  <2> QED BY <2>3, <2>4, <1>15
<1> QED BY <1>2, <1>14, <1>16, <1>17, <1>18, <1>19 DEF Drawn

-----------------------------------------------------------------------------
(***************************************************************************)
(* Drawing: repairs leave what is drawn well drawn, a second one finds     *)
(* nothing to repair, and neither does one of a drawing that compiles.     *)
(***************************************************************************)
\* Where one edge at most comes in, a repair takes away those to a port that is gone.
NamedEdges(d) == {e \in d.edges : IsJoin(e.target[1]) => e.at \in ToSet(NodeOf(d, e.target).names)}

LEMMA RepairedEdgesAre ==
  ASSUME NEW d, OneComesIn(d)
  PROVE  RepairedEdges(d) = [d EXCEPT !.edges = NamedEdges(d)]
<1> DEFINE known == NamedEdges(d)
           Together(e) == {f \in known : SameInbound(f, e.target, e.at)}
           Preferred(e) == {f \in Together(e) : f.port = "true" \/ \A g \in Together(e) : g.port # "true"}
<1>1. ASSUME NEW e \in known PROVE e = CHOOSE f \in Preferred(e) : TRUE
  <2>1. Together(e) = {e}
    <3>1. \A f \in Together(e) : f = e
      BY DEF OneComesIn, NamedEdges
    <3>2. e \in Together(e)
      BY DEF SameInbound
    <3> QED BY <3>1, <3>2
  <2>2. Preferred(e) = {e}
    <3> HIDE DEF Together
    <3> QED BY <2>1
  <2> HIDE DEF Preferred
  <2> QED BY <2>2
<1>2. known = {e \in known : e = CHOOSE f \in Preferred(e) : TRUE}
  <2> HIDE DEF known, Preferred
  <2> QED BY <1>1
<1>3. RepairedEdges(d) = [d EXCEPT !.edges = {e \in known : e = CHOOSE f \in Preferred(e) : TRUE}]
  BY DEF RepairedEdges, NamedEdges
<1> HIDE DEF Preferred, known
<1> QED BY <1>2, <1>3 DEF known

LEMMA RepairedEdgesKeep ==
  ASSUME NEW d \in Drawings, NodesFit(d), Joins(d), Reads(d), OneComesIn(d), LinesDiffer(d),
         NEW c, c = RepairedEdges(d)
  PROVE  /\ Drawn(c) /\ c.nodes = d.nodes /\ c.entry = d.entry
         /\ PortsAreNamed(d) => c = d
<1>1. PICK edges : edges = NamedEdges(d)
  OBVIOUS
<1>2. c = [d EXCEPT !.edges = edges] /\ edges \subseteq d.edges
  BY <1>1, RepairedEdgesAre DEF NamedEdges
<1>3. c \in Drawings /\ c.nodes = d.nodes /\ c.entry = d.entry /\ c.edges = edges
  BY <1>2 DEF Drawings
<1>4. NodesOf(c) = NodesOf(d) /\ \A id : NodeOf(c, id) = NodeOf(d, id)
  BY <1>3 DEF NodesOf, NodeOf
<1>5. PortsAreNamed(c)
  BY <1>1, <1>3, <1>4 DEF PortsAreNamed, NamedEdges
<1>6. NodesFit(c) /\ Reads(c)
  BY <1>3, <1>4 DEF NodesFit, Reads
<1>7. Joins(c) /\ OneComesIn(c) /\ LinesDiffer(c)
  BY <1>2, <1>3, <1>4 DEF Joins, OneComesIn, LinesDiffer
<1>8. PortsAreNamed(d) => edges = d.edges
  BY <1>1 DEF PortsAreNamed, NamedEdges
<1>9. PortsAreNamed(d) => c = d
  BY <1>2, <1>8 DEF Drawings
<1> QED BY <1>3, <1>5, <1>6, <1>7, <1>9 DEF Drawn

\* Drawings with the same parts are the same.
LEMMA RowsSame ==
  ASSUME NEW r \in NodeRow, NEW s \in NodeRow, r.id = s.id, r.names = s.names,
         DOMAIN r.inputs = DOMAIN s.inputs, \A x \in DOMAIN s.inputs : r.inputs[x] = s.inputs[x]
  PROVE  r = s
<1>1. r.inputs \in Inputs /\ s.inputs \in Inputs
  BY DEF NodeRow
<1>2. r.inputs \in [DOMAIN r.inputs -> DrawnBindings] /\ s.inputs \in [DOMAIN s.inputs -> DrawnBindings]
  BY <1>1, InputsAre
<1>3. r.inputs = s.inputs
  BY <1>2
<1> QED BY <1>3 DEF NodeRow

LEMMA DrawingsSame ==
  ASSUME NEW d \in Drawings, NEW c \in Drawings, Relabelled(d, c), c.entry = d.entry,
         \A i \in DOMAIN d.nodes :
            /\ DOMAIN c.nodes[i].inputs = DOMAIN d.nodes[i].inputs
            /\ \A x \in DOMAIN d.nodes[i].inputs : c.nodes[i].inputs[x] = d.nodes[i].inputs[x]
  PROVE  c = d
<1>1. /\ DOMAIN c.nodes = DOMAIN d.nodes /\ c.nodes \in Seq(NodeRow) /\ d.nodes \in Seq(NodeRow)
      /\ c.edges = d.edges
  BY DrawingsAre DEF Relabelled
<1>2. ASSUME NEW i \in DOMAIN d.nodes PROVE c.nodes[i] = d.nodes[i]
  <2>1. c.nodes[i] \in NodeRow /\ d.nodes[i] \in NodeRow
    BY <1>1, DrawingsAre
  <2> QED BY <2>1, RowsSame DEF Relabelled
<1>3. c.nodes = d.nodes
  <2>1. Len(c.nodes) = Len(d.nodes) /\ DOMAIN d.nodes = 1..Len(d.nodes)
    BY <1>1, DrawingsAre
  <2> QED BY <2>1, <1>1, <1>2, SeqEqual
<1> QED BY <1>1, <1>3 DEF Drawings

\* What a repair makes of one input.
Mend(d, node, name) ==
    LET binding == node.inputs[name]
        gone == binding # Literal /\ binding.node \notin NodesOf(d)
    IN  IF gone /\ node.id[1] = "mean" /\ name = "value"
        THEN Output(FirstNode(d.nodes, "input"), "value")
        ELSE IF gone /\ node.id[1] = "condition" /\ name = "left"
        THEN Output(FirstNode(d.nodes, "mean"), "mean")
        ELSE binding

MendedRow(d, node) == [node EXCEPT !.inputs = [name \in DOMAIN @ |-> Mend(d, node, name)]]
Mended(d) == [d EXCEPT !.nodes = [i \in DOMAIN d.nodes |-> MendedRow(d, d.nodes[i])]]

LEMMA RepairedCases ==
  ASSUME NEW d
  PROVE  Repaired(d) = RepairedEdges(Mended(d))
BY DEF Repaired, Mended, MendedRow, Mend

LEMMA MendType ==
  ASSUME DrawingAssumption, NEW d \in Drawings, NEW node \in NodeRow, NEW name \in DOMAIN node.inputs,
         TakesFrom(node.inputs, NodesOf(d))
  PROVE  /\ Mend(d, node, name) \in DrawnBindings
         /\ \/ Mend(d, node, name) = Literal
            \/ Mend(d, node, name).node \in NodesOf(d) \cup {<<"input", 1>>, <<"mean", 1>>}
<1>1. node.inputs[name] \in DrawnBindings
  BY InputsAre DEF NodeRow
<1>2. \/ node.inputs[name] = Literal
      \/ node.inputs[name].node \in NodesOf(d) \cup {<<"input", 1>>, <<"mean", 1>>}
  BY DEF TakesFrom
<1>3. /\ Output(FirstNode(d.nodes, "input"), "value") \in DrawnBindings
      /\ Output(FirstNode(d.nodes, "input"), "value").node \in NodesOf(d) \cup {<<"input", 1>>, <<"mean", 1>>}
      /\ Output(FirstNode(d.nodes, "mean"), "mean") \in DrawnBindings
      /\ Output(FirstNode(d.nodes, "mean"), "mean").node \in NodesOf(d) \cup {<<"input", 1>>, <<"mean", 1>>}
  BY FirstIsKnown, OutputType
<1> QED BY <1>1, <1>2, <1>3 DEF Mend

LEMMA MendedRowIs ==
  ASSUME DrawingAssumption, NEW d \in Drawings, NEW node \in NodeRow,
         TakesFrom(node.inputs, NodesOf(d)), NEW r, r = MendedRow(d, node)
  PROVE  /\ r \in NodeRow /\ r.id = node.id /\ r.names = node.names
         /\ DOMAIN r.inputs = DOMAIN node.inputs
         /\ \A x \in DOMAIN node.inputs : r.inputs[x] = Mend(d, node, x)
         /\ TakesFrom(r.inputs, NodesOf(d))
<1>1. PICK f : f = [x \in DOMAIN node.inputs |-> Mend(d, node, x)]
  OBVIOUS
<1>2. DOMAIN f = DOMAIN node.inputs /\ \A x \in DOMAIN node.inputs : f[x] = Mend(d, node, x)
  BY <1>1
<1>3. f \in Inputs
  <2>1. node.inputs \in Inputs
    BY DEF NodeRow
  <2>2. DOMAIN node.inputs \in SUBSET InputNames
    BY <2>1, InputsAre
  <2>3. f \in [DOMAIN node.inputs -> DrawnBindings]
    BY <1>1, MendType
  <2> QED BY <2>2, <2>3, InputsType
<1>4. r = [node EXCEPT !.inputs = f]
  BY <1>1 DEF MendedRow
<1>5. r \in NodeRow /\ r.inputs = f /\ r.id = node.id /\ r.names = node.names
  BY <1>3, <1>4 DEF NodeRow
<1>6. TakesFrom(f, NodesOf(d))
  BY <1>2, MendType DEF TakesFrom
<1> QED BY <1>2, <1>5, <1>6

LEMMA MendedIs ==
  ASSUME DrawingAssumption, NEW d, Drawn(d), NEW c, c = Repaired(d)
  PROVE  /\ Drawn(c) /\ Relabelled(d, c) /\ c.entry = d.entry
         /\ \A i \in DOMAIN d.nodes :
               /\ DOMAIN c.nodes[i].inputs = DOMAIN d.nodes[i].inputs
               /\ \A x \in DOMAIN d.nodes[i].inputs : c.nodes[i].inputs[x] = Mend(d, d.nodes[i], x)
<1>1. /\ d \in Drawings /\ d.nodes \in Seq(NodeRow) /\ Len(d.nodes) \in Nat
      /\ DOMAIN d.nodes = 1..Len(d.nodes) /\ \A i \in DOMAIN d.nodes : d.nodes[i] \in NodeRow
  BY DrawingsAre DEF Drawn
<1>2. PICK nodes : nodes = [i \in DOMAIN d.nodes |-> MendedRow(d, d.nodes[i])]
  OBVIOUS
<1>3. \A i \in DOMAIN d.nodes :
        /\ nodes[i] \in NodeRow /\ nodes[i].id = d.nodes[i].id /\ nodes[i].names = d.nodes[i].names
        /\ DOMAIN nodes[i].inputs = DOMAIN d.nodes[i].inputs
        /\ \A x \in DOMAIN d.nodes[i].inputs : nodes[i].inputs[x] = Mend(d, d.nodes[i], x)
        /\ TakesFrom(nodes[i].inputs, NodesOf(d))
  <2> TAKE i \in DOMAIN d.nodes
  <2>1. TakesFrom(d.nodes[i].inputs, NodesOf(d))
    BY DEF Drawn, Reads
  <2>2. nodes[i] = MendedRow(d, d.nodes[i]) /\ d.nodes[i] \in NodeRow
    BY <1>1, <1>2
  <2> QED BY <2>1, <2>2, <1>1, MendedRowIs
<1>4. nodes \in Seq(NodeRow) /\ DOMAIN nodes = DOMAIN d.nodes
  <2>1. nodes \in [1..Len(d.nodes) -> NodeRow]
    BY <1>1, <1>2, <1>3
  <2> QED BY <2>1, <1>1, FunctionIsSeq
<1>5. PICK m : m = [d EXCEPT !.nodes = nodes]
  OBVIOUS
<1>6. m \in Drawings /\ m.nodes = nodes /\ m.entry = d.entry /\ m.edges = d.edges
  BY <1>1, <1>4, <1>5 DEF Drawings
<1>7. Relabelled(d, m)
  BY <1>3, <1>4, <1>6 DEF Relabelled
<1>8. Reads(m)
  BY <1>3, <1>4, <1>6, <1>7, RelabelNodes DEF Reads
<1>9. Drawn(m)
  BY <1>6, <1>7, <1>8, RelabelKeeps
<1>10. c = RepairedEdges(m)
  BY <1>2, <1>5, RepairedCases DEF Mended
<1>11. c = m
  BY <1>9, <1>10, RepairedEdgesKeep DEF Drawn
<1> QED BY <1>3, <1>6, <1>7, <1>9, <1>11

\* The first node of a type depends on the ids only.
LEMMA FirstSame ==
  ASSUME NEW d \in Drawings, NEW c, Relabelled(d, c), NEW t
  PROVE  FirstNode(c.nodes, t) = FirstNode(d.nodes, t)
<1>1. PICK found : found = {i \in DOMAIN d.nodes : d.nodes[i].id[1] = t}
  OBVIOUS
<1>2. found = {i \in DOMAIN c.nodes : c.nodes[i].id[1] = t}
  BY <1>1 DEF Relabelled
<1>3. found # {} => Min(found) \in found
  <2>1. found \in SUBSET Nat
    BY <1>1, DrawingsAre
  <2> QED BY <2>1, MinType
<1>4. FirstNode(c.nodes, t) = IF found = {} THEN <<t, 1>> ELSE c.nodes[Min(found)].id
  BY <1>2 DEF FirstNode
<1>5. FirstNode(d.nodes, t) = IF found = {} THEN <<t, 1>> ELSE d.nodes[Min(found)].id
  BY <1>1 DEF FirstNode
<1>6. found # {} => c.nodes[Min(found)].id = d.nodes[Min(found)].id
  BY <1>1, <1>3 DEF Relabelled
<1> QED BY <1>4, <1>5, <1>6

\* There is nothing left to repair afterwards.
LEMMA RepairedOnce ==
  ASSUME DrawingAssumption, NEW d, Drawn(d)
  PROVE  Repaired(Repaired(d)) = Repaired(d)
<1>1. PICK c : c = Repaired(d)
  OBVIOUS
<1>2. PICK e : e = Repaired(c)
  OBVIOUS
<1>3. Drawn(c) /\ Relabelled(d, c) /\ c.entry = d.entry /\ DOMAIN c.nodes = DOMAIN d.nodes
      /\ \A i \in DOMAIN d.nodes :
            /\ DOMAIN c.nodes[i].inputs = DOMAIN d.nodes[i].inputs
            /\ \A x \in DOMAIN d.nodes[i].inputs : c.nodes[i].inputs[x] = Mend(d, d.nodes[i], x)
  BY <1>1, MendedIs DEF Relabelled
<1>4. Drawn(e) /\ Relabelled(c, e) /\ e.entry = c.entry
      /\ \A i \in DOMAIN c.nodes :
            /\ DOMAIN e.nodes[i].inputs = DOMAIN c.nodes[i].inputs
            /\ \A x \in DOMAIN c.nodes[i].inputs : e.nodes[i].inputs[x] = Mend(c, c.nodes[i], x)
  BY <1>2, <1>3, MendedIs
<1>5. NodesOf(c) = NodesOf(d)
  BY <1>3, RelabelNodes
<1>6. /\ FirstNode(c.nodes, "input") = FirstNode(d.nodes, "input")
      /\ FirstNode(c.nodes, "mean") = FirstNode(d.nodes, "mean")
  BY <1>3, FirstSame DEF Drawn
<1>7. ASSUME NEW i \in DOMAIN c.nodes, NEW x \in DOMAIN c.nodes[i].inputs
      PROVE  Mend(c, c.nodes[i], x) = c.nodes[i].inputs[x]
  <2>1. c.nodes[i].inputs[x] = Mend(d, d.nodes[i], x) /\ c.nodes[i].id = d.nodes[i].id
    BY <1>3 DEF Relabelled
  <2> QED BY <2>1, <1>5, <1>6 DEF Mend
<1>8. e = c
  BY <1>3, <1>4, <1>7, DrawingsSame DEF Drawn
<1> QED BY <1>1, <1>2, <1>8

\* What compiles has nothing to repair.
LEMMA CompiledIsRepaired ==
  ASSUME DrawingAssumption, NEW d, Drawn(d), Compiles(d)
  PROVE  Repaired(d) = d
<1>1. PICK c : c = Repaired(d)
  OBVIOUS
<1>2. Drawn(c) /\ Relabelled(d, c) /\ c.entry = d.entry
      /\ \A i \in DOMAIN d.nodes :
            /\ DOMAIN c.nodes[i].inputs = DOMAIN d.nodes[i].inputs
            /\ \A x \in DOMAIN d.nodes[i].inputs : c.nodes[i].inputs[x] = Mend(d, d.nodes[i], x)
  BY <1>1, MendedIs
<1>3. ASSUME NEW i \in DOMAIN d.nodes, NEW x \in DOMAIN d.nodes[i].inputs
      PROVE  Mend(d, d.nodes[i], x) = d.nodes[i].inputs[x]
  <2>1. d.nodes[i].inputs[x] = Literal \/ d.nodes[i].inputs[x].node \in NodesOf(d)
    BY DEF Compiles, ReferencesAreKnown
  <2> QED BY <2>1 DEF Mend
<1>4. c = d
  BY <1>2, <1>3, DrawingsSame DEF Drawn
<1> QED BY <1>1, <1>4

-----------------------------------------------------------------------------
(***************************************************************************)
(* Drawing: every operation of the editor.                                 *)
(***************************************************************************)
LEMMA NodeInputs ==
  ASSUME NEW d, Drawn(d), NEW id \in NodesOf(d)
  PROVE  /\ NodeOf(d, id).inputs \in Inputs /\ TakesFrom(NodeOf(d, id).inputs, NodesOf(d))
         /\ id \in Ids
<1>1. PICK i \in DOMAIN d.nodes : NodeOf(d, id) = d.nodes[i] /\ d.nodes[i].id = id
  BY NodeOfNode, DrawingsAre DEF Drawn
<1>2. d.nodes[i] \in NodeRow
  BY DrawingsAre DEF Drawn
<1> QED BY <1>1, <1>2 DEF NodeRow, Drawn, Reads

\* One input is set, to what is there or is the first input or mean.
LEMMA InputTaken ==
  ASSUME NEW d, Drawn(d), NEW id \in NodesOf(d), NEW name \in InputNames, NEW b \in DrawnBindings,
         b = Literal \/ b.node \in NodesOf(d) \cup {<<"input", 1>>, <<"mean", 1>>}
  PROVE  Drawn(Rebound(d, id, Taking(NodeOf(d, id).inputs, name, b)))
<1>1. PICK inputs : inputs = NodeOf(d, id).inputs
  OBVIOUS
<1>2. inputs \in Inputs /\ TakesFrom(inputs, NodesOf(d))
  BY <1>1, NodeInputs
<1>3. PICK q : q = Taking(inputs, name, b)
  OBVIOUS
<1>4. q \in Inputs /\ TakesFrom(q, NodesOf(d))
  BY <1>2, <1>3, TakenIs
<1>5. Drawn(Rebound(d, id, q))
  BY <1>4, ReboundKeeps
<1> QED BY <1>1, <1>3, <1>5

LEMMA EdgeRemovedKeeps ==
  ASSUME NEW d, Drawn(d), NEW e, NEW c, c = [d EXCEPT !.edges = @ \ {e}]
  PROVE  Drawn(c)
<1>1. c \in Drawings /\ c.nodes = d.nodes /\ c.entry = d.entry /\ c.edges = d.edges \ {e}
  BY DEF Drawn, Drawings
<1>2. NodesOf(c) = NodesOf(d) /\ \A id : NodeOf(c, id) = NodeOf(d, id)
  BY <1>1 DEF NodesOf, NodeOf
<1>3. NodesFit(c) /\ Reads(c)
  BY <1>1, <1>2 DEF Drawn, NodesFit, Reads
<1>4. Joins(c) /\ OneComesIn(c) /\ LinesDiffer(c) /\ PortsAreNamed(c)
  BY <1>1, <1>2 DEF Drawn, Joins, OneComesIn, LinesDiffer, PortsAreNamed
<1> QED BY <1>1, <1>3, <1>4 DEF Drawn

RenamedRow(r, id, names) ==
    IF r.id = id
    THEN [r EXCEPT !.names = names, !.inputs = [x \in DOMAIN @ \cap ToSet(names) |-> @[x]]]
    ELSE r

LEMMA RenamedKeeps ==
  ASSUME NEW d, Drawn(d), NEW id, IsJoin(id[1]), NEW names \in NameLists, NEW c, c = Renamed(d, id, names)
  PROVE  Drawn(RepairedEdges(c))
<1>1. /\ d \in Drawings /\ d.nodes \in Seq(NodeRow) /\ Len(d.nodes) \in Nat
      /\ DOMAIN d.nodes = 1..Len(d.nodes) /\ \A i \in DOMAIN d.nodes : d.nodes[i] \in NodeRow
  BY DrawingsAre DEF Drawn
<1>2. PICK nodes : nodes = [i \in DOMAIN d.nodes |-> RenamedRow(d.nodes[i], id, names)]
  OBVIOUS
<1>3. c = [d EXCEPT !.nodes = nodes]
  BY <1>2 DEF Renamed, RenamedRow
<1>4. ASSUME NEW i \in DOMAIN d.nodes
      PROVE  /\ nodes[i] \in NodeRow /\ nodes[i].id = d.nodes[i].id
             /\ IsJoin(nodes[i].id[1]) => nodes[i].names \in NameLists
             /\ TakesFrom(nodes[i].inputs, NodesOf(d))
  <2>1. PICK r : r = d.nodes[i]
    OBVIOUS
  <2>2. r \in NodeRow /\ TakesFrom(r.inputs, NodesOf(d)) /\ (IsJoin(r.id[1]) => r.names \in NameLists)
    BY <2>1, <1>1 DEF Drawn, Reads, NodesFit
  <2>3. CASE r.id # id
    <3>1. nodes[i] = r
      BY <2>1, <2>3, <1>2 DEF RenamedRow
    <3> QED BY <3>1, <2>1, <2>2
  <2>4. CASE r.id = id
    <3>1. PICK f : f = [x \in DOMAIN r.inputs \cap ToSet(names) |-> r.inputs[x]]
      OBVIOUS
    <3>2. r.inputs \in Inputs /\ DOMAIN r.inputs \cap ToSet(names) \in SUBSET DOMAIN r.inputs
      BY <2>2 DEF NodeRow
    <3>3. f \in Inputs /\ TakesFrom(f, NodesOf(d))
      BY <2>2, <3>1, <3>2, RestrictedIs
    <3>4. nodes[i] = [r EXCEPT !.names = names, !.inputs = f]
      BY <2>1, <2>4, <3>1, <1>2 DEF RenamedRow
    <3>5. nodes[i] \in NodeRow /\ nodes[i].id = r.id /\ nodes[i].names = names /\ nodes[i].inputs = f
      BY <2>2, <3>3, <3>4 DEF NodeRow
    <3> QED BY <3>3, <3>5, <2>1
  <2> QED BY <2>3, <2>4
<1>5. nodes \in Seq(NodeRow) /\ DOMAIN nodes = DOMAIN d.nodes /\ Len(nodes) = Len(d.nodes)
  <2>1. nodes \in [1..Len(d.nodes) -> NodeRow]
    BY <1>1, <1>2, <1>4
  <2>2. nodes \in Seq(NodeRow) /\ DOMAIN nodes = 1..Len(d.nodes)
    BY <2>1, <1>1, FunctionIsSeq
  <2> QED BY <2>2, <1>1
<1>6. c \in Drawings /\ c.nodes = nodes /\ c.entry = d.entry /\ c.edges = d.edges
  BY <1>1, <1>3, <1>5 DEF Drawings
<1>7. NodesOf(c) = NodesOf(d)
  BY <1>4, <1>5, <1>6 DEF NodesOf
<1>8. NodesFit(c)
  BY <1>4, <1>5, <1>6 DEF NodesFit, Drawn
<1>9. Reads(c)
  BY <1>4, <1>5, <1>6, <1>7 DEF Reads
<1>10. Joins(c) /\ OneComesIn(c) /\ LinesDiffer(c)
  BY <1>6, <1>7 DEF Drawn, Joins, OneComesIn, LinesDiffer
<1> QED BY <1>6, <1>8, <1>9, <1>10, RepairedEdgesKeep

LEMMA DrawingStarts == ASSUME DrawingAssumption, DrawingInit PROVE DrawingInv
<1>1. <<"input", 1>> \in Ids
  BY DEF Ids, NodeTypes, DrawingAssumption
<1>2. /\ drawing.entry = <<"input", 1>> /\ drawing.nodes = << >> /\ drawing.edges = {}
      /\ drawing \in Drawings
  BY <1>1 DEF DrawingInit, EmptyDefinition, Drawings
<1>3. DOMAIN drawing.nodes = {} /\ Len(drawing.nodes) = 0
  BY <1>2
<1>4. NodesFit(drawing) /\ Joins(drawing) /\ Reads(drawing) /\ OneComesIn(drawing)
      /\ LinesDiffer(drawing) /\ PortsAreNamed(drawing)
  BY <1>2, <1>3 DEF NodesFit, Joins, Reads, OneComesIn, LinesDiffer, PortsAreNamed, DrawingAssumption
<1> QED BY <1>2, <1>4 DEF DrawingInv, Drawn, DrawingInit, DrawingAssumption

LEMMA DrawKeeps ==
  ASSUME DrawingAssumption, DrawingInv, NEW d, Draw(d), Drawn(d)
  PROVE  DrawingInv'
<1>1. drawing' = d /\ edits' = edits + 1 /\ edits' \in 0..MaxEdits
  BY DEF Draw, DrawingInv, DrawingAssumption
<1>2. Drawn(drawing')
  BY <1>1
<1>3. DrawingInv' <=> Drawn(drawing') /\ edits' \in 0..MaxEdits
  BY DEF DrawingInv, Drawn, NodesFit, Joins, Reads, OneComesIn, LinesDiffer, PortsAreNamed
<1> QED BY <1>1, <1>2, <1>3

LEMMA InputBound ==
  ASSUME DrawingAssumption, DrawingInv, NEW id \in NodesOf(drawing), NEW source \in NodesOf(drawing),
         NEW name \in JoinNames \cup FieldNames, BindInput(id, name, source)
  PROVE  DrawingInv'
<1>1. PICK inputs : inputs = NodeOf(drawing, id).inputs
  OBVIOUS
<1>2. PICK b \in {OutputFrom(source), Literal, Output(FirstNode(drawing.nodes, "input"), "value")} :
        Draw(Rebound(drawing, id, Taking(inputs, name, b)))
  BY <1>1 DEF BindInput
<1>3. b \in DrawnBindings
      /\ (b = Literal \/ b.node \in NodesOf(drawing) \cup {<<"input", 1>>, <<"mean", 1>>})
  <2>1. source \in Ids /\ Literal \in DrawnBindings
    BY NodeInputs DEF DrawingInv, DrawnBindings
  <2>2. CASE b = OutputFrom(source)
    BY <2>1, <2>2, OutputType
  <2>3. CASE b = Literal
    BY <2>1, <2>3
  <2>4. CASE b = Output(FirstNode(drawing.nodes, "input"), "value")
    BY <2>4, FirstIsKnown, OutputType DEF DrawingInv, Drawn
  <2> QED BY <1>2, <2>2, <2>3, <2>4
<1>4. name \in InputNames
  BY DEF InputNames
<1>5. Drawn(Rebound(drawing, id, Taking(inputs, name, b)))
  BY <1>1, <1>3, <1>4, InputTaken DEF DrawingInv
<1> QED BY <1>2, <1>5, DrawKeeps

LEMMA FieldAdded ==
  ASSUME DrawingAssumption, DrawingInv, NEW id \in NodesOf(drawing), NEW name \in FieldNames,
         AddField(id, name)
  PROVE  DrawingInv'
<1>1. PICK inputs : inputs = NodeOf(drawing, id).inputs
  OBVIOUS
<1>2. PICK others : others = Remaining(drawing.nodes, {id})
  OBVIOUS
<1>3. PICK b : b = IF others = << >> THEN Literal ELSE OutputFrom(Last(others).id)
  OBVIOUS
<1>4. Draw(Rebound(drawing, id, Taking(inputs, name, b)))
  BY <1>1, <1>2, <1>3 DEF AddField
<1>5. b \in DrawnBindings /\ (b = Literal \/ b.node \in NodesOf(drawing))
  <2>1. CASE others = << >>
    BY <1>3, <2>1 DEF DrawnBindings
  <2>2. CASE others # << >>
    <3>1. drawing.nodes \in Seq(NodeRow) /\ DOMAIN drawing.nodes = 1..Len(drawing.nodes)
      BY DrawingsAre DEF DrawingInv, Drawn
    <3>2. KeptTo(others, drawing.nodes, {id}, Len(drawing.nodes))
      BY <1>2, <3>1, KeptIs
    <3>3. others \in Seq(NodeRow) /\ Len(others) \in DOMAIN others
      BY <2>2, <3>2, EmptySeq DEF KeptTo
    <3>4. PICK j \in DOMAIN drawing.nodes : others[Len(others)] = drawing.nodes[j]
      BY <3>1, <3>2, <3>3 DEF KeptTo
    <3>5. Last(others).id \in NodesOf(drawing)
      BY <3>4 DEF Last, NodesOf
    <3>6. Last(others).id \in Ids
      BY <3>5, NodeInputs DEF DrawingInv
    <3> QED BY <1>3, <2>2, <3>5, <3>6, OutputType
  <2> QED BY <2>1, <2>2
<1>6. name \in InputNames
  BY DEF InputNames
<1>7. Drawn(Rebound(drawing, id, Taking(inputs, name, b)))
  BY <1>1, <1>5, <1>6, InputTaken DEF DrawingInv
<1> QED BY <1>4, <1>7, DrawKeeps

LEMMA FieldRemoved ==
  ASSUME DrawingAssumption, DrawingInv, NEW id \in NodesOf(drawing), NEW name, RemoveField(id, name)
  PROVE  DrawingInv'
<1>1. PICK inputs : inputs = NodeOf(drawing, id).inputs
  OBVIOUS
<1>2. PICK f : f = [x \in DOMAIN inputs \ {name} |-> inputs[x]]
  OBVIOUS
<1>3. Draw(Rebound(drawing, id, f))
  BY <1>1, <1>2 DEF RemoveField
<1>4. inputs \in Inputs /\ TakesFrom(inputs, NodesOf(drawing))
  BY <1>1, NodeInputs DEF DrawingInv
<1>5. DOMAIN inputs \ {name} \in SUBSET DOMAIN inputs
  OBVIOUS
<1>6. f \in Inputs /\ TakesFrom(f, NodesOf(drawing))
  BY <1>2, <1>4, <1>5, RestrictedIs
<1>7. Drawn(Rebound(drawing, id, f))
  BY <1>6, ReboundKeeps DEF DrawingInv
<1> QED BY <1>3, <1>7, DrawKeeps

LEMMA FieldRenamed ==
  ASSUME DrawingAssumption, DrawingInv, NEW id \in NodesOf(drawing),
         NEW from \in FieldNames, NEW to \in FieldNames, RenameField(id, from, to)
  PROVE  DrawingInv'
<1>1. PICK inputs : inputs = NodeOf(drawing, id).inputs
  OBVIOUS
<1> DEFINE D == (DOMAIN inputs \ {from}) \cup {to}
<1>2. PICK f : f = [x \in D |-> inputs[IF x = to THEN from ELSE x]]
  OBVIOUS
<1>3. Draw(Rebound(drawing, id, f)) /\ from \in DOMAIN inputs
  BY <1>1, <1>2 DEF RenameField
<1>4. inputs \in Inputs /\ TakesFrom(inputs, NodesOf(drawing))
  BY <1>1, NodeInputs DEF DrawingInv
<1>5. DOMAIN inputs \subseteq InputNames /\ \A x \in DOMAIN inputs : inputs[x] \in DrawnBindings
  BY <1>4, InputsAre
<1>6. \A x \in D : (IF x = to THEN from ELSE x) \in DOMAIN inputs
  BY <1>3
<1>7. D \in SUBSET InputNames /\ f \in [D -> DrawnBindings]
  BY <1>2, <1>5, <1>6 DEF InputNames
<1>8. f \in Inputs
  BY <1>7, InputsType
<1>9. TakesFrom(f, NodesOf(drawing))
  BY <1>2, <1>4, <1>6 DEF TakesFrom
<1>10. Drawn(Rebound(drawing, id, f))
  BY <1>8, <1>9, ReboundKeeps DEF DrawingInv
<1> QED BY <1>3, <1>10, DrawKeeps

LEMMA DrawingStands == ASSUME DrawingInv, UNCHANGED drawingVars PROVE DrawingInv'
<1>1. PICK d : d = drawing
  OBVIOUS
<1>2. drawing' = d /\ drawing = d /\ edits' = edits
  BY <1>1 DEF drawingVars
<1>3. Drawn(d) /\ edits \in 0..MaxEdits
  BY <1>2 DEF DrawingInv
<1> QED BY <1>2, <1>3 DEF DrawingInv

LEMMA DrawingKept ==
  ASSUME DrawingAssumption, DrawingInv, DrawingNext
  PROVE  DrawingInv'
<1>1. ASSUME NEW t \in NodeTypes, AddNode(t) PROVE DrawingInv'
  <2>1. Drawn(Added(drawing, t))
    BY <1>1, AddedKeeps DEF AddNode, DrawingInv
  <2> QED BY <1>1, <2>1, DrawKeeps DEF AddNode
<1>2. ASSUME NEW s \in NodesOf(drawing), NEW t \in NodesOf(drawing),
             NEW port \in {"success", "true", "false"}, NEW at \in JoinNames \cup {"in"},
             Connect(s, port, t, at)
      PROVE  DrawingInv'
  <2>1. Connectable(drawing, s, port, t, at)
    <3>1. at \in TargetPorts(NodeOf(drawing, t))
      BY <1>2 DEF Connect
    <3>2. IsJoin(t[1]) => at \in ToSet(NodeOf(drawing, t).names)
      BY <3>1, PortsType DEF DrawingInv
    <3> QED BY <3>2 DEF Connectable
  <2>2. Drawn(Connected(drawing, s, port, t, at))
    BY <2>1, ConnectedKeeps DEF DrawingInv
  <2> QED BY <1>2, <2>2, DrawKeeps DEF Connect
<1>3. ASSUME NEW gone \in SUBSET NodesOf(drawing), RemoveNodes(gone) PROVE DrawingInv'
  <2>1. Drawn(Without(drawing, gone))
    BY WithoutKeeps DEF DrawingInv
  <2> QED BY <1>3, <2>1, DrawKeeps DEF RemoveNodes
<1>4. ASSUME NEW e \in drawing.edges, RemoveEdge(e) PROVE DrawingInv'
  <2>1. PICK c : c = [drawing EXCEPT !.edges = @ \ {e}]
    OBVIOUS
  <2>2. Drawn(c) /\ Draw(c)
    BY <1>4, <2>1, EdgeRemovedKeeps DEF DrawingInv, RemoveEdge
  <2> QED BY <2>2, DrawKeeps
<1>5. ASSUME NEW id \in NodesOf(drawing), NEW names \in NameLists, SetJoinNames(id, names)
      PROVE  DrawingInv'
  <2>1. PICK c : c = Renamed(drawing, id, names)
    OBVIOUS
  <2>2. Drawn(RepairedEdges(c))
    BY <1>5, <2>1, RenamedKeeps DEF DrawingInv, SetJoinNames
  <2>3. Draw(RepairedEdges(c))
    BY <1>5, <2>1 DEF SetJoinNames
  <2> QED BY <2>2, <2>3, DrawKeeps
<1>6. ASSUME Repair PROVE DrawingInv'
  <2>1. Drawn(Repaired(drawing))
    BY MendedIs DEF DrawingInv
  <2> QED BY <1>6, <2>1, DrawKeeps DEF Repair
<1> QED BY <1>1, <1>2, <1>3, <1>4, <1>5, <1>6, InputBound, FieldAdded, FieldRemoved, FieldRenamed
        DEF DrawingNext

LEMMA DrawingTypes == ASSUME DrawingAssumption, DrawingInv PROVE DrawingTypeOK
<1>1. /\ drawing.entry \in Ids /\ drawing.edges \in SUBSET Edges
      /\ \A i \in DOMAIN drawing.nodes : drawing.nodes[i] \in NodeRow
  BY DrawingsAre DEF DrawingInv, Drawn
<1>2. Len(drawing.nodes) <= MaxNodes /\ edits \in 0..MaxEdits
  BY DEF DrawingInv, Drawn, NodesFit
<1>3. ASSUME NEW i \in DOMAIN drawing.nodes
      PROVE  LET node == drawing.nodes[i]
             IN  /\ node.id \in Ids
                 /\ DOMAIN node.inputs \subseteq JoinNames \cup FieldNames \cup {"left"}
                 /\ \A name \in DOMAIN node.inputs : node.inputs[name] \in DrawnBindings
                 /\ node.names \in NameLists \cup {<< >>}
  <2>1. PICK node \in NodeRow : node = drawing.nodes[i]
    BY <1>1
  <2>2. node.inputs \in Inputs /\ node.id \in Ids /\ node.names \in NameLists \cup {<< >>}
    BY DEF NodeRow
  <2>3. DOMAIN node.inputs \subseteq InputNames
        /\ \A name \in DOMAIN node.inputs : node.inputs[name] \in DrawnBindings
    BY <2>2, InputsAre
  <2> QED BY <2>1, <2>2, <2>3 DEF InputNames
<1> QED BY <1>1, <1>2, <1>3 DEF DrawingTypeOK

LEMMA DrawnSound ==
  ASSUME DrawingAssumption, DrawingInv
  PROVE  NothingDangles /\ EdgesAreSingle /\ RepairKeeps
<1>1. NothingDangles
  BY DEF NothingDangles, DrawingInv, Drawn, Joins, Reads, TakesFrom
<1>2. EdgesAreSingle
  <2> SUFFICES ASSUME NEW e \in drawing.edges, NEW f \in drawing.edges
               PROVE  /\ SameInbound(f, e.target, e.at) => e = f
                      /\ [e EXCEPT !.at = "in"] = [f EXCEPT !.at = "in"] => e = f
                      /\ IsJoin(e.target[1]) => e.at \in ToSet(NodeOf(drawing, e.target).names)
    BY DEF EdgesAreSingle
  <2>1. e \in Edges /\ f \in Edges
    BY DrawingsAre DEF DrawingInv, Drawn
  <2>2. ASSUME [e EXCEPT !.at = "in"] = [f EXCEPT !.at = "in"] PROVE e = f
    <3>1. [e EXCEPT !.at = "in"].source = e.source /\ [f EXCEPT !.at = "in"].source = f.source
          /\ [e EXCEPT !.at = "in"].port = e.port /\ [f EXCEPT !.at = "in"].port = f.port
          /\ [e EXCEPT !.at = "in"].target = e.target /\ [f EXCEPT !.at = "in"].target = f.target
          /\ [e EXCEPT !.at = "in"].n = e.n /\ [f EXCEPT !.at = "in"].n = f.n
      BY <2>1 DEF Edges
    <3>2. e.source = f.source /\ e.port = f.port /\ e.target = f.target /\ e.n = f.n
      BY <2>2, <3>1
    <3> QED BY <3>2 DEF DrawingInv, Drawn, LinesDiffer
  <2> QED BY <2>2 DEF DrawingInv, Drawn, OneComesIn, PortsAreNamed
<1>3. RepairKeeps
  BY RepairedOnce, CompiledIsRepaired DEF RepairKeeps, DrawingInv
<1> QED BY <1>1, <1>2, <1>3

-----------------------------------------------------------------------------
(***************************************************************************)
(* Drawing: a drawing that compiles goes on compiling with a map at its    *)
(* end.                                                                    *)
(***************************************************************************)
Inbound(d, id) == {e \in d.edges : e.target = id}
Had(d, known, id) ==
    IF Inbound(d, id) = {} \/ id = d.entry THEN {}
    ELSE {m \in NodesOf(d) : \A e \in Inbound(d, id) :
             m \in known[e.source] \/ (m = e.source /\ ~IsJoin(id[1]))}
KnownBy(f, d) ==
    f = [k \in 0..Len(d.nodes) |->
            IF k = 0 THEN [id \in NodesOf(d) |-> {}]
            ELSE [id \in NodesOf(d) |-> Had(d, f[k - 1], id)]]

LEMMA AvailableChosen ==
  ASSUME NEW d
  PROVE  Available(d) = (CHOOSE f : KnownBy(f, d))[Len(d.nodes)]
BY DEF Available, KnownBy, Had, Inbound

\* What is available is found in as many rounds as there are nodes.
Rounds(h, d) ==
    /\ Available(d) = h[Len(d.nodes)]
    /\ \A id \in NodesOf(d) : h[0][id] = {}
    /\ \A k \in 1..Len(d.nodes) : \A id \in NodesOf(d) : h[k][id] = Had(d, h[k - 1], id)

LEMMA AvailableIs ==
  ASSUME NEW d, d.nodes \in Seq(NodeRow)
  PROVE  \E h : Rounds(h, d)
<1> DEFINE n == Len(d.nodes)
           N == NodesOf(d)
           S == [N -> SUBSET N]
           Onward(q) == [id \in N |-> Had(d, q, id)]
           g == [k \in 1..n |-> [q \in S |-> Onward(q)]]
           none == [id \in N |-> {}]
<1>1. n \in Nat
  OBVIOUS
<1>2. \A q \in S : Onward(q) \in S
  BY DEF Had
<1>3. none \in S
  OBVIOUS
<1> HIDE DEF Onward, none
<1>4. PICK f \in [0..n -> S] : f[0] = none /\ \A k \in 1..n : f[k] = Onward(f[k - 1])
  <2>1. g \in [1..n -> [S -> S]]
    BY <1>2
  <2>2. Hops(S, none, g, n)
    <3> HIDE DEF g, S, n
    <3> QED BY <2>1, <1>1, <1>3, HopsExist
  <2>3. ASSUME NEW f \in [0..n -> S], NEW k \in 1..n PROVE g[k][f[k - 1]] = Onward(f[k - 1])
    <3>1. k - 1 \in 0..n
      BY <1>1
    <3>2. f[k - 1] \in S
      <4> HIDE DEF S
      <4> QED BY <3>1
    <3> QED BY <3>2
  <2> HIDE DEF g, S, n
  <2> QED BY <2>2, <2>3 DEF Hops
<1> HIDE DEF S
<1>5. KnownBy(f, d)
  <2>1. \A k \in 0..n : f[k] = IF k = 0 THEN none ELSE Onward(f[k - 1])
    <3>1. \A k \in 0..n : k = 0 \/ k \in 1..n
      BY <1>1
    <3> HIDE DEF n
    <3> QED BY <3>1, <1>4
  <2>2. f = [k \in 0..n |-> f[k]]
    OBVIOUS
  <2> QED BY <2>1, <2>2 DEF KnownBy, Onward, none
<1>6. PICK h : KnownBy(h, d) /\ Available(d) = h[n]
  BY <1>5, AvailableChosen
<1>7. h[0] = none /\ \A k \in 1..n : h[k] = Onward(h[k - 1])
  <2>1. h = [k \in 0..n |-> IF k = 0 THEN none ELSE Onward(h[k - 1])]
    BY <1>6 DEF KnownBy, Onward, none
  <2>2. \A k \in 0..n : h[k] = IF k = 0 THEN none ELSE Onward(h[k - 1])
    BY <2>1
  <2>3. 0 \in 0..n /\ \A k \in 1..n : k \in 0..n /\ k # 0
    BY <1>1
  <2> HIDE DEF n
  <2> QED BY <2>2, <2>3
<1>8. \A id \in N : h[0][id] = {}
  BY <1>7 DEF none
<1>9. \A k \in 1..n : \A id \in N : h[k][id] = Had(d, h[k - 1], id)
  BY <1>7 DEF Onward
<1> QED BY <1>6, <1>8, <1>9 DEF Rounds

\* c is d with a map after the node that the edge x leaves, which reads its output.
Chained(d, c, id, x) ==
    /\ Drawn(d) /\ Drawn(c) /\ c.entry = d.entry
    /\ NodesOf(c) = NodesOf(d) \cup {id} /\ id \notin NodesOf(d) /\ id[1] = "map"
    /\ c.edges = d.edges \cup {x} /\ x.source \in NodesOf(d) /\ x.target = id
    /\ x.at = "in" /\ x.port \in SourcePorts(x.source[1])
    /\ Len(c.nodes) = Len(d.nodes) + 1
    /\ \A i \in DOMAIN d.nodes : i \in DOMAIN c.nodes /\ c.nodes[i] = d.nodes[i]
    /\ c.nodes[Len(d.nodes) + 1].id = id
    /\ c.nodes[Len(d.nodes) + 1].inputs = [name \in {"value"} |-> OutputFrom(x.source)]
    /\ \A y \in NodesOf(d) : NodeOf(c, y) = NodeOf(d, y)
    /\ NodeOf(c, id).id = id

LEMMA MapIsChained ==
  ASSUME DrawingAssumption, NEW d, Drawn(d), d.nodes # << >>, d.entry = Head(d.nodes).id,
         Len(d.nodes) < MaxNodes
  PROVE  \E id, x : Chained(d, Added(d, "map"), id, x)
<1>1. PICK id : id = NextNodeId(d, "map")
  OBVIOUS
<1>2. PICK new : new = Grown(d, "map")
  OBVIOUS
<1>3. PICK node : node = DefaultNode("map", id, d.nodes)
  OBVIOUS
<1>4. PICK s : s = Last(d.nodes).id
  OBVIOUS
<1>5. PICK c : c = Added(d, "map")
  OBVIOUS
<1>6. "map" \in NodeTypes /\ ~ IsJoin("map")
  BY DEF NodeTypes, IsJoin
<1>7. c = Connected(new, s, SourcePort(s[1]), id, "in")
  BY <1>1, <1>2, <1>4, <1>5, <1>6, AddedCases
<1>8. /\ Drawn(new) /\ NodesOf(new) = NodesOf(d) \cup {id} /\ id \notin NodesOf(d) /\ id[1] = "map"
      /\ NodeOf(new, id) = node /\ \A y \in NodesOf(d) : NodeOf(new, y) = NodeOf(d, y)
      /\ new.edges = d.edges
      /\ node.id = id /\ node.inputs = WiredInputs("map", d.nodes)
      /\ new.entry = d.entry
      /\ \A i \in DOMAIN d.nodes : i \in DOMAIN new.nodes /\ new.nodes[i] = d.nodes[i]
      /\ new.nodes[Len(d.nodes) + 1] = node /\ Len(new.nodes) = Len(d.nodes) + 1
  BY <1>1, <1>2, <1>3, <1>6, GrownKeeps
<1>9. d.nodes \in Seq(NodeRow) /\ Len(d.nodes) \in DOMAIN d.nodes
  BY DrawingsAre, EmptySeq DEF Drawn
<1>10. s \in NodesOf(d)
  BY <1>4, <1>9 DEF Last, NodesOf
<1>11. ~ \E e \in new.edges : SameInbound(e, id, "in")
  BY <1>8 DEF SameInbound, Drawn, Joins
<1>12. Connectable(new, s, SourcePort(s[1]), id, "in")
  BY <1>6, <1>8, <1>10, SourcePortType DEF Connectable
<1>13. PICK n : n = EdgeNumber(new, s, SourcePort(s[1]), id)
  OBVIOUS
<1>14. n \in 1..2
       /\ ~ \E e \in new.edges : /\ e.source = s /\ e.port = SourcePort(s[1]) /\ e.target = id
                                 /\ e.n = n
  BY <1>8, <1>11, <1>12, <1>13, NumberIsFree
<1>15. PICK x : x = [source |-> s, port |-> SourcePort(s[1]), target |-> id, at |-> "in", n |-> n]
  OBVIOUS
<1>16. c = [new EXCEPT !.edges = @ \cup {x}]
  BY <1>6, <1>7, <1>8, <1>11, <1>13, <1>15, ConnectedCases
<1>17. c = [new EXCEPT !.edges = @ \cup {[source |-> s, port |-> SourcePort(s[1]), target |-> id,
                                         at |-> "in", n |-> n]}]
  BY <1>15, <1>16
<1>18. Drawn(c) /\ NodesOf(c) = NodesOf(new) /\ c.nodes = new.nodes /\ c.entry = new.entry
  BY <1>8, <1>11, <1>12, <1>14, <1>17, EdgeKeeps
<1>19. c.edges = d.edges \cup {x}
  BY <1>8, <1>16 DEF Drawn, Drawings
<1>20. \A y : NodeOf(c, y) = NodeOf(new, y)
  BY <1>18 DEF NodeOf
<1>21. node.inputs = [name \in {"value"} |-> OutputFrom(s)]
  BY <1>4, <1>8 DEF WiredInputs
<1>22. /\ x.source = s /\ x.target = id /\ x.at = "in" /\ x.port \in SourcePorts(s[1])
  BY <1>15, SourcePortType
<1>23. Chained(d, c, id, x)
  BY <1>8, <1>10, <1>18, <1>19, <1>20, <1>21, <1>22 DEF Chained
<1> QED BY <1>5, <1>23

\* The new node follows whatever the edge leaves, and nothing follows it.
LEMMA ReachedInChain ==
  ASSUME NEW d, NEW c, NEW id, NEW x, Chained(d, c, id, x), NEW S \in SUBSET NodesOf(d)
  PROVE  /\ Reached(c, S) \subseteq Reached(d, S) \cup {id}
         /\ Reached(d, S) \subseteq Reached(c, S)
         /\ x.source \in Reached(d, S) => id \in Reached(c, S)
<1>1. d.nodes \in Seq(NodeRow) /\ Joins(d) /\ c.nodes \in Seq(NodeRow) /\ Joins(c)
      /\ S \in SUBSET NodesOf(c)
  BY DrawingsAre DEF Chained, Drawn
<1>2. PICK R : R = Reached(d, S)
  OBVIOUS
<1>3. PICK Q : Q = Reached(c, S)
  OBVIOUS
<1>4. S \subseteq R /\ Follows(d, R) /\ R \subseteq NodesOf(d)
      /\ \A C : S \subseteq C /\ Follows(d, C) => R \subseteq C
  BY <1>1, <1>2, ReachedIs
<1>5. S \subseteq Q /\ Follows(c, Q) /\ \A C : S \subseteq C /\ Follows(c, C) => Q \subseteq C
  BY <1>1, <1>3, ReachedIs
<1>6. Follows(c, R \cup {id})
  <2>1. \A e \in c.edges : e.source # id
    BY <1>1 DEF Chained, Joins
  <2> QED BY <2>1, <1>4 DEF Follows, Chained
<1>7. Q \subseteq R \cup {id}
  BY <1>4, <1>5, <1>6
<1>8. Follows(d, Q)
  BY <1>5 DEF Follows, Chained
<1>9. R \subseteq Q
  BY <1>4, <1>5, <1>8
<1>10. x.source \in R => id \in Q
  BY <1>5, <1>9 DEF Follows, Chained
<1> QED BY <1>2, <1>3, <1>7, <1>9, <1>10

LEMMA ChainIsAcyclic ==
  ASSUME NEW d, NEW c, NEW id, NEW x, Chained(d, c, id, x), IsAcyclic(d)
  PROVE  IsAcyclic(c)
<1> DEFINE Onward(b, y) == {e.target : e \in {f \in b.edges : f.source = y}}
<1>1. Joins(d) /\ Joins(c) /\ c.nodes \in Seq(NodeRow) /\ d.nodes \in Seq(NodeRow)
  BY DrawingsAre DEF Chained, Drawn
<1>2. SUFFICES ASSUME NEW y \in NodesOf(c) PROVE y \notin Reached(c, Onward(c, y))
  BY DEF IsAcyclic
<1>3. CASE y = id
  <2>1. Onward(c, y) = {}
    BY <1>1, <1>3 DEF Chained, Joins
  <2>2. {} \in SUBSET NodesOf(c) /\ Follows(c, {})
    BY DEF Follows
  <2>3. Reached(c, {}) \subseteq {}
    BY <1>1, <2>2, ReachedIs
  <2> QED BY <2>1, <2>3
<1>4. CASE y # id
  <2>1. y \in NodesOf(d)
    BY <1>4 DEF Chained
  <2>2. PICK S : S = Onward(d, y)
    OBVIOUS
  <2>3. S \in SUBSET NodesOf(d) /\ y \notin Reached(d, S)
    BY <1>1, <2>1, <2>2 DEF IsAcyclic, Joins
  <2>4. PICK Q : Q = Onward(c, y)
    OBVIOUS
  <2>5. Q \subseteq S \cup {id} /\ Q \in SUBSET NodesOf(c)
    BY <2>2, <2>3, <2>4 DEF Chained
  <2>6. /\ S \subseteq Reached(d, S) /\ Follows(d, Reached(d, S))
    BY <1>1, <2>3, ReachedIs
  <2>7. Follows(c, Reached(d, S) \cup {id})
    <3>1. \A e \in c.edges : e.source # id
      BY <1>1 DEF Chained, Joins
    <3> QED BY <3>1, <2>6 DEF Follows, Chained
  <2>8. Reached(c, Q) \subseteq Reached(d, S) \cup {id}
    <3>1. Q \subseteq Reached(d, S) \cup {id}
      BY <2>5, <2>6
    <3> QED BY <3>1, <2>5, <2>7, <1>1, ReachedIs
  <2> QED BY <2>3, <2>4, <2>8, <1>4
<1> QED BY <1>3, <1>4

\* What was available at a node still is, and the node before is at the new one.
LEMMA AvailableInChain ==
  ASSUME NEW d, NEW c, NEW id, NEW x, Chained(d, c, id, x), d.entry \in NodesOf(d)
  PROVE  /\ \A y \in NodesOf(d) : Available(d)[y] \subseteq Available(c)[y]
         /\ x.source \in Available(c)[id]
<1> DEFINE n == Len(d.nodes)
<1>1. /\ d.nodes \in Seq(NodeRow) /\ c.nodes \in Seq(NodeRow) /\ n \in Nat /\ Len(c.nodes) = n + 1
      /\ Joins(d)
  BY DrawingsAre DEF Chained, Drawn
<1>11. PICK f : Rounds(f, d)
  BY <1>1, AvailableIs
<1>2. /\ Available(d) = f[n] /\ \A y \in NodesOf(d) : f[0][y] = {}
      /\ \A k \in 1..n : \A y \in NodesOf(d) : f[k][y] = Had(d, f[k - 1], y)
  BY <1>11 DEF Rounds
<1>12. PICK h : Rounds(h, c)
  BY <1>1, AvailableIs
<1> HIDE DEF n
<1>3. /\ Available(c) = h[n + 1] /\ \A y \in NodesOf(c) : h[0][y] = {}
      /\ \A k \in 1..(n + 1) : \A y \in NodesOf(c) : h[k][y] = Had(c, h[k - 1], y)
  BY <1>1, <1>12 DEF Rounds
<1>4. \A y \in NodesOf(d) : Inbound(c, y) = Inbound(d, y)
  BY DEF Inbound, Chained
<1>5. ASSUME NEW p, NEW q, \A y \in NodesOf(d) : p[y] \subseteq q[y], NEW y \in NodesOf(d)
      PROVE  Had(d, p, y) \subseteq Had(c, q, y)
  <2>1. \A e \in Inbound(d, y) : e.source \in NodesOf(d)
    BY <1>1 DEF Inbound, Joins
  <2> QED BY <1>4, <1>5, <2>1 DEF Had, Chained
<1> DEFINE G == {k \in 0..n : \A y \in NodesOf(d) : f[k][y] \subseteq h[k + 1][y]}
<1>6. 0 \in G
  BY <1>1, <1>2
<1>7. ASSUME NEW k \in 1..n, k - 1 \in G PROVE k \in G
  <2>1. \A y \in NodesOf(d) : f[k - 1][y] \subseteq h[(k - 1) + 1][y]
    BY <1>7
  <2>2. (k - 1) + 1 = k /\ k + 1 \in 1..(n + 1) /\ (k + 1) - 1 = k /\ k \in 0..n
    BY <1>1
  <2>3. \A y \in NodesOf(d) : f[k - 1][y] \subseteq h[k][y]
    BY <2>1, <2>2
  <2>4. \A y \in NodesOf(d) : Had(d, f[k - 1], y) \subseteq Had(c, h[k], y)
    BY <2>3, <1>5
  <2>5. \A y \in NodesOf(d) : f[k][y] = Had(d, f[k - 1], y) /\ h[k + 1][y] = Had(c, h[k], y)
    <3>1. NodesOf(d) \subseteq NodesOf(c)
      BY DEF Chained
    <3> QED BY <3>1, <2>2, <1>2, <1>3
  <2>6. \A y \in NodesOf(d) : f[k][y] \subseteq h[k + 1][y]
    BY <2>4, <2>5
  <2> QED BY <2>2, <2>6
<1>8. n \in G
  <2> HIDE DEF G
  <2>1. n \in 0..n
    BY <1>1
  <2> QED BY <2>1, <1>1, <1>6, <1>7, UpTo
<1>9. \A y \in NodesOf(d) : f[n][y] \subseteq h[n + 1][y]
  BY <1>8
<1>10. x.source \in h[n + 1][id]
  <2>1. Inbound(c, id) = {x}
    BY <1>1 DEF Inbound, Chained, Joins
  <2>2. id # c.entry /\ ~ IsJoin(id[1]) /\ x.source \in NodesOf(c) /\ id \in NodesOf(c)
    BY DEF Chained, IsJoin
  <2>3. x.source \in Had(c, h[n], id)
    BY <2>1, <2>2 DEF Had
  <2>4. n + 1 \in 1..(n + 1) /\ (n + 1) - 1 = n
    BY <1>1
  <2>5. h[n + 1][id] = Had(c, h[(n + 1) - 1], id)
    BY <2>2, <2>4, <1>3
  <2> QED BY <2>3, <2>4, <2>5
<1> QED BY <1>2, <1>3, <1>9, <1>10

\* What comes in at a node is what its type asks for.
WholeAt(id, entry, node, inbound) ==
    CASE IsJoin(id[1]) -> \A name \in ToSet(node.names) :
            /\ Cardinality({e \in inbound : e.at = name}) = 1
            /\ name \in DOMAIN node.inputs
      [] ~IsJoin(id[1]) /\ id = entry -> inbound = {} /\ id[1] = "input"
      [] OTHER -> Cardinality(inbound) = 1 /\ id[1] # "input"

LEMMA WholeEverywhere ==
  ASSUME NEW d
  PROVE  JoinsAreWhole(d) <=>
           \A id \in NodesOf(d) : WholeAt(id, d.entry, NodeOf(d, id), {e \in d.edges : e.target = id})
BY DEF JoinsAreWhole, WholeAt

\* A drawing that compiles, and starts with its first node, compiles with a map after
\* its last node.
LEMMA ChainCompiles ==
  ASSUME NEW d, NEW c, NEW id, NEW x, Chained(d, c, id, x), Compiles(d)
  PROVE  Compiles(c)
<1>1. /\ d.nodes \in Seq(NodeRow) /\ Joins(d) /\ c.nodes \in Seq(NodeRow) /\ Joins(c)
      /\ Len(d.nodes) \in Nat /\ DOMAIN d.nodes = 1..Len(d.nodes)
      /\ DOMAIN c.nodes = 1..(Len(d.nodes) + 1)
  BY DrawingsAre DEF Chained, Drawn
<1>2. \A i \in DOMAIN c.nodes : i \in DOMAIN d.nodes \/ i = Len(d.nodes) + 1
  BY <1>1
<1>3. c.nodes # << >> /\ c.entry \in NodesOf(c) /\ d.entry \in NodesOf(d)
  <2>1. Len(d.nodes) + 1 \in DOMAIN c.nodes
    BY <1>1
  <2>2. c.nodes # << >>
    BY <2>1, EmptySeq
  <2> QED BY <2>2 DEF Compiles, Chained
<1>4. ControlPortsAreKnown(c)
  <2> SUFFICES ASSUME NEW e \in c.edges
               PROVE  /\ {e.source, e.target} \subseteq NodesOf(c)
                      /\ e.port \in SourcePorts(e.source[1])
                      /\ e.at \in TargetPorts(NodeOf(c, e.target))
    BY DEF ControlPortsAreKnown
  <2>1. CASE e \in d.edges
    BY <2>1 DEF Compiles, ControlPortsAreKnown, Chained
  <2>2. CASE e = x
    <3>1. TargetPorts(NodeOf(c, id)) = {"in"}
      BY DEF TargetPorts, Chained, IsJoin
    <3> QED BY <2>2, <3>1 DEF Chained
  <2> QED BY <2>1, <2>2 DEF Chained
<1>5. IsAcyclic(c)
  BY ChainIsAcyclic DEF Compiles
<1>6. NodesOf(c) = Reached(c, {c.entry})
  <2>1. {d.entry} \in SUBSET NodesOf(d) /\ {c.entry} \in SUBSET NodesOf(c) /\ c.entry = d.entry
    BY <1>3 DEF Chained
  <2>2. NodesOf(d) = Reached(d, {d.entry})
    BY DEF Compiles
  <2>3. Reached(c, {c.entry}) \subseteq NodesOf(c)
    BY <1>1, <2>1, ReachedIs
  <2>4. NodesOf(d) \subseteq Reached(c, {c.entry}) /\ id \in Reached(c, {c.entry})
    <3>1. x.source \in Reached(d, {d.entry})
      BY <2>2 DEF Chained
    <3> QED BY <3>1, <2>1, <2>2, ReachedInChain
  <2> QED BY <2>3, <2>4 DEF Chained
<1>7. JoinsAreWhole(c)
  <2>1. ASSUME NEW y \in NodesOf(d)
        PROVE  {e \in c.edges : e.target = y} = {e \in d.edges : e.target = y}
               /\ NodeOf(c, y) = NodeOf(d, y)
    BY DEF Chained
  <2>2. {e \in c.edges : e.target = id} = {x}
    BY <1>1 DEF Chained, Joins
  <2>3. Cardinality({x}) = 1
    BY FS_Singleton
  <2>4. ASSUME NEW y \in NodesOf(d)
        PROVE  WholeAt(y, c.entry, NodeOf(c, y), {e \in c.edges : e.target = y})
    <3>1. c.entry = d.entry
      BY DEF Chained
    <3>2. WholeAt(y, d.entry, NodeOf(d, y), {e \in d.edges : e.target = y})
      BY WholeEverywhere DEF Compiles
    <3> QED BY <2>1, <3>1, <3>2
  <2>5. ~ IsJoin(id[1]) /\ id # c.entry /\ id[1] # "input"
    BY <1>3 DEF Chained, IsJoin
  <2>6. WholeAt(id, c.entry, NodeOf(c, id), {e \in c.edges : e.target = id})
    BY <2>2, <2>3, <2>5 DEF WholeAt
  <2>7. \A y \in NodesOf(c) : WholeAt(y, c.entry, NodeOf(c, y), {e \in c.edges : e.target = y})
    <3> SUFFICES ASSUME NEW y \in NodesOf(c)
                 PROVE  WholeAt(y, c.entry, NodeOf(c, y), {e \in c.edges : e.target = y})
      OBVIOUS
    <3>1. y \in NodesOf(d) \/ y = id
      BY DEF Chained
    <3>2. CASE y = id
      BY <3>2, <2>6
    <3> QED BY <3>1, <3>2, <2>4
  <2> QED BY <2>7, WholeEverywhere
<1>8. ReferencesAreKnown(c)
  <2> SUFFICES ASSUME NEW i \in DOMAIN c.nodes, NEW name \in DOMAIN c.nodes[i].inputs,
                      c.nodes[i].inputs[name] # Literal
               PROVE  LET b == c.nodes[i].inputs[name]
                      IN  /\ b.node \in NodesOf(c) /\ b.output \in DataOutputs(b.node[1])
                          /\ InReach(c, c.nodes[i], name, b.node)
    BY DEF ReferencesAreKnown
  <2>1. CASE i \in DOMAIN d.nodes
    <3>1. PICK node : node = d.nodes[i]
      OBVIOUS
    <3>2. c.nodes[i] = node /\ node.id \in NodesOf(d)
      BY <2>1, <3>1 DEF Chained, NodesOf
    <3>3. PICK b : b = node.inputs[name]
      OBVIOUS
    <3>4. b.node \in NodesOf(d) /\ b.output \in DataOutputs(b.node[1])
          /\ InReach(d, node, name, b.node)
      BY <2>1, <3>1, <3>2, <3>3 DEF Compiles, ReferencesAreKnown
    <3>5. InReach(c, node, name, b.node)
      <4>1. CASE IsJoin(node.id[1]) /\ name \in ToSet(node.names)
        <5>1. PICK e \in d.edges : /\ e.target = node.id /\ e.at = name
                                   /\ (b.node = e.source \/ b.node \in Available(d)[e.source])
          BY <3>4, <4>1 DEF InReach
        <5>2. e \in c.edges /\ e.source \in NodesOf(d)
          BY <1>1 DEF Chained, Joins
        <5>3. b.node = e.source \/ b.node \in Available(c)[e.source]
          BY <5>1, <5>2, <1>3, AvailableInChain
        <5> QED BY <4>1, <5>1, <5>2, <5>3 DEF InReach
      <4>2. CASE ~ (IsJoin(node.id[1]) /\ name \in ToSet(node.names))
        <5>1. b.node \in Available(d)[node.id]
          BY <3>4, <4>2 DEF InReach
        <5>2. b.node \in Available(c)[node.id]
          BY <5>1, <3>2, <1>3, AvailableInChain
        <5> QED BY <4>2, <5>2 DEF InReach
      <4> QED BY <4>1, <4>2
    <3> QED BY <3>2, <3>3, <3>4, <3>5 DEF Chained
  <2>2. CASE i = Len(d.nodes) + 1
    <3>1. PICK node : node = c.nodes[i]
      OBVIOUS
    <3>2. node.id = id /\ node.inputs = [z \in {"value"} |-> OutputFrom(x.source)]
      BY <2>2, <3>1 DEF Chained
    <3>3. node.inputs[name] = OutputFrom(x.source)
      BY <3>1, <3>2
    <3>4. OutputFrom(x.source).node = x.source
          /\ OutputFrom(x.source).output \in DataOutputs(x.source[1])
      BY DEF OutputFrom, Output, OutputOf, DataOutputs
    <3>5. x.source \in Available(c)[id]
      BY <1>3, AvailableInChain
    <3>6. InReach(c, node, name, x.source)
      BY <3>2, <3>5 DEF InReach, Chained, IsJoin
    <3> QED BY <3>1, <3>3, <3>4, <3>6 DEF Chained
  <2> QED BY <2>1, <2>2, <1>2
<1> QED BY <1>3, <1>4, <1>5, <1>6, <1>7, <1>8 DEF Compiles

LEMMA DrawingSound == ASSUME DrawingAssumption, DrawingInv PROVE DrawingHolds /\ DrawingTypeOK
<1>1. ChainsCompile
  <2> SUFFICES ASSUME Compiles(drawing), drawing.entry = Head(drawing.nodes).id,
                      Len(drawing.nodes) < MaxNodes
               PROVE  Compiles(Added(drawing, "map"))
    BY DEF ChainsCompile
  <2>1. PICK id, x : Chained(drawing, Added(drawing, "map"), id, x)
    BY MapIsChained DEF DrawingInv, Compiles
  <2> QED BY <2>1, ChainCompiles
<1> QED BY <1>1, DrawnSound, DrawingTypes DEF DrawingHolds

-----------------------------------------------------------------------------
(***************************************************************************)
(* The services together.                                                  *)
(***************************************************************************)
IdentityInv == PairingInv /\ AccessInv
HouseInv    == ScheduleInv /\ McpInv /\ IntegrationInv
StudioInv   == DrawingInv /\ EditingInv /\ StartsInv
ServicesInv ==
    /\ PairingTypeOK /\ IssuedInv /\ AccessInv /\ HouseInv /\ StudioInv /\ DryInv /\ LibraryInv
    /\ IntegrationBounds /\ part \in Parts

\* A step is one of one service, and leaves the others alone.
LEMMA ServicesMove ==
  ASSUME [Next]_vars
  PROVE  /\ [PairingNext]_pairingVars
         /\ [AccessNext]_accessVars
         /\ [NodeLibraryNext]_libraryVars
         /\ [McpNext]_mcpVars
         /\ [StartsNext]_startVars
         /\ [EditingNext]_editingVars
         /\ [DryNext]_dryVars
         /\ [ScheduleNext]_scheduleVars
         /\ [IntegrationNext]_integrationVars
         /\ [DrawingNext]_drawingVars
         /\ UNCHANGED part
<1>1. CASE UNCHANGED vars
  BY <1>1 DEF vars
<1>2. CASE Only("pairing") /\ PairingNext
  BY <1>2 DEF Only
<1>3. CASE Only("access") /\ AccessNext
  BY <1>3 DEF Only
<1>4. CASE Only("nodes") /\ NodeLibraryNext
  BY <1>4 DEF Only
<1>5. CASE Only("mcp") /\ McpNext
  BY <1>5 DEF Only
<1>6. CASE Only("starts") /\ StartsNext
  BY <1>6 DEF Only
<1>7. CASE Only("editing") /\ EditingNext
  BY <1>7 DEF Only
<1>8. CASE Only("dry") /\ DryNext
  BY <1>8 DEF Only
<1>9. CASE Only("schedule") /\ ScheduleNext
  BY <1>9 DEF Only
<1>10. CASE Only("connect") /\ IntegrationNext
  BY <1>10 DEF Only
<1>11. CASE Only("drawing") /\ DrawingNext
  BY <1>11 DEF Only
<1> QED BY <1>1, <1>2, <1>3, <1>4, <1>5, <1>6, <1>7, <1>8, <1>9, <1>10, <1>11 DEF Next

\* Unless the process stopped between the two files or a second code was taken in between,
\* the token and the identity a runtime works with are of one claim.  However many codes are
\* polled and claims made at a time, the cloud forgets the token of a claim only when the
\* runtime has stored it, or when it let in another claim of the same code; and a token that
\* is stored is the one its site knows, unless the site was claimed again since or an earlier
\* claim for it was still under way.  Whoever has a session has a user row and a site, a site
\* that is not the bootstrap site has one owner at most, and a token that was revoked when a
\* call came in does not serve it.
THEOREM IdentityIsKept == Spec => []IdentityHolds
<1>1. Init => IdentityInv
  BY PairingStarts, AccessStarts DEF Init, IdentityInv
<1>2. IdentityInv /\ [Next]_vars => IdentityInv'
  BY ServicesMove, PairingKept, AccessKept DEF IdentityInv
<1>3. IdentityInv => IdentityHolds
  BY PairingSound, AccessSound DEF IdentityInv, IdentityHolds
<1> QED BY <1>1, <1>2, <1>3, PTL DEF Spec

\* What a mean remembers is the last readings that live runs counted, whatever became of
\* those runs and however often a trigger was started; a live run's mean is that of the
\* readings up to its own, a dry run's of its own reading; and a join finds what it reads.
THEOREM ReadingsAreCounted == Spec => []NodesHold
<1>1. Init => LibraryInv
  BY LibraryStarts DEF Init
<1>2. LibraryInv /\ [Next]_vars => LibraryInv'
  BY ServicesMove, LibraryKept
<1>3. LibraryInv => NodesHold
  BY LibrarySound DEF NodesHold
<1> QED BY <1>1, <1>2, <1>3, PTL DEF Spec

\* When the runtime has ticked, today's time of the active version's schedule has been
\* started, unless it is still to come or over its grace, whatever was deployed and restarted
\* since; and so has each time this version learnt at some tick since the start, the sun's
\* and yesterday's included.  When reloads are over, however they overlapped, a server whose
\* row says ready has the client of the version the row names, and the runtime has not closed
\* it; it may have ended by itself.  And the form a
\* dialog shows is the one its flow in Home Assistant is at, values reach the form they were
\* filled in for, and a dialog told of success has a flow that succeeded, unless another token
\* drives the flow or a request of it was given up.
THEOREM HouseIsKept == Spec => []HouseHolds
<1>1. Init => HouseInv
  BY ScheduleStarts, McpStarts, IntegrationStarts DEF Init, HouseInv
<1>2. HouseInv /\ [Next]_vars => HouseInv'
  BY ServicesMove, ScheduleKept, McpKept, IntegrationKept DEF HouseInv
<1>3. HouseInv => HouseHolds
  BY ScheduleSound, McpSound, IntegrationSound DEF HouseInv, HouseHolds
<1> QED BY <1>1, <1>2, <1>3, PTL DEF Spec

\* A test that is answered exists for all who ask about it, what is shown of it does not go
\* back, and a request that is repeated runs it again only where an answer was cut off or
\* two requests were under way side by side.
THEOREM SessionsAreKept == Spec => [](part = "starts" => SessionsHold)
<1>1. Init => StartsInv
  BY StartsStart DEF Init
<1>2. StartsInv /\ [Next]_vars => StartsInv'
  BY ServicesMove, StartsKept
<1>3. StartsInv => (part = "starts" => SessionsHold)
  BY StartsSound
<1> QED BY <1>1, <1>2, <1>3, PTL DEF Spec

\* Whoever saves a draft that drops an edit was told of that edit; a revision is no older
\* than the draft of the click that asked for it; and a page that is alone, waits for its
\* clicks and loses no request meets no conflict.
THEOREM EditsAreKept == Spec => [](part = "editing" => EditingHolds)
<1>1. Init => EditingInv
  BY EditingStarts DEF Init
<1>2. EditingInv /\ [Next]_vars => EditingInv'
  BY ServicesMove, EditingKept
<1>3. EditingInv => (part = "editing" => EditingHolds)
  BY EditingSound
<1> QED BY <1>1, <1>2, <1>3, PTL DEF Spec

\* A test run answers no timer and no fixture before its time; while it goes by itself and
\* has its fixtures it stops only where it is over, paused or waits for an effect nothing
\* answers, whatever was cut off, repeated or done by hand; and it loses no node.
THEOREM TestsGoOn == Spec => []TestsHold
<1>1. Init => DryInv
  BY DryStarts DEF Init
<1>2. DryInv /\ [Next]_vars => DryInv'
  BY ServicesMove, DryKept
<1>3. DryInv => TestsHold
  BY DrySound DEF TestsHold
<1> QED BY <1>1, <1>2, <1>3, PTL DEF Spec

\* What is drawn stays whole: one node for an id, edges from nodes that are there to ports
\* that are, one edge at a place, inputs that are bound to what comes before; a repair has
\* nothing to do after another one or where the drawing compiles; and a drawing that does
\* still compiles with a map at its end.  With it, for all of the studio, what is said of
\* edits and of tests.
THEOREM StudioIsKept == Spec => []StudioHolds
<1>1. Init => StudioInv
  BY DrawingStarts, EditingStarts, StartsStart, DrawingAssumption DEF Init, StudioInv
<1>2. StudioInv /\ [Next]_vars => StudioInv'
  <2>1. DrawingInv /\ [DrawingNext]_drawingVars => DrawingInv'
    <3>1. UNCHANGED drawingVars /\ DrawingInv => DrawingInv'
      BY DrawingStands
    <3> QED BY <3>1, DrawingKept, DrawingAssumption
  <2> QED BY <2>1, ServicesMove, EditingKept, StartsKept DEF StudioInv
<1>3. StudioInv => StudioHolds
  BY DrawingSound, EditingSound, StartsSound, DrawingAssumption DEF StudioInv, StudioHolds
<1> QED BY <1>1, <1>2, <1>3, PTL DEF Spec

\* Every variable of every service keeps its type, and with it every bound: the same codes
\* and claims, or as many of them at a time as there are.
THEOREM ServicesType == Spec => []ServicesTypeOK
<1>1. Init => ServicesInv
  <2> SUFFICES ASSUME Init PROVE ServicesInv
    OBVIOUS
  <2>1. PairingTypeOK /\ IssuedInv
    BY PairingStarts DEF Init, PairingInv, CodeInv, IssuedInv
  <2>2. AccessInv /\ HouseInv /\ IntegrationBounds
    BY AccessStarts, ScheduleStarts, McpStarts, IntegrationStarts, BoundsStart DEF Init, HouseInv
  <2>3. StudioInv /\ DryInv /\ LibraryInv
    BY DrawingStarts, EditingStarts, StartsStart, DryStarts, LibraryStarts, DrawingAssumption
       DEF Init, StudioInv
  <2> QED BY <2>1, <2>2, <2>3 DEF Init, ServicesInv
<1>2. ServicesInv /\ [Next]_vars => ServicesInv'
  <2> SUFFICES ASSUME ServicesInv, [Next]_vars PROVE ServicesInv'
    OBVIOUS
  <2>1. PairingTypeOK' /\ IssuedInv' /\ AccessInv'
    BY ServicesMove, PairingTypesKept, AccessKept DEF ServicesInv
  <2>2. HouseInv' /\ IntegrationBounds'
    BY ServicesMove, ScheduleKept, McpKept, IntegrationKept, BoundsKept DEF ServicesInv, HouseInv
  <2>3. DrawingInv'
    BY ServicesMove, DrawingKept, DrawingStands, DrawingAssumption DEF ServicesInv, StudioInv
  <2>4. EditingInv' /\ StartsInv' /\ DryInv' /\ LibraryInv'
    BY ServicesMove, EditingKept, StartsKept, DryKept, LibraryKept DEF ServicesInv, StudioInv
  <2>5. part' \in Parts
    BY ServicesMove DEF ServicesInv, Parts
  <2> QED BY <2>1, <2>2, <2>3, <2>4, <2>5 DEF ServicesInv, StudioInv
<1>3. ServicesInv => ServicesTypeOK
  <2> SUFFICES ASSUME ServicesInv PROVE ServicesTypeOK
    OBVIOUS
  <2>1. PairingTypeOK /\ AccessTypeOK /\ McpTypeOK /\ part \in Parts
    BY DEF ServicesInv, AccessInv, HouseInv, McpInv
  <2>2. ScheduleTypeOK /\ IntegrationTypeOK
    BY ScheduleSound, IntegrationTyped DEF ServicesInv, HouseInv
  <2>3. DrawingTypeOK /\ EditingTypeOK /\ StartsTypeOK
    BY DrawingSound, EditingSound, StartsSound, DrawingAssumption DEF ServicesInv, StudioInv
  <2>4. DryTypeOK /\ NodeLibraryTypeOK
    BY DrySound, LibrarySound DEF ServicesInv
  <2> QED BY <2>1, <2>2, <2>3, <2>4 DEF ServicesTypeOK
<1> QED BY <1>1, <1>2, <1>3, PTL DEF Spec
=============================================================================
