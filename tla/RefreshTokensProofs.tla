------------------------ MODULE RefreshTokensProofs ------------------------
(***************************************************************************)
(* Theorems about RefreshTokens, for any tokens, sessions, users and calls. *)
(***************************************************************************)
EXTENDS RefreshTokens, TLAPS

(* A rotation past its checks holds the row of the presented token, which   *)
(* therefore nobody else has revoked.                                      *)
RotationHoldsToken ==
    \A p \in Calls : pc[p] = "commit" =>
        /\ req[p].kind = "rotate"
        /\ req[p].token \in issued \ revoked
        /\ lock[req[p].token] = p

(* What is known of a call at each statement: what it asks for, that the    *)
(* token of a revocation is in the table, and that it has not chosen rows   *)
(* before its update.                                                      *)
CallAtStep ==
    \A p \in Calls :
        /\ pc[p] = "select" => req[p].kind = "rotate"
        /\ pc[p] = "find" => req[p].kind = "logout"
        /\ pc[p] \in {"snapshot", "update", "reuse"} /\ req[p].kind # "logoutAll"
             => req[p].token \in issued
        /\ pc[p] \in {"idle", "select", "find"} => target[p] = {}

(* What a revocation had chosen is revoked when its request is answered.    *)
RevokedAllChosen ==
    \A p \in Calls : pc[p] \in {"reuse", "loggedOut"} => target[p] \subseteq revoked

(* The inductive invariant.  LinearLineage needs nothing but types and the  *)
(* lock: the locked token has no replacement yet, since replaced ones are   *)
(* revoked.                                                                *)
IInv ==
    /\ TypeOK
    /\ RotationHoldsToken
    /\ CallAtStep
    /\ OneActiveTokenPerFamily
    /\ LinearLineage
    /\ RevokedAllChosen

-----------------------------------------------------------------------------

LEMMA InitInvariant == Init => IInv
<1> SUFFICES ASSUME Init PROVE IInv
  OBVIOUS
<1> USE RefreshTokensAssumption DEF Init
<1>1. TypeOK
  BY DEF TypeOK, Requests
<1>2. RotationHoldsToken /\ CallAtStep /\ RevokedAllChosen
  BY DEF RotationHoldsToken, CallAtStep, RevokedAllChosen
<1>3. OneActiveTokenPerFamily /\ LinearLineage
  BY DEF OneActiveTokenPerFamily, Active, LinearLineage
<1> QED BY <1>1, <1>2, <1>3 DEF IInv

(* Steps that leave the table as it is leave what is said of it alone.      *)
LEMMA RowsUnchanged ==
    ASSUME IInv, UNCHANGED rows
    PROVE  (OneActiveTokenPerFamily /\ LinearLineage)'
BY DEF IInv, rows, OneActiveTokenPerFamily, Active, LinearLineage

LEMMA LoginInvariant ==
    ASSUME IInv, NEW f \in Families, Login(f) PROVE IInv'
<1> USE RefreshTokensAssumption
<1>1. PICK n \in Tokens \ issued : /\ issued' = issued \cup {n}
                                   /\ family' = [family EXCEPT ![n] = f]
  BY DEF Login
<1>2. /\ UNCHANGED <<revoked, replacedBy, expired, activeUsers, lock, req, target, pc>>
      /\ \A t \in issued : family[t] # f
  BY DEF Login
<1>3. \A t \in Tokens : family'[t] = IF t = n THEN f ELSE family[t]
  BY <1>1 DEF IInv, TypeOK
<1>4. TypeOK'
  BY <1>1, <1>2, <1>3 DEF IInv, TypeOK
<1>5. (RotationHoldsToken /\ CallAtStep /\ RevokedAllChosen)'
  BY <1>1, <1>2 DEF IInv, RotationHoldsToken, CallAtStep, RevokedAllChosen
<1>6. OneActiveTokenPerFamily'
  BY <1>1, <1>2, <1>3 DEF IInv, TypeOK, OneActiveTokenPerFamily, Active
<1>7. LinearLineage'
  BY <1>1, <1>2, <1>3 DEF IInv, TypeOK, LinearLineage
<1> QED BY <1>4, <1>5, <1>6, <1>7 DEF IInv

LEMMA ExpireInvariant ==
    ASSUME IInv, NEW t \in Tokens, Expire(t) PROVE IInv'
<1>1. TypeOK'
  BY DEF IInv, TypeOK, Expire, rows
<1>2. (RotationHoldsToken /\ CallAtStep /\ RevokedAllChosen)'
  BY DEF IInv, Expire, rows, RotationHoldsToken, CallAtStep, RevokedAllChosen
<1> QED BY <1>1, <1>2, RowsUnchanged DEF Expire, IInv

LEMMA StartInvariant ==
    ASSUME IInv, NEW p \in Calls, Start(p) PROVE IInv'
<1> USE RefreshTokensAssumption DEF Start, Goto, rows
<1>1. TypeOK'
  BY DEF IInv, TypeOK, Requests, Running
<1>2. (RotationHoldsToken /\ RevokedAllChosen)'
  BY DEF IInv, TypeOK, RotationHoldsToken, RevokedAllChosen
<1>3. CallAtStep'
  BY DEF IInv, TypeOK, CallAtStep
<1> QED BY <1>1, <1>2, <1>3, RowsUnchanged DEF IInv

(* The answers of a rotation that was refused, and the start of the         *)
(* revocation after a reuse.                                               *)
LEMMA RefusedRotationInvariant ==
    ASSUME IInv, NEW p \in Calls,
           \/ RotateInvalid(p) \/ RotateReuse(p)
           \/ RotateExpired(p) \/ RotateInactive(p)
    PROVE  IInv'
<1> USE DEF RotateInvalid, RotateReuse, RotateExpired, RotateInactive, Selected,
            Goto, rows
<1>1. TypeOK'
  BY DEF IInv, TypeOK, Running, Outcomes
<1>2. (RotationHoldsToken /\ RevokedAllChosen)'
  BY DEF IInv, TypeOK, RotationHoldsToken, RevokedAllChosen
<1>3. CallAtStep'
  BY DEF IInv, TypeOK, CallAtStep
<1> QED BY <1>1, <1>2, <1>3, RowsUnchanged DEF IInv

LEMMA RotateProceedInvariant ==
    ASSUME IInv, NEW p \in Calls, RotateProceed(p) PROVE IInv'
<1> USE RefreshTokensAssumption DEF RotateProceed, Selected, Goto, rows
<1>1. TypeOK'
  BY DEF IInv, TypeOK, Running
<1>2. req[p].kind = "rotate"
  BY DEF IInv, CallAtStep
<1>3. RotationHoldsToken'
  BY <1>2 DEF IInv, TypeOK, RotationHoldsToken
<1>4. (CallAtStep /\ RevokedAllChosen)'
  BY DEF IInv, TypeOK, CallAtStep, RevokedAllChosen
<1> QED BY <1>1, <1>3, <1>4, RowsUnchanged DEF IInv

LEMMA LogoutFindInvariant ==
    ASSUME IInv, NEW p \in Calls, LogoutFind(p) PROVE IInv'
<1> USE DEF LogoutFind, Goto, rows
<1>1. TypeOK'
  BY DEF IInv, TypeOK, Running, Outcomes
<1>2. RotationHoldsToken'
  BY DEF IInv, TypeOK, RotationHoldsToken
<1>3. CallAtStep'
  BY DEF IInv, TypeOK, CallAtStep
<1>4. RevokedAllChosen'
  BY DEF IInv, TypeOK, RevokedAllChosen, CallAtStep
<1> QED BY <1>1, <1>2, <1>3, <1>4, RowsUnchanged DEF IInv

(* The step that matters.  The presented token is its family's only active  *)
(* token and has no replacement; the new one takes its place.              *)
LEMMA RotateCommitInvariant ==
    ASSUME IInv, NEW p \in Calls, RotateCommit(p) PROVE IInv'
<1> USE RefreshTokensAssumption
<1> DEFINE old == req[p].token
<1>1. PICK n \in Tokens \ issued :
         /\ issued' = issued \cup {n}
         /\ family' = [family EXCEPT ![n] = family[old]]
         /\ replacedBy' = [replacedBy EXCEPT ![old] = n]
  BY DEF RotateCommit
<1>2. /\ revoked' = revoked \cup {old}
      /\ lock' = [t \in Tokens |-> IF lock[t] = p THEN None ELSE lock[t]]
      /\ pc[p] = "commit" /\ pc' = [pc EXCEPT ![p] = "rotated"]
      /\ UNCHANGED <<expired, activeUsers, req, target>>
  BY DEF RotateCommit, Release, Goto
<1>3. old \in issued \ revoked /\ old \in Tokens /\ n # old
  BY <1>1, <1>2 DEF IInv, RotationHoldsToken, TypeOK
<1>4. /\ \A t \in Tokens : family'[t] = IF t = n THEN family[old] ELSE family[t]
      /\ \A t \in Tokens : replacedBy'[t] = IF t = old THEN n ELSE replacedBy[t]
  BY <1>1, <1>3 DEF IInv, TypeOK
<1>5. TypeOK'
  BY <1>1, <1>2, <1>3, <1>4 DEF IInv, TypeOK, Outcomes
<1>6. RotationHoldsToken'
  <2> SUFFICES ASSUME NEW q \in Calls, pc'[q] = "commit"
               PROVE  (/\ req[q].kind = "rotate"
                       /\ req[q].token \in issued \ revoked
                       /\ lock[req[q].token] = q)'
    BY DEF RotationHoldsToken
  <2>1. q # p /\ pc[q] = "commit"
    BY <1>2 DEF IInv, TypeOK
  <2>2. /\ req[q].kind = "rotate" /\ req[q].token \in issued \ revoked
        /\ lock[req[q].token] = q /\ lock[old] = p
    BY <1>2, <2>1 DEF IInv, RotationHoldsToken
  <2>3. req[q].token # old
    BY <2>1, <2>2
  <2> QED BY <1>1, <1>2, <2>1, <2>2, <2>3 DEF IInv, TypeOK
<1>7. (CallAtStep /\ RevokedAllChosen)'
  BY <1>1, <1>2 DEF IInv, TypeOK, CallAtStep, RevokedAllChosen
<1>8. OneActiveTokenPerFamily'
  <2> SUFFICES ASSUME NEW f \in Families, NEW t \in Active(f)', NEW u \in Active(f)'
               PROVE  t = u
    BY DEF OneActiveTokenPerFamily
  <2>1. \A v \in Active(f)' : \/ v = n /\ family[old] = f
                              \/ v \in Active(f) /\ v # old
    BY <1>1, <1>2, <1>3, <1>4 DEF Active, IInv, TypeOK
  <2>2. family[old] = f => \A v \in Active(f) : v = old
    BY <1>3 DEF Active, IInv, OneActiveTokenPerFamily
  <2>3. \A v, w \in Active(f) : v = w
    BY DEF IInv, OneActiveTokenPerFamily
  <2> QED BY <2>1, <2>2, <2>3
<1>9. LinearLineage'
  <2>1. replacedBy[old] = None
    BY <1>3 DEF IInv, LinearLineage
  <2>2. \A t \in Tokens : replacedBy[t] # n
    BY <1>1 DEF IInv, LinearLineage, TypeOK
  <2>3. (\A t \in Tokens : replacedBy[t] # None =>
           /\ t \in revoked
           /\ replacedBy[t] \in issued
           /\ family[replacedBy[t]] = family[t])'
    BY <1>1, <1>2, <1>3, <1>4 DEF IInv, LinearLineage, TypeOK
  <2>4. (\A t, u \in Tokens :
           replacedBy[t] = replacedBy[u] /\ t # u => replacedBy[t] = None)'
    BY <1>4, <2>2 DEF IInv, LinearLineage
  <2>5. ASSUME NEW t \in issued', NEW u \in issued', family'[t] = family'[u],
               \A v \in Tokens : replacedBy'[v] # t /\ replacedBy'[v] # u
        PROVE  t = u
    <3>1. t # n /\ u # n
      BY <1>3, <1>4, <2>5
    <3>2. t \in issued /\ u \in issued /\ family[t] = family[u]
      BY <1>1, <1>4, <2>5, <3>1 DEF IInv, TypeOK
    <3>3. \A v \in Tokens : replacedBy[v] # t /\ replacedBy[v] # u
      BY <1>3, <1>4, <2>1, <2>5, <3>2 DEF IInv, TypeOK
    <3> QED BY <3>2, <3>3 DEF IInv, LinearLineage
  <2> QED BY <2>3, <2>4, <2>5 DEF LinearLineage
<1> QED BY <1>5, <1>6, <1>7, <1>8, <1>9 DEF IInv

LEMMA RevokeSnapshotInvariant ==
    ASSUME IInv, NEW p \in Calls, RevokeSnapshot(p) PROVE IInv'
<1> USE DEF RevokeSnapshot, Goto, rows
<1>1. TypeOK'
  BY DEF IInv, TypeOK, InScope, Running
<1>2. (RotationHoldsToken /\ CallAtStep /\ RevokedAllChosen)'
  BY DEF IInv, TypeOK, RotationHoldsToken, CallAtStep, RevokedAllChosen
<1> QED BY <1>1, <1>2, RowsUnchanged DEF IInv

(* A revocation takes no token from a rotation that holds it.              *)
LEMMA RevokeUpdateInvariant ==
    ASSUME IInv, NEW p \in Calls, RevokeUpdate(p) PROVE IInv'
<1> USE RefreshTokensAssumption DEF RevokeUpdate, Goto
<1>1. TypeOK'
  BY DEF IInv, TypeOK, Outcomes
<1>2. RotationHoldsToken'
  BY DEF IInv, TypeOK, RotationHoldsToken
<1>3. CallAtStep'
  BY DEF IInv, TypeOK, CallAtStep
<1>4. RevokedAllChosen'
  BY DEF IInv, TypeOK, RevokedAllChosen
<1>5. OneActiveTokenPerFamily'
  BY DEF IInv, OneActiveTokenPerFamily, Active
<1>6. LinearLineage'
  BY DEF IInv, LinearLineage
<1> QED BY <1>1, <1>2, <1>3, <1>4, <1>5, <1>6 DEF IInv

LEMMA AbortInvariant ==
    ASSUME IInv, NEW p \in Calls, Abort(p) PROVE IInv'
<1> USE RefreshTokensAssumption DEF Abort, Release, Goto, rows
<1>1. TypeOK'
  BY DEF IInv, TypeOK, Outcomes
<1>2. RotationHoldsToken'
  BY DEF IInv, TypeOK, RotationHoldsToken
<1>3. (CallAtStep /\ RevokedAllChosen)'
  BY DEF IInv, TypeOK, CallAtStep, RevokedAllChosen
<1> QED BY <1>1, <1>2, <1>3, RowsUnchanged DEF IInv

LEMMA NextInvariant == IInv /\ [Next]_vars => IInv'
<1> SUFFICES ASSUME IInv, [Next]_vars PROVE IInv'
  OBVIOUS
<1>1. CASE UNCHANGED vars
  <2> USE <1>1 DEF vars, rows, IInv
  <2>1. (TypeOK /\ RotationHoldsToken /\ CallAtStep /\ RevokedAllChosen)'
    BY DEF TypeOK, RotationHoldsToken, CallAtStep, RevokedAllChosen
  <2> QED BY <2>1, RowsUnchanged
<1>2. ASSUME NEW f \in Families, Login(f) PROVE IInv'
  BY <1>2, LoginInvariant
<1>3. ASSUME NEW t \in Tokens, Expire(t) PROVE IInv'
  BY <1>3, ExpireInvariant
<1>4. ASSUME NEW p \in Calls, Start(p) \/ Step(p) \/ Abort(p) PROVE IInv'
  BY <1>4, StartInvariant, RefusedRotationInvariant, RotateProceedInvariant,
     RotateCommitInvariant, LogoutFindInvariant, RevokeSnapshotInvariant,
     RevokeUpdateInvariant, AbortInvariant DEF Step
<1> QED BY <1>1, <1>2, <1>3, <1>4 DEF Next

(* The inductive invariant holds of every behaviour of the service.        *)
THEOREM Invariance == Spec => []IInv
BY InitInvariant, NextInvariant, PTL DEF Spec

(* The table keeps its types (refresh_tokens, schema.prisma).              *)
THEOREM TypeCorrect == Spec => []TypeOK
<1>1. IInv => TypeOK
  BY DEF IInv
<1> QED BY Invariance, <1>1, PTL

(* However many rotations race, a session has one exchangeable token        *)
(* (refresh-token.service.ts:47-58).                                       *)
THEOREM OneActiveToken == Spec => []OneActiveTokenPerFamily
<1>1. IInv => OneActiveTokenPerFamily
  BY DEF IInv
<1> QED BY Invariance, <1>1, PTL

(* The audit lineage of a session is a single chain                         *)
(* (refresh-token.service.ts:102-110).                                     *)
THEOREM LineageIsLinear == Spec => []LinearLineage
<1>1. IInv => LinearLineage
  BY DEF IInv
<1> QED BY Invariance, <1>1, PTL

(* What is still active of the session of a revocation that has chosen its  *)
(* rows is among them, unless a rotation replaced one of them.              *)
Reached(p) ==
    \/ Active(family[req[p].token]) \subseteq target[p]
    \/ \E t \in target[p] : /\ family[t] = family[req[p].token]
                           /\ replacedBy[t] # None

Chosen(p) ==
    /\ pc[p] \in {"update", "reuse", "loggedOut"}
    /\ req[p].kind # "logoutAll"
    /\ req[p].token \in issued

SessionIsReached == \A p \in Calls : Chosen(p) => Reached(p)

(* Tokens are guessed by nobody.                                            *)
TokensAreKnown ==
    \A p \in Calls : req[p].kind # "logoutAll" => req[p].token \in issued \cup {Unknown}

LEMMA TokensInit == Init => TokensAreKnown
BY DEF Init, TokensAreKnown

LEMMA TokensNext == IInv /\ TokensAreKnown /\ [Next]_vars => TokensAreKnown'
<1> SUFFICES ASSUME IInv, TokensAreKnown, [Next]_vars, NEW p \in Calls,
                    req'[p].kind # "logoutAll"
             PROVE  req'[p].token \in issued' \cup {Unknown}
  BY DEF TokensAreKnown
<1>1. issued \subseteq issued'
  BY DEF Next, vars, rows, Login, Expire, Start, Step, RotateInvalid, RotateReuse,
         RotateExpired, RotateInactive, RotateProceed, RotateCommit, LogoutFind,
         RevokeSnapshot, RevokeUpdate, Abort
<1>2. ASSUME NEW q \in Calls, Start(q) PROVE req'[p].token \in issued' \cup {Unknown}
  BY <1>1, <1>2 DEF Start, TokensAreKnown, IInv, TypeOK
<1>3. ASSUME \A q \in Calls : ~Start(q) PROVE req' = req
  BY <1>3 DEF Next, vars, rows, Login, Expire, Step, RotateInvalid, RotateReuse,
         RotateExpired, RotateInactive, RotateProceed, RotateCommit, LogoutFind,
         RevokeSnapshot, RevokeUpdate, Abort
<1> QED BY <1>1, <1>2, <1>3 DEF TokensAreKnown

LEMMA ReachedInit == Init => SessionIsReached
BY DEF Init, SessionIsReached, Chosen

(* Nothing becomes active and no replacement is forgotten.                  *)
LEMMA StaysReached ==
    ASSUME NEW p \in Calls, Reached(p), req'[p] = req[p], target'[p] = target[p],
           family'[req[p].token] = family[req[p].token],
           Active(family[req[p].token])' \subseteq Active(family[req[p].token]),
           \A t \in target[p] : family'[t] = family[t],
           \A t \in target[p] : replacedBy[t] # None => replacedBy'[t] # None
    PROVE  Reached(p)'
BY DEF Reached

LEMMA ReachedNext ==
    IInv /\ TokensAreKnown /\ SessionIsReached /\ [Next]_vars => SessionIsReached'
<1> SUFFICES ASSUME IInv, TokensAreKnown, SessionIsReached, [Next]_vars, NEW p \in Calls, Chosen(p)'
             PROVE  Reached(p)'
  BY DEF SessionIsReached
<1> USE RefreshTokensAssumption
<1>1. ASSUME pc'[p] = pc[p], req'[p] = req[p], target'[p] = target[p],
             UNCHANGED <<issued, family, replacedBy>>, revoked \subseteq revoked'
      PROVE  Reached(p)'
  <2>1. Reached(p)
    BY <1>1 DEF Chosen, SessionIsReached
  <2> QED BY <1>1, <2>1, StaysReached DEF Active
<1>2. CASE UNCHANGED vars
  BY <1>1, <1>2 DEF vars, rows
<1>3. ASSUME NEW f \in Families, Login(f) PROVE Reached(p)'
  <2>1. PICK n \in Tokens \ issued : /\ issued' = issued \cup {n}
                                     /\ family' = [family EXCEPT ![n] = f]
    BY <1>3 DEF Login
  <2>2. /\ UNCHANGED <<revoked, replacedBy, req, target, pc>>
        /\ \A t \in issued : family[t] # f /\ family'[t] = family[t]
        /\ family'[n] = f
    BY <1>3, <2>1 DEF Login, IInv, TypeOK
  <2>3. req[p].token \in issued /\ Chosen(p)
    <3>1. req[p].kind # "logoutAll" /\ req[p].token \in issued'
      BY <2>2 DEF Chosen
    <3>2. req[p].token \in issued
      BY <2>1, <3>1 DEF TokensAreKnown, IInv, TypeOK
    <3> QED BY <2>2, <3>2 DEF Chosen
  <2>4. Reached(p)
    BY <2>3 DEF SessionIsReached
  <2>5. Active(family[req[p].token])' \subseteq Active(family[req[p].token])
    BY <2>1, <2>2, <2>3 DEF Active
  <2>6. target[p] \subseteq issued
    BY DEF IInv, TypeOK
  <2> QED BY <2>2, <2>3, <2>4, <2>5, <2>6, StaysReached
<1>4. ASSUME NEW u \in Tokens, Expire(u) PROVE Reached(p)'
  BY <1>1, <1>4 DEF Expire, rows
<1>5. ASSUME NEW q \in Calls, RotateCommit(q) PROVE Reached(p)'
  <2> DEFINE old == req[q].token
             f == family[req[p].token]
  <2>1. PICK n \in Tokens \ issued :
           /\ issued' = issued \cup {n}
           /\ family' = [family EXCEPT ![n] = family[old]]
           /\ replacedBy' = [replacedBy EXCEPT ![old] = n]
    BY <1>5 DEF RotateCommit
  <2>2. /\ revoked' = revoked \cup {old} /\ old \in issued \ revoked
        /\ UNCHANGED <<req, target>>
        /\ pc' = [pc EXCEPT ![q] = "rotated"]
    BY <1>5 DEF RotateCommit, Goto, IInv, RotationHoldsToken
  <2>3. /\ \A t \in issued : family'[t] = family[t]
        /\ family'[n] = family[old]
        /\ \A t \in Tokens : replacedBy'[t] = IF t = old THEN n ELSE replacedBy[t]
        /\ issued \subseteq Tokens /\ target[p] \subseteq issued
        /\ n # None
    BY <2>1, <2>2, RefreshTokensAssumption DEF IInv, TypeOK
  <2>4. pc'[p] = pc[p]
    BY <2>2 DEF Chosen, IInv, TypeOK
  <2>5. req[p].token \in issued /\ Chosen(p)
    <3>1. req[p].kind # "logoutAll" /\ req[p].token \in issued'
      BY <2>2 DEF Chosen
    <3>2. req[p].token \in issued
      BY <2>1, <3>1 DEF TokensAreKnown, IInv, TypeOK
    <3> QED BY <2>2, <2>4, <3>2 DEF Chosen
  <2>6. Reached(p) /\ family'[req'[p].token] = f
    BY <2>2, <2>3, <2>5 DEF SessionIsReached
  <2>7. CASE family[old] = f /\ Active(f) \subseteq target[p]
    <3>1. old \in target[p]
      BY <2>2, <2>7 DEF Active
    <3>2. replacedBy'[old] # None /\ family'[old] = f
      BY <2>2, <2>3, <2>7
    <3> QED BY <2>2, <2>6, <3>1, <3>2 DEF Reached
  <2>8. CASE family[old] # f /\ Active(f) \subseteq target[p]
    <3>1. Active(f)' \subseteq Active(f)
      BY <2>1, <2>2, <2>3, <2>6, <2>8 DEF Active
    <3> QED BY <2>2, <2>6, <2>8, <3>1 DEF Reached, Active
  <2>9. CASE \E t \in target[p] : family[t] = f /\ replacedBy[t] # None
    BY <2>2, <2>3, <2>6, <2>9 DEF Reached
  <2> QED BY <2>6, <2>7, <2>8, <2>9 DEF Reached
<1>6. ASSUME NEW q \in Calls, RevokeSnapshot(q) PROVE Reached(p)'
  <2>1. UNCHANGED <<rows, req>> /\ target' = [target EXCEPT ![q] = InScope(req[q])]
        /\ pc' = [pc EXCEPT ![q] = "update"]
    BY <1>6 DEF RevokeSnapshot, Goto
  <2>2. CASE p = q
    <3>1. req[p].kind # "logoutAll" /\ target'[p] = InScope(req[p])
      BY <2>1, <2>2 DEF Chosen, IInv, TypeOK
    <3>2. Active(family[req[p].token]) = InScope(req[p])
      BY <3>1 DEF Active, InScope
    <3> QED BY <2>1, <3>1, <3>2 DEF Reached, Active, rows
  <2>3. CASE p # q
    BY <1>1, <2>1, <2>3 DEF rows, IInv, TypeOK
  <2> QED BY <2>2, <2>3
<1>7. ASSUME NEW q \in Calls, RevokeUpdate(q) PROVE Reached(p)'
  <2>1. UNCHANGED <<issued, family, replacedBy, req, target>> /\ revoked \subseteq revoked'
    BY <1>7 DEF RevokeUpdate
  <2>2. Chosen(p)
    BY <1>7, <2>1 DEF RevokeUpdate, Goto, Chosen, IInv, TypeOK
  <2>3. Reached(p)
    BY <2>2 DEF SessionIsReached
  <2> QED BY <2>1, <2>3, StaysReached DEF Active
<1>8. ASSUME NEW q \in Calls, LogoutFind(q) PROVE Reached(p)'
  <2>1. p # q
    BY <1>8 DEF LogoutFind, Goto, rows, Chosen, IInv, TypeOK
  <2> QED BY <1>1, <1>8, <2>1 DEF LogoutFind, Goto, rows, IInv, TypeOK
<1>9. ASSUME NEW q \in Calls,
             \/ Start(q) \/ RotateInvalid(q) \/ RotateReuse(q) \/ RotateExpired(q)
             \/ RotateInactive(q) \/ RotateProceed(q) \/ Abort(q)
      PROVE  Reached(p)'
  <2>1. p # q
    BY <1>9 DEF Start, RotateInvalid, RotateReuse, RotateExpired, RotateInactive,
                RotateProceed, Abort, Goto, Chosen, IInv, TypeOK
  <2>2. pc'[p] = pc[p] /\ req'[p] = req[p]
    BY <1>9, <2>1 DEF Start, RotateInvalid, RotateReuse, RotateExpired, RotateInactive,
                RotateProceed, Abort, Goto, IInv, TypeOK
  <2>3. UNCHANGED <<rows, target>>
    BY <1>9 DEF Start, RotateInvalid, RotateReuse, RotateExpired, RotateInactive,
                RotateProceed, Abort
  <2> QED BY <1>1, <2>2, <2>3 DEF rows
<1> QED BY <1>2, <1>3, <1>4, <1>5, <1>6, <1>7, <1>8, <1>9 DEF Next, Step

(* A revocation revokes all the tokens it set out to revoke, and its        *)
(* session outlives it only through a rotation of one of them               *)
(* (refresh-token.service.ts:121-132, 150-158).                             *)
THEOREM RevocationCompletes == Spec => []RevocationIsComplete
<1>1. IInv /\ SessionIsReached => RevocationIsComplete
  <2> SUFFICES ASSUME IInv, SessionIsReached, NEW p \in Calls,
                      pc[p] \in {"reuse", "loggedOut"}
               PROVE  /\ target[p] \subseteq revoked
                      /\ req[p].kind # "logoutAll" /\ req[p].token \in issued =>
                             \/ Active(family[req[p].token]) = {}
                             \/ \E t \in target[p] : /\ family[t] = family[req[p].token]
                                                    /\ replacedBy[t] # None
    BY DEF RevocationIsComplete
  <2>1. target[p] \subseteq revoked
    BY DEF IInv, RevokedAllChosen
  <2>2. ASSUME req[p].kind # "logoutAll", req[p].token \in issued PROVE Reached(p)
    BY <2>2 DEF SessionIsReached, Chosen
  <2> QED BY <2>1, <2>2 DEF Reached, Active
<1> QED BY Invariance, TokensInit, TokensNext, ReachedInit, ReachedNext, <1>1, PTL DEF Spec

-----------------------------------------------------------------------------

(* A session that has ended never gets another token: only a rotation that  *)
(* holds an active token issues one (refresh-token.service.ts:65-72,       *)
(* 93-110).                                                                *)
THEOREM EndIsFinal == Spec => SessionEndIsFinal
<1> DEFINE A == /\ \A f \in Families :
                      Active(f) = {} /\ (\E t \in issued : family[t] = f)
                          => Active(f)' = {}
                /\ \A t \in Tokens :
                      replacedBy[t] # None => replacedBy'[t] = replacedBy[t]
<1>1. IInv /\ [Next]_vars => [A]_vars
  <2> SUFFICES ASSUME IInv, Next PROVE A
    OBVIOUS
  <2>1. ASSUME UNCHANGED <<issued, family, replacedBy>>, revoked \subseteq revoked'
        PROVE  A
    BY <2>1 DEF Active
  <2>2. ASSUME NEW f \in Families, Login(f) PROVE A
    <3>1. PICK n \in Tokens \ issued : /\ issued' = issued \cup {n}
                                       /\ family' = [family EXCEPT ![n] = f]
      BY <2>2 DEF Login
    <3> QED BY <2>2, <3>1 DEF Login, Active, IInv, TypeOK
  <2>3. ASSUME NEW p \in Calls, RotateCommit(p) PROVE A
    <3> DEFINE old == req[p].token
    <3>1. PICK n \in Tokens \ issued :
             /\ issued' = issued \cup {n}
             /\ family' = [family EXCEPT ![n] = family[old]]
             /\ replacedBy' = [replacedBy EXCEPT ![old] = n]
      BY <2>3 DEF RotateCommit
    <3>2. revoked' = revoked \cup {old} /\ old \in issued \ revoked
      BY <2>3 DEF RotateCommit, IInv, RotationHoldsToken
    <3>3. replacedBy[old] = None
      BY <3>2 DEF IInv, TypeOK, LinearLineage
    <3>4. \A t \in Tokens : replacedBy[t] # None => replacedBy'[t] = replacedBy[t]
      BY <3>1, <3>3 DEF IInv, TypeOK
    <3>5. ASSUME NEW f \in Families, Active(f) = {} PROVE Active(f)' = {}
      <4>1. family[old] # f
        BY <3>2, <3>5 DEF Active
      <4> QED BY <3>1, <3>2, <3>5, <4>1 DEF Active, IInv, TypeOK
    <3> QED BY <3>4, <3>5
  <2>4. ASSUME NEW t \in Tokens, Expire(t) PROVE A
    BY <2>1, <2>4 DEF Expire, rows
  <2>5. ASSUME NEW p \in Calls, Start(p) \/ Step(p) \/ Abort(p), ~RotateCommit(p)
        PROVE  A
    <3>1. UNCHANGED <<issued, family, replacedBy>> /\ revoked \subseteq revoked'
      BY <2>5 DEF Step, Start, RotateInvalid, RotateReuse, RotateExpired,
                  RotateInactive, RotateProceed, LogoutFind, RevokeSnapshot,
                  RevokeUpdate, Abort, rows
    <3> QED BY <2>1, <3>1
  <2> QED BY <2>2, <2>3, <2>4, <2>5 DEF Next
<1> QED BY Invariance, <1>1, PTL DEF Spec, SessionEndIsFinal

-----------------------------------------------------------------------------

(* What a request may revoke: a row of its user, or of the family of the    *)
(* token it presents.                                                      *)
Concerns(p, t) ==
    IF req[p].kind = "logoutAll" THEN UserOf[family[t]] = req[p].user
    ELSE req[p].token \in issued /\ family[req[p].token] = family[t]

(* The rows that a revocation chose in its snapshot are still its own when  *)
(* it updates them, whatever logins and rotations came between.            *)
TargetsAreConcerned == \A p \in Calls : \A t \in target[p] : Concerns(p, t)

(* A row never changes its family, nor a request in progress its contents.  *)
LEMMA StaysConcerned ==
    ASSUME IInv, NEW p \in Calls, NEW t \in issued, Concerns(p, t),
           req'[p] = req[p], issued \subseteq issued',
           \A u \in issued : family'[u] = family[u]
    PROVE  Concerns(p, t)'
BY DEF Concerns

LEMMA TargetsInit == Init => TargetsAreConcerned
BY DEF Init, TargetsAreConcerned

LEMMA TargetsNext == IInv /\ TargetsAreConcerned /\ [Next]_vars => TargetsAreConcerned'
<1> SUFFICES ASSUME IInv, TargetsAreConcerned, [Next]_vars,
                    NEW p \in Calls, NEW t \in target'[p]
             PROVE  Concerns(p, t)'
  BY DEF TargetsAreConcerned
<1> USE RefreshTokensAssumption
<1>1. ASSUME t \in target[p], req'[p] = req[p], issued \subseteq issued',
             \A u \in issued : family'[u] = family[u]
      PROVE  Concerns(p, t)'
  <2>1. t \in issued /\ Concerns(p, t)
    BY <1>1 DEF IInv, TypeOK, TargetsAreConcerned
  <2> QED BY <1>1, <2>1, StaysConcerned
<1>2. CASE UNCHANGED vars
  BY <1>1, <1>2 DEF vars, rows
<1>3. ASSUME NEW f \in Families, Login(f) PROVE Concerns(p, t)'
  <2>1. PICK n \in Tokens \ issued : /\ issued' = issued \cup {n}
                                     /\ family' = [family EXCEPT ![n] = f]
    BY <1>3 DEF Login
  <2>2. \A u \in issued : family'[u] = family[u]
    BY <2>1 DEF IInv, TypeOK
  <2> QED BY <1>1, <1>3, <2>1, <2>2 DEF Login
<1>4. ASSUME NEW u \in Tokens, Expire(u) PROVE Concerns(p, t)'
  BY <1>1, <1>4 DEF Expire, rows
<1>5. ASSUME NEW q \in Calls, Start(q) PROVE Concerns(p, t)'
  <2>1. target' = target /\ UNCHANGED rows
    BY <1>5 DEF Start
  <2>2. p # q
    BY <1>5, <2>1 DEF Start, IInv, CallAtStep
  <2>3. req'[p] = req[p]
    BY <1>5, <2>2 DEF Start, IInv, TypeOK
  <2> QED BY <1>1, <2>1, <2>3 DEF rows
<1>6. ASSUME NEW q \in Calls, RotateCommit(q) PROVE Concerns(p, t)'
  <2>1. PICK n \in Tokens \ issued :
           /\ issued' = issued \cup {n}
           /\ family' = [family EXCEPT ![n] = family[req[q].token]]
    BY <1>6 DEF RotateCommit
  <2>2. \A u \in issued : family'[u] = family[u]
    BY <2>1 DEF IInv, TypeOK
  <2> QED BY <1>1, <1>6, <2>1, <2>2 DEF RotateCommit
<1>7. ASSUME NEW q \in Calls, RevokeSnapshot(q) PROVE Concerns(p, t)'
  <2>1. UNCHANGED <<issued, family, req>>
    BY <1>7 DEF RevokeSnapshot, rows
  <2>2. CASE p = q
    <3>1. t \in InScope(req[p])
      BY <1>7, <2>2 DEF RevokeSnapshot, IInv, TypeOK
    <3>2. req[p].kind # "logoutAll" => req[p].token \in issued
      BY <1>7, <2>2 DEF RevokeSnapshot, IInv, CallAtStep
    <3> QED BY <2>1, <3>1, <3>2 DEF InScope, Concerns
  <2>3. CASE p # q
    BY <1>1, <1>7, <2>1, <2>3 DEF RevokeSnapshot, IInv, TypeOK
  <2> QED BY <2>2, <2>3
<1>8. ASSUME NEW q \in Calls, Step(q) \/ Abort(q), ~RotateCommit(q), ~RevokeSnapshot(q)
      PROVE  Concerns(p, t)'
  <2>1. UNCHANGED <<issued, family, req, target>>
    BY <1>8 DEF Step, RotateInvalid, RotateReuse, RotateExpired, RotateInactive,
                RotateProceed, LogoutFind, RevokeUpdate, Abort, rows
  <2> QED BY <1>1, <2>1
<1> QED BY <1>2, <1>3, <1>4, <1>5, <1>6, <1>7, <1>8 DEF Next

(* A step that revokes a token is the commit of its own rotation or the     *)
(* update of a revocation that chose it.                                   *)
RevokesItsOwn ==
    \A t \in revoked' \ revoked : \E p \in Calls :
        /\ pc'[p] # pc[p]
        /\ IF req[p].kind = "logoutAll" THEN UserOf[family[t]] = req[p].user
           ELSE req[p].token \in issued /\ family[req[p].token] = family[t]

LEMMA RevokesItsOwnStep == IInv /\ TargetsAreConcerned /\ [Next]_vars => [RevokesItsOwn]_vars
<1> SUFFICES ASSUME IInv, TargetsAreConcerned, Next, NEW t \in revoked' \ revoked
             PROVE  \E p \in Calls : pc'[p] # pc[p] /\ Concerns(p, t)
  BY DEF RevokesItsOwn, Concerns
<1>1. ASSUME NEW p \in Calls, RotateCommit(p)
      PROVE  pc'[p] # pc[p] /\ Concerns(p, t)
  <2>1. pc'[p] # pc[p] /\ t = req[p].token
    BY <1>1 DEF RotateCommit, Goto, IInv, TypeOK
  <2>2. req[p].kind = "rotate" /\ req[p].token \in issued
    BY <1>1 DEF RotateCommit, IInv, RotationHoldsToken
  <2> QED BY <2>1, <2>2 DEF Concerns
<1>2. ASSUME NEW p \in Calls, RevokeUpdate(p)
      PROVE  pc'[p] # pc[p] /\ Concerns(p, t)
  <2>1. t \in target[p]
    BY <1>2 DEF RevokeUpdate
  <2>2. pc'[p] # pc[p]
    BY <1>2 DEF RevokeUpdate, Goto, IInv, TypeOK
  <2> QED BY <2>1, <2>2 DEF TargetsAreConcerned
<1>3. ASSUME NEW p \in Calls, Start(p) \/ Step(p) \/ Abort(p) PROVE RotateCommit(p) \/ RevokeUpdate(p)
  BY <1>3 DEF Start, Step, RotateInvalid, RotateReuse, RotateExpired, RotateInactive,
              RotateProceed, LogoutFind, RevokeSnapshot, Abort, rows
<1>4. (\A f \in Families : ~Login(f)) /\ \A u \in Tokens : ~Expire(u)
  BY DEF Login, Expire, rows
<1> QED BY <1>1, <1>2, <1>3, <1>4 DEF Next

(* A logout with a token, or a reuse, ends the session of that token and no *)
(* other, and a logout with a JWT alone those of its user: although the     *)
(* rows an updateMany applies to are chosen in one statement's snapshot and *)
(* revoked after waiting for their locks (refresh-token.service.ts:122-125, *)
(* 150-153, 167-170; auth.routes.ts:243, "terminates the entire session     *)
(* token family").  API_DOCUMENTATION.md:215 says of every logout that it   *)
(* revokes "all associated sessions for the user"; the code does not.       *)
THEOREM SessionsIndependent == Spec => [][RevokesItsOwn]_vars
BY Invariance, TargetsInit, TargetsNext, RevokesItsOwnStep, PTL DEF Spec

=============================================================================
