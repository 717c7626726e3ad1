-------------------------- MODULE AuthSessionProofs --------------------------
(***************************************************************************)
(* A chain of refresh tokens has one live end but for races, and the       *)
(* cookie of the browser is no dead end, for any number of tabs, users,    *)
(* requests, lost answers, failing commits and expiries; and the limiter   *)
(* before the login route is exact, for every limit and window.            *)
(***************************************************************************)
EXTENDS AuthSession, SequenceLemmas, FiniteSetTheorems

Persons == Users \cup {"nobody"}

RequestRecord ==
    [id : Nat, kind : {"register", "login", "refresh", "logout", "me"}, tab : Tabs, user : Persons,
     cookie : Nat, applies : BOOLEAN, heard : BOOLEAN, stage : {"sent", "checked", "answered"},
     ok : BOOLEAN, token : Nat]

RowRecord ==
    [user : Persons, root : Nat, revoked : BOOLEAN, expired : BOOLEAN, replacedBy : Nat]

(* A request of a table with n tokens: what it names exists, and a refresh   *)
(* or logout that passed its check has a token.                              *)
Good(r, n) ==
    /\ r \in RequestRecord
    /\ r.cookie <= n /\ r.token <= n
    /\ r.stage = "checked" /\ r.kind \in {"refresh", "logout"} => r.cookie # None

AccessRecord == [user : Persons, fresh : BOOLEAN]

Statuses == {"closed", "bootstrapping", "authenticated", "anonymous"}

TabRecord == [status : Statuses, user : Persons]

TableOK ==
    /\ tokens \in Seq(RowRecord) /\ races \in Seq(Nat) /\ ended \in Seq(Nat)
    /\ Len(races) = Len(tokens) /\ Len(ended) = Len(tokens)

BrowserOK ==
    /\ cookie \in 0..Len(tokens)
    /\ access \in AccessRecord
    /\ tab \in [Tabs -> TabRecord]
    /\ asks \in Nat

TInv ==
    /\ TableOK /\ BrowserOK
    /\ \A r \in requests : Good(r, Len(tokens))

-----------------------------------------------------------------------------
(* Requests. *)

(* A longer table is as good. *)
LEMMA GoodGrows ==
  ASSUME NEW n \in Nat, NEW r, Good(r, n)
  PROVE  Good(r, n + 1)
<1>1. r.cookie \in Nat /\ r.token \in Nat
  BY DEF Good, RequestRecord
<1>2. QED
  BY <1>1 DEF Good

(* A request a tab sends is well formed: it names a user and a token that    *)
(* exist.                                                                    *)
LEMMA RequestGood ==
  ASSUME TInv, NEW kind \in {"register", "login", "refresh", "logout", "me"}, NEW t \in Tabs,
         NEW user \in Persons, NEW applies \in BOOLEAN, NEW id \in Nat
  PROVE  /\ Good([Request(kind, t, user, applies) EXCEPT !.id = id], Len(tokens))
         /\ Good(Request(kind, t, user, applies), Len(tokens))
<1>1. cookie \in Nat /\ cookie <= Len(tokens) /\ asks \in Nat /\ Len(tokens) \in Nat
  BY DEF TInv, BrowserOK, TableOK
<1> DEFINE r == Request(kind, t, user, applies)
           s == [r EXCEPT !.id = id]
<1>2. r \in RequestRecord
  BY <1>1 DEF Request, RequestRecord, None
<1>3. r.cookie = cookie /\ r.token = None /\ r.stage = "sent"
  BY DEF Request
<1> HIDE DEF r
<1>4. s \in RequestRecord /\ s.cookie = r.cookie /\ s.token = r.token /\ s.stage = r.stage
  BY <1>2 DEF RequestRecord
<1>5. QED
  BY <1>1, <1>2, <1>3, <1>4 DEF Good, None, r

(* So is a request that was checked, accepted or refused.                    *)
LEMMA StagesGood ==
  ASSUME NEW n \in Nat, NEW r, Good(r, n), NEW user \in Persons, NEW token \in 0..n
  PROVE  /\ (r.kind \in {"refresh", "logout"} => r.cookie # None) => Good(Checked(r), n)
         /\ Good(Accepted(r, user, token), n)
         /\ Good(Refused(r), n)
<1>1. r \in RequestRecord
  BY DEF Good
<1>2. token \in Nat /\ token <= n
  OBVIOUS
<1>3. Checked(r) \in RequestRecord /\ Accepted(r, user, token) \in RequestRecord /\ Refused(r) \in RequestRecord
  BY <1>1, <1>2 DEF Checked, Accepted, Refused, RequestRecord
<1>4. QED
  BY <1>1, <1>2, <1>3 DEF Good, Checked, Accepted, Refused, RequestRecord

-----------------------------------------------------------------------------
(* The table. *)

(* A new row of the table is a row.                                          *)
LEMMA RowTyped ==
  ASSUME NEW user \in Persons, NEW root \in Nat
  PROVE  Row(user, root) \in RowRecord
BY DEF Row, RowRecord, None

(* Revoking keeps the length, the roots and the users; only the row revoked  *)
(* is no longer live.                                                        *)
LEMMA RevokeTyped ==
  ASSUME NEW rows \in Seq(RowRecord), NEW k \in DOMAIN rows, NEW replacement \in Nat
  PROVE  /\ Revoke(rows, k, replacement) \in Seq(RowRecord)
         /\ Len(Revoke(rows, k, replacement)) = Len(rows)
         /\ DOMAIN Revoke(rows, k, replacement) = DOMAIN rows
         /\ \A i \in DOMAIN rows :
              /\ Revoke(rows, k, replacement)[i].root = rows[i].root
              /\ Revoke(rows, k, replacement)[i].user = rows[i].user
              /\ Revoke(rows, k, replacement)[i].revoked <=> (rows[i].revoked \/ i = k)
<1> DEFINE new == [rows[k] EXCEPT !.revoked = TRUE, !.replacedBy = IF replacement = None THEN @ ELSE replacement]
<1>1. rows[k] \in RowRecord
  OBVIOUS
<1>2. new \in RowRecord /\ new.root = rows[k].root /\ new.user = rows[k].user /\ new.revoked = TRUE
  BY <1>1 DEF RowRecord
<1>3. Revoke(rows, k, replacement) = [rows EXCEPT ![k] = new]
  BY <1>1 DEF Revoke, RowRecord
<1> HIDE DEF new
<1>4. Revoke(rows, k, replacement) \in Seq(RowRecord) /\ Len(Revoke(rows, k, replacement)) = Len(rows)
      /\ DOMAIN Revoke(rows, k, replacement) = DOMAIN rows
  BY <1>2, <1>3
<1>5. ASSUME NEW i \in DOMAIN rows
      PROVE  /\ Revoke(rows, k, replacement)[i].root = rows[i].root
             /\ Revoke(rows, k, replacement)[i].user = rows[i].user
             /\ Revoke(rows, k, replacement)[i].revoked <=> (rows[i].revoked \/ i = k)
  <2>1. rows[i] \in RowRecord
    BY <1>5
  <2>2. rows[i].revoked \in BOOLEAN
    BY <2>1 DEF RowRecord
  <2>3. CASE i = k
    BY <1>2, <1>3, <1>5, <2>3
  <2>4. CASE i # k
    BY <1>3, <1>5, <2>2, <2>4
  <2>5. QED
    BY <2>3, <2>4
<1>6. QED
  BY <1>4, <1>5

(* What a revocation does to the roots and to what is live. *)
Revoked(rows, k, new) ==
    /\ new \in Seq(RowRecord) /\ Len(new) = Len(rows) /\ DOMAIN new = DOMAIN rows
    /\ \A i \in DOMAIN rows : new[i].root = rows[i].root
    /\ \A i \in DOMAIN rows : new[i].revoked <=> (rows[i].revoked \/ i = k)

(* Revoking a row changes no other row, and of this one only what rotation   *)
(* writes.                                                                   *)
LEMMA RevokeFacts ==
  ASSUME NEW rows \in Seq(RowRecord), NEW k \in DOMAIN rows, NEW replacement \in Nat
  PROVE  Revoked(rows, k, Revoke(rows, k, replacement))
<1>1. /\ Revoke(rows, k, replacement) \in Seq(RowRecord)
      /\ Len(Revoke(rows, k, replacement)) = Len(rows)
      /\ DOMAIN Revoke(rows, k, replacement) = DOMAIN rows
      /\ \A i \in DOMAIN rows :
           /\ Revoke(rows, k, replacement)[i].root = rows[i].root
           /\ Revoke(rows, k, replacement)[i].user = rows[i].user
           /\ Revoke(rows, k, replacement)[i].revoked <=> (rows[i].revoked \/ i = k)
  BY RevokeTyped, Zenon
<1>2. QED
  BY <1>1, Zenon DEF Revoked

-----------------------------------------------------------------------------
(* Chains. *)

(* Tokens come after the first one of their chain. *)
RootsOK ==
    \A k \in DOMAIN tokens :
        tokens[k].root \in 1..k /\ tokens[tokens[k].root].root = tokens[k].root

ChainInv == RootsOK /\ ChainForksOnlyInRaces

(* The live tokens of a chain can be counted.                                *)
LEMMA LiveFinite ==
  ASSUME TableOK, NEW root
  PROVE  /\ IsFiniteSet(LiveTokens(root)) /\ Cardinality(LiveTokens(root)) \in Nat
         /\ LiveTokens(root) \subseteq 1..Len(tokens)
<1>1. Len(tokens) \in Nat /\ DOMAIN tokens = 1..Len(tokens)
  BY DEF TableOK
<1>2. IsFiniteSet(1..Len(tokens))
  BY <1>1, FS_Interval
<1>3. LiveTokens(root) \subseteq 1..Len(tokens)
  BY <1>1 DEF LiveTokens
<1>4. IsFiniteSet(LiveTokens(root))
  BY <1>2, <1>3, FS_Subset
<1>5. QED
  BY <1>3, <1>4, FS_CardinalityType

(* Each chain has its two counters.                                          *)
LEMMA Counters ==
  ASSUME TableOK, NEW i \in 1..Len(tokens)
  PROVE  races[i] \in Nat /\ ended[i] \in Nat
BY DEF TableOK

(* What is appended comes last, and the rest stays. *)
Extended(S, s, e, new) ==
    /\ new \in Seq(S) /\ Len(new) = Len(s) + 1 /\ DOMAIN new = 1..(Len(s) + 1)
    /\ new[Len(s) + 1] = e
    /\ \A i \in 1..Len(s) : new[i] = s[i]

(* What a sequence with one more element holds.                              *)
LEMMA Appended ==
  ASSUME NEW S, NEW s \in Seq(S), NEW e \in S
  PROVE  Extended(S, s, e, Append(s, e))
BY DEF Extended

(* One number of a sequence is replaced. *)
LEMMA Replaced ==
  ASSUME NEW s \in Seq(Nat), NEW k \in 1..Len(s), NEW v \in Nat, NEW new, new = [s EXCEPT ![k] = v]
  PROVE  /\ new \in Seq(Nat) /\ Len(new) = Len(s) /\ new[k] = v
         /\ \A i \in 1..Len(s) : i # k => new[i] = s[i]
OBVIOUS

(* A token more, at the end of the chain of root, which may be new.          *)
LEMMA RootsGrow ==
  ASSUME TableOK, RootsOK, NEW n \in Nat, n = Len(tokens) + 1, NEW root \in 1..n,
         DOMAIN tokens' = 1..n,
         \A i \in 1..Len(tokens) : tokens'[i].root = tokens[i].root,
         tokens'[n].root = root, tokens'[root].root = root
  PROVE  RootsOK'
<1>1. Len(tokens) \in Nat /\ DOMAIN tokens = 1..Len(tokens) /\ 1..n = 1..Len(tokens) \cup {n}
  BY DEF TableOK
<1>2. ASSUME NEW i \in 1..Len(tokens)
      PROVE  tokens'[i].root \in 1..i /\ tokens'[tokens'[i].root].root = tokens'[i].root
  <2>1. tokens[i].root \in 1..i /\ tokens[tokens[i].root].root = tokens[i].root
    BY <1>1 DEF RootsOK
  <2>2. tokens[i].root \in 1..Len(tokens)
    BY <1>1, <2>1
  <2>3. QED
    BY <2>1, <2>2
<1>3. ASSUME NEW i \in 1..n
      PROVE  tokens'[i].root \in 1..i /\ tokens'[tokens'[i].root].root = tokens'[i].root
  <2>1. CASE i = n
    BY <2>1
  <2>2. CASE i \in 1..Len(tokens)
    BY <1>2, <2>2
  <2>3. QED
    BY <1>1, <2>1, <2>2
<1>4. QED
  BY <1>3, Zenon DEF RootsOK

(* A chain that begins with a login has one live token. *)
LEMMA StartFacts ==
  ASSUME TableOK, ChainInv, NEW n \in Nat, n = Len(tokens) + 1,
         DOMAIN tokens' = 1..n, tokens'[n].root = n, ~tokens'[n].revoked,
         \A i \in 1..Len(tokens) : tokens'[i] = tokens[i],
         races'[n] = 0, ended'[n] = 0,
         \A i \in 1..Len(tokens) : races'[i] = races[i] /\ ended'[i] = ended[i]
  PROVE  ChainInv'
<1>1. Len(tokens) \in Nat /\ DOMAIN tokens = 1..Len(tokens) /\ 1..n = 1..Len(tokens) \cup {n}
      /\ n \notin 1..Len(tokens)
  BY DEF TableOK
<1>2. RootsOK'
  BY <1>1, RootsGrow DEF ChainInv
<1>3. ASSUME NEW root \in 1..n, tokens'[root].root = root
      PROVE  Cardinality(LiveTokens(root)') + ended'[root] <= 1 + races'[root]
  <2>1. CASE root = n
    <3>1. \A k \in 1..Len(tokens) : tokens[k].root # n
      BY <1>1 DEF ChainInv, RootsOK
    <3>2. LiveTokens(root)' = {n}
      BY <1>1, <2>1, <3>1 DEF LiveTokens
    <3>3. Cardinality({n}) = 1
      BY FS_Singleton
    <3>4. Cardinality(LiveTokens(root)') = 1
      BY <3>2, <3>3
    <3>5. QED
      BY <2>1, <3>4
  <2>2. CASE root \in 1..Len(tokens)
    <3>1. LiveTokens(root)' = LiveTokens(root)
      BY <1>1, <2>2 DEF LiveTokens
    <3>2. Cardinality(LiveTokens(root)) + ended[root] <= 1 + races[root]
      BY <1>1, <1>3, <2>2 DEF ChainInv, ChainForksOnlyInRaces
    <3>3. QED
      BY <2>2, <3>1, <3>2
  <2>3. QED
    BY <1>1, <2>1, <2>2
<1>4. ChainForksOnlyInRaces'
  BY <1>3 DEF ChainForksOnlyInRaces
<1>5. QED
  BY <1>2, <1>4 DEF ChainInv

(* Rotation replaces the live end of a chain; of a token that was revoked    *)
(* meanwhile it makes a second end and counts a race.                        *)
RotationStep(n, k, root) ==
    /\ n = Len(tokens) + 1 /\ k \in 1..Len(tokens) /\ root \in 1..Len(tokens)
    /\ tokens[k].root = root /\ tokens[root].root = root
    /\ DOMAIN tokens' = 1..n /\ tokens'[n].root = root /\ ~tokens'[n].revoked
    /\ \A i \in 1..Len(tokens) : tokens'[i].root = tokens[i].root
    /\ \A i \in 1..Len(tokens) : tokens'[i].revoked <=> (tokens[i].revoked \/ i = k)
    /\ \A i \in 1..Len(tokens) : i # root => races'[i] = races[i]
    /\ \A i \in 1..Len(tokens) : ended'[i] = ended[i]
    /\ \/ tokens[k].revoked /\ races'[root] = races[root] + 1
       \/ ~tokens[k].revoked /\ races'[root] = races[root]

(* A rotation replaces one live end, or adds one and counts a race.          *)
LEMMA RotationFacts ==
  ASSUME TableOK, ChainInv, NEW n \in Nat, NEW k, NEW root, RotationStep(n, k, root)
  PROVE  ChainInv'
<1> USE DEF RotationStep
<1>1. Len(tokens) \in Nat /\ DOMAIN tokens = 1..Len(tokens) /\ 1..n = 1..Len(tokens) \cup {n}
      /\ n \notin 1..Len(tokens)
  BY DEF TableOK
<1>2. RootsOK'
  BY <1>1, RootsGrow DEF ChainInv
<1>3. ASSUME NEW first \in 1..n, tokens'[first].root = first
      PROVE  Cardinality(LiveTokens(first)') + ended'[first] <= 1 + races'[first]
  <2>1. first \in 1..Len(tokens) /\ tokens[first].root = first
    BY <1>1, <1>3
  <2>2. Cardinality(LiveTokens(first)) + ended[first] <= 1 + races[first]
    BY <1>1, <2>1 DEF ChainInv, ChainForksOnlyInRaces
  <2>3. IsFiniteSet(LiveTokens(first)) /\ LiveTokens(first) \subseteq 1..Len(tokens)
        /\ Cardinality(LiveTokens(first)) \in Nat
    BY LiveFinite
  <2>4. races[first] \in Nat /\ ended[first] \in Nat
    BY <2>1, Counters
  <2>5. CASE first = root
    <3>1. LiveTokens(first)' = (LiveTokens(first) \ {k}) \cup {n}
      BY <1>1, <2>5 DEF LiveTokens
    <3>2. IsFiniteSet(LiveTokens(first) \ {k})
      BY <2>3, FS_Difference
    <3>3. n \notin LiveTokens(first) \ {k}
      BY <1>1, <2>3, Zenon
    <3>4. Cardinality(LiveTokens(first)') = Cardinality(LiveTokens(first) \ {k}) + 1
      BY <3>1, <3>2, <3>3, FS_AddElement
    <3>5. CASE tokens[k].revoked /\ races'[root] = races[root] + 1
      <4>1. LiveTokens(first) \ {k} = LiveTokens(first)
        BY <3>5 DEF LiveTokens
      <4>2. Cardinality(LiveTokens(first)') = Cardinality(LiveTokens(first)) + 1
        BY <3>4, <4>1
      <4>3. ended'[first] = ended[first] /\ races'[first] = races[first] + 1
        BY <2>1, <2>5, <3>5
      <4>4. QED
        BY <2>2, <2>3, <2>4, <4>2, <4>3
    <3>6. CASE ~tokens[k].revoked /\ races'[root] = races[root]
      <4>1. k \in LiveTokens(first)
        BY <1>1, <2>5, <3>6 DEF LiveTokens
      <4>2. Cardinality(LiveTokens(first) \ {k}) = Cardinality(LiveTokens(first)) - 1
        BY <2>3, <4>1, FS_RemoveElement
      <4>3. ended'[first] = ended[first] /\ races'[first] = races[first]
        BY <2>1, <2>5, <3>6
      <4>4. QED
        BY <2>2, <2>3, <2>4, <3>4, <4>2, <4>3
    <3>7. QED
      BY <3>5, <3>6
  <2>6. CASE first # root
    <3>1. LiveTokens(first)' = LiveTokens(first)
      BY <1>1, <2>6 DEF LiveTokens
    <3>2. QED
      BY <2>1, <2>2, <2>6, <3>1
  <2>7. QED
    BY <2>5, <2>6
<1>4. ChainForksOnlyInRaces'
  BY <1>3 DEF ChainForksOnlyInRaces
<1>5. QED
  BY <1>2, <1>4 DEF ChainInv

(* A logout ends the chain of a token that was still live, and an expiry     *)
(* ends nothing.                                                             *)
EndStep(K, root, k) ==
    /\ K \in SUBSET (1..Len(tokens))
    /\ \/ K = {} /\ ended' = ended
       \/ K = {k} /\ tokens[k].revoked /\ ended' = ended
       \/ /\ K = {k} /\ ~tokens[k].revoked /\ tokens[k].root = root
          /\ ended'[root] = ended[root] + 1
          /\ \A i \in 1..Len(tokens) : i # root => ended'[i] = ended[i]
    /\ DOMAIN tokens' = DOMAIN tokens /\ races' = races
    /\ \A i \in 1..Len(tokens) : tokens'[i].root = tokens[i].root
    /\ \A i \in 1..Len(tokens) : tokens'[i].revoked <=> (tokens[i].revoked \/ i \in K)

(* A logout takes one live end, if it finds one, and counts it.              *)
LEMMA EndFacts ==
  ASSUME TableOK, ChainInv, NEW K, NEW root, NEW k, EndStep(K, root, k)
  PROVE  ChainInv'
<1> USE DEF EndStep
<1>1. Len(tokens) \in Nat /\ DOMAIN tokens = 1..Len(tokens)
  BY DEF TableOK
<1>2. RootsOK'
  <2>1. ASSUME NEW i \in 1..Len(tokens)
        PROVE  tokens'[i].root \in 1..i /\ tokens'[tokens'[i].root].root = tokens'[i].root
    <3>1. tokens[i].root \in 1..i /\ tokens[tokens[i].root].root = tokens[i].root
      BY <1>1 DEF ChainInv, RootsOK
    <3>2. tokens[i].root \in 1..Len(tokens)
      BY <1>1, <3>1
    <3>3. QED
      BY <3>1, <3>2
  <2>2. QED
    BY <1>1, <2>1, Zenon DEF RootsOK
<1>3. ASSUME NEW first \in 1..Len(tokens), tokens'[first].root = first
      PROVE  Cardinality(LiveTokens(first)') + ended'[first] <= 1 + races'[first]
  <2>1. tokens[first].root = first
    BY <1>3
  <2>2. Cardinality(LiveTokens(first)) + ended[first] <= 1 + races[first]
    BY <1>1, <2>1 DEF ChainInv, ChainForksOnlyInRaces
  <2>3. IsFiniteSet(LiveTokens(first)) /\ Cardinality(LiveTokens(first)) \in Nat
    BY LiveFinite
  <2>4. races[first] \in Nat /\ ended[first] \in Nat
    BY <1>1 DEF TableOK
  <2>5. LiveTokens(first)' = LiveTokens(first) \ K
    BY <1>1 DEF LiveTokens
  <2>6. CASE k \in K /\ ~tokens[k].revoked /\ first = root
    <3>1. K = {k} /\ tokens[k].root = root /\ ended'[root] = ended[root] + 1
      BY <2>6
    <3>2. k \in LiveTokens(first)
      BY <1>1, <2>6, <3>1 DEF LiveTokens
    <3>3. Cardinality(LiveTokens(first) \ {k}) = Cardinality(LiveTokens(first)) - 1
      BY <2>3, <3>2, FS_RemoveElement
    <3>4. Cardinality(LiveTokens(first)') = Cardinality(LiveTokens(first)) - 1
      BY <2>5, <3>1, <3>3
    <3>5. ended'[first] = ended[first] + 1
      BY <2>6, <3>1
    <3>6. QED
      BY <2>2, <2>3, <2>4, <3>4, <3>5
  <2>7. CASE ~(k \in K /\ ~tokens[k].revoked /\ first = root)
    <3>1. LiveTokens(first) \ K = LiveTokens(first)
      BY <2>7 DEF LiveTokens
    <3>2. ended'[first] = ended[first]
      BY <2>7
    <3>3. QED
      BY <2>2, <2>5, <3>1, <3>2
  <2>8. QED
    BY <2>6, <2>7
<1>4. ChainForksOnlyInRaces'
  BY <1>1, <1>3 DEF ChainForksOnlyInRaces
<1>5. QED
  BY <1>2, <1>4 DEF ChainInv

-----------------------------------------------------------------------------
(* The steps on the table. *)

(* A login or registration begins a chain with one live end.                 *)
LEMMA StartKeeps ==
  ASSUME TableOK, ChainInv, NEW user \in Persons,
         tokens' = Append(tokens, Row(user, Len(tokens) + 1)),
         races' = Append(races, 0), ended' = Append(ended, 0)
  PROVE  TableOK' /\ Len(tokens)' = Len(tokens) + 1 /\ ChainInv'
<1> DEFINE n == Len(tokens) + 1
           new == Row(user, n)
<1>1. Len(tokens) \in Nat /\ n \in Nat /\ tokens \in Seq(RowRecord) /\ races \in Seq(Nat) /\ ended \in Seq(Nat)
      /\ Len(races) + 1 = n /\ Len(ended) + 1 = n
  BY DEF TableOK
<1>2. new.root = n /\ ~new.revoked /\ new \in RowRecord
  BY <1>1, RowTyped DEF Row
<1> HIDE DEF new
<1>3. /\ tokens' \in Seq(RowRecord) /\ Len(tokens') = n /\ DOMAIN tokens' = 1..n /\ tokens'[n] = new
      /\ \A i \in 1..Len(tokens) : tokens'[i] = tokens[i]
  <2>1. tokens' = Append(tokens, new)
    BY DEF new
  <2>2. Extended(RowRecord, tokens, new, tokens')
    BY <1>1, <1>2, <2>1, Appended, Zenon
  <2>3. QED
    BY <2>2, Zenon DEF Extended
<1>4. /\ races' \in Seq(Nat) /\ Len(races') = n /\ races'[n] = 0
      /\ \A i \in 1..Len(tokens) : races'[i] = races[i]
      /\ ended' \in Seq(Nat) /\ Len(ended') = n /\ ended'[n] = 0
      /\ \A i \in 1..Len(tokens) : ended'[i] = ended[i]
  <2>1. Len(races) = Len(tokens) /\ Len(ended) = Len(tokens) /\ 0 \in Nat
    BY DEF TableOK
  <2>2. Extended(Nat, races, 0, races') /\ Extended(Nat, ended, 0, ended')
    BY <1>1, <2>1, Appended, Zenon
  <2>3. QED
    BY <2>1, <2>2, Zenon DEF Extended
<1>5. TableOK'
  BY <1>3, <1>4 DEF TableOK
<1>6. tokens'[n].root = n /\ ~tokens'[n].revoked
  BY <1>2, <1>3
<1> HIDE DEF n
<1>7. n = Len(tokens) + 1
  BY DEF n
<1>8. ChainInv'
  BY <1>1, <1>3, <1>4, <1>6, <1>7, StartFacts
<1>9. QED
  BY <1>3, <1>5, <1>7, <1>8

(* The root of a token is a token of its own chain.                          *)
LEMMA RootIn ==
  ASSUME TableOK, ChainInv, NEW k \in DOMAIN tokens
  PROVE  /\ Len(tokens) \in Nat /\ k \in 1..Len(tokens) /\ tokens[k] \in RowRecord
         /\ tokens[k].root \in 1..Len(tokens) /\ tokens[tokens[k].root].root = tokens[k].root
<1>1. Len(tokens) \in Nat /\ DOMAIN tokens = 1..Len(tokens) /\ tokens[k] \in RowRecord
  BY DEF TableOK
<1>2. tokens[k].root \in 1..k /\ tokens[tokens[k].root].root = tokens[k].root
  BY DEF ChainInv, RootsOK
<1>3. QED
  BY <1>1, <1>2

(* The rows that rotate_refresh_token writes make a RotationStep.            *)
LEMMA RotationKeeps ==
  ASSUME TableOK, ChainInv, NEW k \in DOMAIN tokens, NEW root, root = tokens[k].root,
         tokens' = Append(Revoke(tokens, k, Len(tokens) + 1), Row(tokens[k].user, root)),
         races' = Append([races EXCEPT ![root] = IF tokens[k].revoked THEN @ + 1 ELSE @], 0),
         ended' = Append(ended, 0)
  PROVE  TableOK' /\ Len(tokens)' = Len(tokens) + 1 /\ ChainInv'
<1> DEFINE n == Len(tokens) + 1
           old == Revoke(tokens, k, n)
           new == Row(tokens[k].user, root)
           v == IF tokens[k].revoked THEN races[root] + 1 ELSE races[root]
           raced == [races EXCEPT ![root] = v]
<1>1. Len(tokens) \in Nat /\ n \in Nat /\ tokens \in Seq(RowRecord) /\ races \in Seq(Nat) /\ ended \in Seq(Nat)
      /\ Len(races) + 1 = n /\ Len(ended) + 1 = n /\ Len(races) = Len(tokens)
  BY DEF TableOK
<1>2. root \in 1..Len(tokens) /\ k \in 1..Len(tokens) /\ tokens[root].root = root /\ tokens[k] \in RowRecord
  BY RootIn
<1>3. new.root = root /\ ~new.revoked /\ new \in RowRecord
  <2>1. tokens[k].user \in Persons /\ root \in Nat
    BY <1>2 DEF RowRecord
  <2>2. QED
    BY <2>1, RowTyped DEF Row
<1>4. /\ old \in Seq(RowRecord) /\ Len(old) = Len(tokens)
      /\ \A i \in DOMAIN tokens : old[i].root = tokens[i].root
      /\ \A i \in DOMAIN tokens : old[i].revoked <=> (tokens[i].revoked \/ i = k)
  <2>1. old = Revoke(tokens, k, n)
    OBVIOUS
  <2> HIDE DEF old, n
  <2>2. Revoked(tokens, k, old)
    BY <1>1, <2>1, RevokeFacts, Zenon
  <2>3. QED
    BY <2>2, Zenon DEF Revoked
<1>5. /\ v \in Nat
      /\ \/ tokens[k].revoked /\ v = races[root] + 1
         \/ ~tokens[k].revoked /\ v = races[root]
  <2>1. races[root] \in Nat /\ races[root] + 1 \in Nat
    BY <1>2, Counters
  <2>2. CASE tokens[k].revoked
    <3>1. v = races[root] + 1
      BY <2>2
    <3> HIDE DEF v
    <3>2. v \in Nat
      BY <2>1, <3>1
    <3>3. QED
      BY <2>2, <3>1, <3>2
  <2>3. CASE ~tokens[k].revoked
    BY <2>1, <2>3
  <2>4. QED
    BY <2>2, <2>3
<1>6. /\ tokens' = Append(old, new) /\ races' = Append(raced, 0)
  OBVIOUS
<1> HIDE DEF new, old, v
<1>7. /\ raced \in Seq(Nat) /\ Len(raced) = Len(tokens) /\ raced[root] = v
      /\ \A i \in 1..Len(tokens) : i # root => raced[i] = races[i]
  BY <1>1, <1>2, <1>5, Replaced
<1> HIDE DEF raced
<1>8. /\ tokens' \in Seq(RowRecord) /\ Len(tokens') = n /\ DOMAIN tokens' = 1..n /\ tokens'[n] = new
      /\ \A i \in 1..Len(tokens) : tokens'[i] = old[i]
  <2>1. Extended(RowRecord, old, new, tokens')
    BY <1>3, <1>4, <1>6, Appended, Zenon
  <2>2. Len(old) + 1 = n
    BY <1>1, <1>4
  <2>3. QED
    BY <1>4, <2>1, <2>2, Zenon DEF Extended
<1>9. /\ races' \in Seq(Nat) /\ Len(races') = n
      /\ \A i \in 1..Len(tokens) : races'[i] = raced[i]
  <2>1. Extended(Nat, raced, 0, races')
    <3>1. 0 \in Nat
      OBVIOUS
    <3>2. QED
      BY <1>6, <1>7, <3>1, Appended, Zenon
  <2>2. Len(raced) + 1 = n
    BY <1>1, <1>7
  <2>3. QED
    BY <1>7, <2>1, <2>2, Zenon DEF Extended
<1>10. /\ ended' \in Seq(Nat) /\ Len(ended') = n
       /\ \A i \in 1..Len(tokens) : ended'[i] = ended[i]
  <2>1. Extended(Nat, ended, 0, ended') /\ Len(ended) = Len(tokens)
    <3>1. 0 \in Nat /\ Len(ended) = Len(tokens)
      BY DEF TableOK
    <3>2. QED
      BY <1>1, <3>1, Appended, Zenon
  <2>2. QED
    BY <1>1, <2>1, Zenon DEF Extended
<1>11. TableOK'
  BY <1>8, <1>9, <1>10 DEF TableOK
<1>12. /\ \A i \in 1..Len(tokens) : tokens'[i].root = tokens[i].root
       /\ \A i \in 1..Len(tokens) : tokens'[i].revoked <=> (tokens[i].revoked \/ i = k)
  <2>1. DOMAIN tokens = 1..Len(tokens)
    BY <1>1
  <2>2. QED
    BY <1>4, <1>8, <2>1, Zenon
<1>13. /\ \A i \in 1..Len(tokens) : i # root => races'[i] = races[i]
       /\ races'[root] = v
  BY <1>2, <1>7, <1>9, Zenon
<1>14. \/ tokens[k].revoked /\ races'[root] = races[root] + 1
       \/ ~tokens[k].revoked /\ races'[root] = races[root]
  BY <1>5, <1>13, Zenon
<1>15. tokens'[n].root = root /\ ~tokens'[n].revoked
  BY <1>3, <1>8
<1> HIDE DEF n
<1>16. n = Len(tokens) + 1
  BY DEF n
<1>17. ChainInv'
  <2>1. RotationStep(n, k, root)
    BY <1>2, <1>8, <1>10, <1>12, <1>13, <1>14, <1>15, <1>16, Zenon DEF RotationStep
  <2>2. QED
    BY <1>1, <2>1, RotationFacts, Zenon
<1>18. QED
  BY <1>8, <1>11, <1>16, <1>17

(* The rows that logout writes make an EndStep.                              *)
LEMMA LogoutKeeps ==
  ASSUME TableOK, ChainInv, NEW k \in DOMAIN tokens, NEW root, root = tokens[k].root,
         tokens' = Revoke(tokens, k, None),
         ended' = [ended EXCEPT ![root] = IF tokens[k].revoked THEN @ ELSE @ + 1],
         races' = races
  PROVE  TableOK' /\ Len(tokens)' = Len(tokens) /\ ChainInv'
<1> DEFINE v == IF tokens[k].revoked THEN ended[root] ELSE ended[root] + 1
<1>1. Len(tokens) \in Nat /\ tokens \in Seq(RowRecord) /\ ended \in Seq(Nat) /\ races \in Seq(Nat)
      /\ Len(ended) = Len(tokens) /\ Len(races) = Len(tokens) /\ DOMAIN tokens = 1..Len(tokens)
  BY DEF TableOK
<1>2. root \in 1..Len(tokens) /\ k \in 1..Len(tokens)
  BY RootIn
<1>3. /\ v \in Nat
      /\ \/ tokens[k].revoked /\ v = ended[root]
         \/ ~tokens[k].revoked /\ v = ended[root] + 1
  <2>1. ended[root] \in Nat /\ ended[root] + 1 \in Nat
    BY <1>2, Counters
  <2>2. CASE tokens[k].revoked
    <3>1. v = ended[root]
      BY <2>2
    <3> HIDE DEF v
    <3>2. v \in Nat
      BY <2>1, <3>1
    <3>3. QED
      BY <2>2, <3>1, <3>2
  <2>3. CASE ~tokens[k].revoked
    BY <2>1, <2>3
  <2>4. QED
    BY <2>2, <2>3
<1>4. ended' = [ended EXCEPT ![root] = v]
  OBVIOUS
<1> HIDE DEF v
<1>5. /\ ended' \in Seq(Nat) /\ Len(ended') = Len(tokens) /\ ended'[root] = v
      /\ \A i \in 1..Len(tokens) : i # root => ended'[i] = ended[i]
  BY <1>1, <1>2, <1>3, <1>4, Replaced
<1>6. /\ tokens' \in Seq(RowRecord) /\ Len(tokens') = Len(tokens) /\ DOMAIN tokens' = DOMAIN tokens
      /\ \A i \in DOMAIN tokens : tokens'[i].root = tokens[i].root
      /\ \A i \in DOMAIN tokens : tokens'[i].revoked <=> (tokens[i].revoked \/ i = k)
  <2>1. None \in Nat
    BY DEF None
  <2>2. Revoked(tokens, k, Revoke(tokens, k, None))
    BY <1>1, <2>1, RevokeFacts, Zenon
  <2>3. Revoked(tokens, k, tokens')
    BY <2>2, Zenon
  <2>4. QED
    BY <2>3, Zenon DEF Revoked
<1>7. TableOK'
  BY <1>1, <1>5, <1>6 DEF TableOK
<1>8. CASE tokens[k].revoked
  <2>1. ended'[root] = ended[root]
    BY <1>3, <1>5, <1>8, Zenon
  <2>2. \A i \in 1..Len(tokens) : ended'[i] = ended[i]
    BY <1>5, <2>1, Zenon
  <2>3. ended' = ended
    BY <1>1, <1>5, <2>2
  <2>4. \A i \in 1..Len(tokens) : tokens'[i].revoked <=> (tokens[i].revoked \/ i \in {k})
    BY <1>1, <1>6, Zenon
  <2>5. {k} \in SUBSET (1..Len(tokens))
    BY <1>2
  <2>6. EndStep({k}, root, k)
    BY <1>1, <1>6, <1>8, <2>3, <2>4, <2>5, Zenon DEF EndStep
  <2>7. QED
    BY <1>6, <1>7, <2>6, EndFacts, Zenon
<1>9. CASE ~tokens[k].revoked
  <2>1. ended'[root] = ended[root] + 1
    BY <1>3, <1>5, <1>9, Zenon
  <2>2. \A i \in 1..Len(tokens) : tokens'[i].revoked <=> (tokens[i].revoked \/ i \in {k})
    BY <1>1, <1>6, Zenon
  <2>3. {k} \in SUBSET (1..Len(tokens))
    BY <1>2
  <2>4. EndStep({k}, root, k)
    BY <1>1, <1>5, <1>6, <1>9, <2>1, <2>2, <2>3, Zenon DEF EndStep
  <2>5. QED
    BY <1>6, <1>7, <2>4, EndFacts, Zenon
<1>10. QED
  BY <1>8, <1>9

Swapped(rows, k, row, new) ==
    /\ new \in Seq(RowRecord) /\ Len(new) = Len(rows) /\ DOMAIN new = DOMAIN rows
    /\ new[k] = row /\ \A i \in DOMAIN rows : i # k => new[i] = rows[i]

(* A table with one row replaced.                                            *)
LEMMA RowReplaced ==
  ASSUME NEW rows \in Seq(RowRecord), NEW k \in DOMAIN rows, NEW row \in RowRecord
  PROVE  Swapped(rows, k, row, [rows EXCEPT ![k] = row])
BY DEF Swapped

(* The expiry of a token, which is not its revocation, leaves the counts     *)
(* alone.                                                                    *)
LEMMA ExpiryKeeps ==
  ASSUME TableOK, ChainInv, NEW k \in DOMAIN tokens, tokens' = [tokens EXCEPT ![k].expired = TRUE],
         races' = races, ended' = ended
  PROVE  TableOK' /\ Len(tokens)' = Len(tokens) /\ ChainInv'
<1>1. Len(tokens) \in Nat /\ DOMAIN tokens = 1..Len(tokens) /\ tokens \in Seq(RowRecord)
      /\ races \in Seq(Nat) /\ ended \in Seq(Nat)
  BY DEF TableOK
<1> DEFINE new == [tokens[k] EXCEPT !.expired = TRUE]
<1>2. new \in RowRecord /\ new.root = tokens[k].root /\ (new.revoked <=> tokens[k].revoked)
  <2>1. tokens[k] \in RowRecord
    BY <1>1
  <2>2. QED
    BY <2>1 DEF RowRecord
<1>3. tokens' = [tokens EXCEPT ![k] = new]
  OBVIOUS
<1> HIDE DEF new
<1>4. /\ tokens' \in Seq(RowRecord) /\ Len(tokens') = Len(tokens) /\ DOMAIN tokens' = DOMAIN tokens
      /\ tokens'[k] = new /\ \A i \in DOMAIN tokens : i # k => tokens'[i] = tokens[i]
  <2>1. Swapped(tokens, k, new, [tokens EXCEPT ![k] = new])
    BY <1>1, <1>2, RowReplaced, Zenon
  <2>2. Swapped(tokens, k, new, tokens')
    BY <1>3, <2>1, Zenon
  <2>3. QED
    BY <2>2, Zenon DEF Swapped
<1>5. TableOK'
  BY <1>1, <1>4 DEF TableOK
<1>6. /\ \A i \in 1..Len(tokens) : tokens'[i].root = tokens[i].root
      /\ \A i \in 1..Len(tokens) : tokens'[i].revoked <=> tokens[i].revoked
  <2>1. ASSUME NEW i \in 1..Len(tokens)
        PROVE  tokens'[i].root = tokens[i].root /\ (tokens'[i].revoked <=> tokens[i].revoked)
    <3>1. CASE i = k
      BY <1>2, <1>4, <3>1, Zenon
    <3>2. CASE i # k
      BY <1>1, <1>4, <3>2, Zenon
    <3>3. QED
      BY <3>1, <3>2
  <2>2. QED
    BY <2>1, Zenon
<1>7. \A i \in 1..Len(tokens) : tokens'[i].revoked <=> (tokens[i].revoked \/ i \in {})
  BY <1>6, Zenon
<1>8. {} \in SUBSET (1..Len(tokens))
  OBVIOUS
<1>9. ChainInv'
  <2>1. EndStep({}, 0, 0)
    BY <1>4, <1>6, <1>7, <1>8, Zenon DEF EndStep
  <2>2. QED
    BY <2>1, EndFacts, Zenon
<1>10. QED
  BY <1>4, <1>5, <1>9

-----------------------------------------------------------------------------
(* The steps of the requests. *)

(* Every new request is good. *)
Gains(S) == requests' \subseteq requests \cup S /\ \A s \in S : Good(s, Len(tokens)')

(* Requests stay good when the table keeps its tokens or gains one.          *)
LEMMA StepTyped ==
  ASSUME TInv, TableOK', BrowserOK', Len(tokens)' = Len(tokens) \/ Len(tokens)' = Len(tokens) + 1,
         NEW S, Gains(S)
  PROVE  TInv'
<1>1. Len(tokens) \in Nat /\ \A r \in requests : Good(r, Len(tokens))
  BY DEF TInv, TableOK
<1>2. \A r \in requests : Good(r, Len(tokens)')
  <2>1. CASE Len(tokens)' = Len(tokens)
    BY <1>1, <2>1, Zenon
  <2>2. CASE Len(tokens)' = Len(tokens) + 1
    BY <1>1, <2>2, GoodGrows, Zenon
  <2>3. QED
    BY <2>1, <2>2, Zenon
<1>3. \A r \in requests' : Good(r, Len(tokens)')
  BY <1>2, Zenon DEF Gains
<1>4. QED
  BY <1>3, Zenon DEF TInv

(* What the browser holds stays well formed when the table keeps its rows.   *)
LEMMA BrowserKeeps ==
  ASSUME TInv, UNCHANGED <<page, asks>>, Len(tokens)' = Len(tokens) \/ Len(tokens)' = Len(tokens) + 1
  PROVE  BrowserOK'
<1>1. Len(tokens) \in Nat /\ cookie \in 0..Len(tokens) /\ BrowserOK
  BY DEF TInv, TableOK, BrowserOK
<1>2. cookie' \in 0..Len(tokens)'
  BY <1>1 DEF page
<1>3. access' = access /\ tab' = tab /\ asks' = asks
  BY DEF page
<1>4. QED
  BY <1>1, <1>2, <1>3, Zenon DEF BrowserOK

(* A step that leaves the table alone keeps the account.                     *)
LEMMA TableKeeps ==
  ASSUME TableOK, ChainInv, UNCHANGED table
  PROVE  TableOK' /\ Len(tokens)' = Len(tokens) /\ ChainInv'
<1>1. tokens' = tokens /\ races' = races /\ ended' = ended
  BY DEF table
<1>2. QED
  BY <1>1 DEF TableOK, ChainInv, RootsOK, ChainForksOnlyInRaces, LiveTokens

(* The service goes on with a request and touches neither table nor browser. *)
LEMMA AdvanceKeeps ==
  ASSUME TInv, ChainInv, UNCHANGED <<table, browser, asks>>, NEW r \in requests,
         NEW s, Good(s, Len(tokens)), Advance(r, s)
  PROVE  TInv' /\ ChainInv'
<1>1. TableOK' /\ Len(tokens)' = Len(tokens) /\ ChainInv'
  BY TableKeeps, Zenon DEF TInv
<1>2. BrowserOK'
  BY <1>1, BrowserKeeps, Zenon DEF browser
<1>3. Gains({s})
  BY <1>1 DEF Advance, Gains
<1>4. QED
  BY <1>1, <1>2, <1>3, StepTyped, Zenon

(* The commit of a login or registration.                                    *)
LEMMA StartChainKeeps ==
  ASSUME TInv, ChainInv, NEW r \in requests, StartChain(r, r.user), UNCHANGED <<page, asks>>
  PROVE  TInv' /\ ChainInv'
<1> DEFINE n == Len(tokens) + 1
           s == Accepted(r, r.user, n)
<1>1. TableOK /\ Len(tokens) \in Nat /\ n \in Nat /\ Good(r, Len(tokens))
  BY DEF TInv, TableOK
<1>2. r.user \in Persons
  BY <1>1 DEF Good, RequestRecord
<1>3. TableOK' /\ Len(tokens)' = n /\ ChainInv'
  BY <1>1, <1>2, StartKeeps, Zenon DEF StartChain
<1>4. Good(r, n) /\ n \in 0..n
  BY <1>1, GoodGrows
<1>5. requests' = (requests \ {r}) \cup {s} \/ requests' = (requests \ {r}) \cup {Refused(r)}
  BY DEF StartChain, Answer, Advance
<1> HIDE DEF n
<1>6. Good(s, n) /\ Good(Refused(r), n)
  BY <1>1, <1>2, <1>4, StagesGood, Zenon
<1>7. Len(tokens)' = Len(tokens) + 1
  BY <1>3 DEF n
<1>8. BrowserOK'
  BY <1>7, BrowserKeeps, Zenon
<1>9. Gains({s, Refused(r)})
  BY <1>3, <1>5, <1>6 DEF Gains
<1>10. QED
  BY <1>3, <1>7, <1>8, <1>9, StepTyped, Zenon

(* The steps of a refresh: check, rotation, commit, refusal.                 *)
LEMMA RefreshKeeps ==
  ASSUME TInv, ChainInv, NEW r \in requests, Refresh(r)
  PROVE  TInv' /\ ChainInv'
<1> DEFINE k == r.cookie
           n == Len(tokens) + 1
           root == tokens[k].root
           user == tokens[k].user
           s == Accepted(r, user, n)
<1>1. TableOK /\ Len(tokens) \in Nat /\ n \in Nat /\ Good(r, Len(tokens))
  BY DEF TInv, TableOK
<1>2. k \in DOMAIN tokens
  <2>1. k \in Nat /\ k # 0 /\ k <= Len(tokens)
    BY <1>1 DEF Good, RequestRecord, Refresh, None
  <2>2. QED
    BY <1>1, <2>1 DEF TableOK
<1>3. user \in Persons
  <2>1. tokens[k] \in RowRecord
    BY <1>1, <1>2 DEF TableOK
  <2>2. QED
    BY <2>1 DEF RowRecord
<1>4. /\ tokens' = Append(Revoke(tokens, k, Len(tokens) + 1), Row(tokens[k].user, root))
      /\ races' = Append([races EXCEPT ![root] = IF tokens[k].revoked THEN @ + 1 ELSE @], 0)
      /\ ended' = Append(ended, 0) /\ requests' \subseteq requests \cup {s, Refused(r)}
      /\ UNCHANGED <<page, asks>>
  BY DEF Refresh, Answer, Advance
<1>5. Good(r, n) /\ n \in 0..n
  BY <1>1, GoodGrows
<1>6. TableOK' /\ Len(tokens)' = Len(tokens) + 1 /\ ChainInv'
  <2> HIDE DEF k, root
  <2>1. root = tokens[k].root
    BY DEF root
  <2>2. QED
    BY <1>1, <1>2, <1>4, <2>1, RotationKeeps, Zenon
<1>7. Len(tokens)' = n
  BY <1>6
<1> HIDE DEF k, n, root, user
<1>8. Good(s, n) /\ Good(Refused(r), n)
  BY <1>1, <1>3, <1>5, StagesGood, Zenon
<1>9. BrowserOK'
  BY <1>4, <1>6, BrowserKeeps, Zenon
<1>10. Gains({s, Refused(r)})
  BY <1>4, <1>7, <1>8 DEF Gains
<1>11. QED
  BY <1>6, <1>9, <1>10, StepTyped, Zenon

(* The steps of a logout.                                                    *)
LEMMA LogoutStep ==
  ASSUME TInv, ChainInv, NEW r \in requests, Logout(r)
  PROVE  TInv' /\ ChainInv'
<1> DEFINE k == r.cookie
           root == tokens[k].root
           s == Accepted(r, r.user, None)
<1>1. TableOK /\ Len(tokens) \in Nat /\ Good(r, Len(tokens))
  BY DEF TInv, TableOK
<1>2. k \in DOMAIN tokens
  <2>1. k \in Nat /\ k # 0 /\ k <= Len(tokens)
    BY <1>1 DEF Good, RequestRecord, Logout, None
  <2>2. QED
    BY <1>1, <2>1 DEF TableOK
<1>3. r.user \in Persons /\ None \in 0..Len(tokens)
  BY <1>1 DEF Good, RequestRecord, None
<1>4. /\ tokens' = Revoke(tokens, k, None)
      /\ ended' = [ended EXCEPT ![root] = IF tokens[k].revoked THEN @ ELSE @ + 1]
      /\ races' = races /\ requests' = (requests \ {r}) \cup {s}
      /\ UNCHANGED <<browser, asks>>
  BY DEF Logout, Advance
<1>5. TableOK' /\ Len(tokens)' = Len(tokens) /\ ChainInv'
  <2> HIDE DEF k, root
  <2>1. root = tokens[k].root
    BY DEF root
  <2>2. QED
    BY <1>1, <1>2, <1>4, <2>1, LogoutKeeps, Zenon
<1> HIDE DEF k, root
<1>6. Good(s, Len(tokens))
  BY <1>1, <1>3, StagesGood, Zenon
<1>7. BrowserOK'
  BY <1>4, <1>5, BrowserKeeps, Zenon DEF browser
<1>8. Gains({s})
  BY <1>4, <1>5, <1>6 DEF Gains
<1>9. QED
  BY <1>5, <1>7, <1>8, StepTyped, Zenon

(* Any step of the server for one request.                                   *)
LEMMA ServeKeeps ==
  ASSUME TInv, ChainInv, NEW r \in requests, Serve(r)
  PROVE  TInv' /\ ChainInv'
<1>1. Len(tokens) \in Nat /\ Good(r, Len(tokens)) /\ r.user \in Persons /\ None \in 0..Len(tokens)
  BY DEF TInv, TableOK, Good, RequestRecord, None
<1>2. Good(Refused(r), Len(tokens)) /\ Good(Accepted(r, r.user, None), Len(tokens))
      /\ ((r.kind \in {"refresh", "logout"} => r.cookie # None) => Good(Checked(r), Len(tokens)))
  BY <1>1, StagesGood, Zenon
<1>3. ASSUME NEW s, Good(s, Len(tokens)), Advance(r, s), UNCHANGED <<table, browser, asks>>
      PROVE  TInv' /\ ChainInv'
  BY <1>3, AdvanceKeeps, Zenon
<1>4. CASE CheckRegister(r)
  <2>1. r.kind = "register" /\ UNCHANGED <<table, browser, asks>>
    BY <1>4 DEF CheckRegister
  <2>2. Advance(r, Checked(r)) \/ Advance(r, Refused(r))
    BY <1>4 DEF CheckRegister
  <2>3. Good(Checked(r), Len(tokens))
    BY <1>2, <2>1
  <2>4. QED
    BY <1>2, <1>3, <2>1, <2>2, <2>3
<1>5. CASE Register(r)
  <2>1. CASE StartChain(r, r.user)
    BY <1>5, <2>1, StartChainKeeps DEF Register
  <2>2. CASE Advance(r, Refused(r)) /\ UNCHANGED <<table, missed>>
    BY <1>2, <1>3, <1>5, <2>2 DEF Register, browser
  <2>3. QED
    BY <1>5, <2>1, <2>2 DEF Register
<1>6. CASE CheckLogin(r)
  <2>1. r.kind = "login" /\ UNCHANGED <<table, browser, asks>>
    BY <1>6 DEF CheckLogin
  <2>2. Advance(r, Checked(r)) \/ Advance(r, Refused(r))
    BY <1>6, Zenon DEF CheckLogin
  <2>3. Good(Checked(r), Len(tokens))
    BY <1>2, <2>1
  <2>4. QED
    BY <1>2, <1>3, <2>1, <2>2, <2>3
<1>7. CASE Login(r)
  BY <1>7, StartChainKeeps DEF Login
<1>8. CASE CheckRefresh(r)
  <2>1. UNCHANGED <<table, browser, asks>>
    BY <1>8 DEF CheckRefresh
  <2>2. (Usable(r.cookie) /\ Advance(r, Checked(r))) \/ Advance(r, Refused(r))
    BY <1>8, Zenon DEF CheckRefresh
  <2>3. Usable(r.cookie) => Good(Checked(r), Len(tokens))
    BY <1>2 DEF Usable
  <2>4. QED
    BY <1>2, <1>3, <2>1, <2>2, <2>3
<1>9. CASE Refresh(r)
  BY <1>9, RefreshKeeps
<1>10. CASE CheckLogout(r)
  <2>1. UNCHANGED <<table, browser, asks>>
    BY <1>10 DEF CheckLogout
  <2>2. (r.cookie # None /\ Advance(r, Checked(r))) \/ Advance(r, Accepted(r, r.user, None))
    BY <1>10, Zenon DEF CheckLogout
  <2>3. r.cookie # None => Good(Checked(r), Len(tokens))
    BY <1>2
  <2>4. QED
    BY <1>2, <1>3, <2>1, <2>2, <2>3
<1>11. CASE Logout(r)
  BY <1>11, LogoutStep
<1>12. CASE GetCurrentUser(r)
  <2>1. UNCHANGED <<table, browser, asks>>
    BY <1>12 DEF GetCurrentUser
  <2>2. Advance(r, Accepted(r, r.user, None)) \/ Advance(r, Refused(r))
    BY <1>12, Zenon DEF GetCurrentUser
  <2>3. QED
    BY <1>2, <1>3, <2>1, <2>2
<1>13. CASE CommitFails(r)
  BY <1>2, <1>3, <1>13 DEF CommitFails
<1>14. QED
  BY <1>4, <1>5, <1>6, <1>7, <1>8, <1>9, <1>10, <1>11, <1>12, <1>13 DEF Serve

-----------------------------------------------------------------------------
(* The steps of the pages. *)

(* The flags of a request do not matter to its form.                         *)
LEMMA FlagsGood ==
  ASSUME NEW n \in Nat, NEW r, Good(r, n), NEW a \in BOOLEAN, NEW h \in BOOLEAN, NEW o \in BOOLEAN
  PROVE  /\ Good([r EXCEPT !.applies = a, !.heard = h], n)
         /\ Good([r EXCEPT !.heard = h, !.applies = a], n)
         /\ Good([r EXCEPT !.ok = o], n)
BY DEF Good, RequestRecord

(* The request that a tab sends after an answer is well formed.              *)
LEMMA NextGood ==
  ASSUME TInv, NEW r, Good(r, Len(tokens)), NEW q \in NextOf(r), NEW id \in Nat
  PROVE  Good(q, Len(tokens)) /\ Good([q EXCEPT !.id = id], Len(tokens))
<1>1. r.tab \in Tabs /\ r.applies \in BOOLEAN /\ r.id \in Nat /\ "nobody" \in Persons
  BY DEF Good, RequestRecord, Persons
<1>2. q = [Request("refresh", r.tab, "nobody", r.applies) EXCEPT !.id = r.id]
  BY DEF NextOf
<1>3. Good(q, Len(tokens))
  BY <1>1, <1>2, RequestGood, Zenon
<1>4. Good([q EXCEPT !.id = id], Len(tokens))
  <2>1. Len(tokens) \in Nat
    BY DEF TInv, TableOK
  <2>2. QED
    BY <1>3, <2>1 DEF Good, RequestRecord
<1>5. QED
  BY <1>3, <1>4

(* What a tab shows has its type.                                            *)
LEMMA ShowsTyped ==
  ASSUME tab \in [Tabs -> TabRecord], NEW t \in Tabs, NEW status \in Statuses, NEW user \in Persons,
         Shows(t, status, user)
  PROVE  tab' \in [Tabs -> TabRecord]
<1>1. [status |-> status, user |-> user] \in TabRecord
  BY DEF TabRecord
<1>2. QED
  BY <1>1 DEF Shows

(* What a page shows stays typed. *)
LEMMA ApplyTyped ==
  ASSUME TInv, NEW r, Good(r, Len(tokens)), Apply(r)
  PROVE  access' \in AccessRecord /\ tab' \in [Tabs -> TabRecord]
<1>1. r.tab \in Tabs /\ r.user \in Persons /\ "nobody" \in Persons
  BY DEF Good, RequestRecord, Persons
<1>2. access \in AccessRecord /\ tab \in [Tabs -> TabRecord]
  BY DEF TInv, BrowserOK
<1>3. [user |-> r.user, fresh |-> TRUE] \in AccessRecord /\ NoAccess \in AccessRecord
  BY <1>1 DEF NoAccess, AccessRecord
<1>4. "authenticated" \in Statuses /\ "anonymous" \in Statuses
  BY DEF Statuses
<1>5. \/ access' = [user |-> r.user, fresh |-> TRUE] /\ Shows(r.tab, "authenticated", r.user)
      \/ access' = access /\ Shows(r.tab, "authenticated", r.user)
      \/ access' = NoAccess /\ Shows(r.tab, "anonymous", "nobody")
      \/ access' = access /\ tab' = tab
  BY Zenon DEF Apply
<1>6. CASE access' = [user |-> r.user, fresh |-> TRUE] /\ Shows(r.tab, "authenticated", r.user)
  BY <1>1, <1>2, <1>3, <1>4, <1>6, ShowsTyped, Zenon
<1>7. CASE access' = access /\ Shows(r.tab, "authenticated", r.user)
  BY <1>1, <1>2, <1>4, <1>7, ShowsTyped, Zenon
<1>8. CASE access' = NoAccess /\ Shows(r.tab, "anonymous", "nobody")
  BY <1>1, <1>2, <1>3, <1>4, <1>8, ShowsTyped, Zenon
<1>9. CASE access' = access /\ tab' = tab
  BY <1>2, <1>9, Zenon
<1>10. QED
  BY <1>5, <1>6, <1>7, <1>8, <1>9, Zenon

(* A page that opens asks who is logged in.                                  *)
LEMMA OpenPageKeeps ==
  ASSUME TInv, ChainInv, NEW t \in Tabs, OpenPage(t)
  PROVE  TInv' /\ ChainInv'
<1> DEFINE kind == IF access = NoAccess THEN "refresh" ELSE "me"
           first == Request(kind, t, BearerUser, FALSE)
           second == [Request(kind, t, BearerUser, TRUE) EXCEPT !.id = asks + 1]
           cut == {[r EXCEPT !.applies = @ /\ r.tab # t, !.heard = @ /\ r.tab # t] : r \in requests}
           S == cut \cup {first, second}
<1>1. /\ asks' = asks + 1 + 1 /\ requests' \subseteq requests \cup S /\ Shows(t, "bootstrapping", "nobody")
      /\ UNCHANGED <<table, cookie, access>>
  <2>1. asks \in Nat
    BY DEF TInv, BrowserOK
  <2>2. asks' = asks + 2 /\ Shows(t, "bootstrapping", "nobody") /\ UNCHANGED <<table, cookie, access>>
    BY DEF OpenPage, Bootstrap
  <2>3. requests' = cut \cup {second} \cup (IF setup.strict THEN {first} ELSE {})
    BY DEF OpenPage, Bootstrap
  <2> HIDE DEF cut, first, second
  <2>4. requests' \subseteq requests \cup cut \cup {first, second}
    BY <2>3, Zenon
  <2>5. QED
    BY <2>1, <2>2, <2>4
<1>2. TableOK' /\ Len(tokens)' = Len(tokens) /\ ChainInv'
  BY <1>1, TableKeeps, Zenon DEF TInv
<1>3. asks \in Nat /\ asks + 1 \in Nat /\ Len(tokens) \in Nat /\ cookie \in 0..Len(tokens)
      /\ access \in AccessRecord /\ tab \in [Tabs -> TabRecord]
  BY DEF TInv, TableOK, BrowserOK
<1>4. BearerUser \in Persons /\ kind \in {"register", "login", "refresh", "logout", "me"}
  BY <1>3 DEF BearerUser, Persons, AccessRecord
<1> HIDE DEF kind
<1>5. Good(first, Len(tokens)) /\ Good(second, Len(tokens))
  <2>1. TRUE \in BOOLEAN /\ FALSE \in BOOLEAN
    OBVIOUS
  <2>2. QED
    BY <1>3, <1>4, <2>1, RequestGood, Zenon
<1>6. \A r \in requests : Good([r EXCEPT !.applies = @ /\ r.tab # t, !.heard = @ /\ r.tab # t], Len(tokens))
  <2>1. ASSUME NEW r \in requests
        PROVE  Good([r EXCEPT !.applies = @ /\ r.tab # t, !.heard = @ /\ r.tab # t], Len(tokens))
    <3>1. Good(r, Len(tokens)) /\ (r.applies /\ r.tab # t) \in BOOLEAN /\ (r.heard /\ r.tab # t) \in BOOLEAN
      BY DEF TInv
    <3>2. QED
      BY <1>3, <3>1, FlagsGood, Zenon
  <2>2. QED
    BY <2>1
<1> HIDE DEF first, second
<1>7. \A s \in S : Good(s, Len(tokens))
  BY <1>5, <1>6
<1>8. BrowserOK'
  <2>1. tab' \in [Tabs -> TabRecord]
    <3>1. "nobody" \in Persons /\ "bootstrapping" \in Statuses
      BY DEF Persons, Statuses
    <3>2. QED
      BY <1>1, <1>3, <3>1, ShowsTyped, Zenon
  <2>2. cookie' \in 0..Len(tokens)' /\ access' \in AccessRecord
    BY <1>1, <1>2, <1>3, Zenon
  <2> HIDE DEF S
  <2>3. asks' \in Nat
    BY <1>1, <1>3
  <2>4. QED
    BY <2>1, <2>2, <2>3, Zenon DEF BrowserOK
<1> HIDE DEF S
<1>9. Gains(S)
  BY <1>1, <1>2, <1>7, Zenon DEF Gains
<1>10. QED
  BY <1>2, <1>8, <1>9, StepTyped, Zenon DEF TInv

(* A click sends a request.                                                  *)
LEMMA SendKeeps ==
  ASSUME TInv, ChainInv, NEW kind \in {"register", "login", "refresh", "logout", "me"}, NEW t \in Tabs,
         NEW user \in Persons, Send(kind, t, user), UNCHANGED <<table, browser>>
  PROVE  TInv' /\ ChainInv'
<1>1. TableOK' /\ Len(tokens)' = Len(tokens) /\ ChainInv'
  BY TableKeeps, Zenon DEF TInv
<1>2. asks \in Nat /\ asks' = asks + 1 /\ requests' = requests \cup {Request(kind, t, user, TRUE)}
  BY DEF Send, TInv, BrowserOK
<1>3. Good(Request(kind, t, user, TRUE), Len(tokens))
  <2>1. TRUE \in BOOLEAN
    OBVIOUS
  <2>2. QED
    BY <1>2, <2>1, RequestGood, Zenon
<1>4. Gains({Request(kind, t, user, TRUE)})
  BY <1>1, <1>2, <1>3 DEF Gains
<1>5. BrowserOK'
  BY <1>1, <1>2 DEF TInv, BrowserOK, browser, page
<1>6. QED
  BY <1>1, <1>4, <1>5, StepTyped, Zenon DEF TInv

(* An answer arrives and sets the cookie.                                    *)
LEMMA ReceiveKeeps ==
  ASSUME TInv, ChainInv, NEW r \in requests, Receive(r)
  PROVE  TInv' /\ ChainInv'
<1>1. TableOK' /\ Len(tokens)' = Len(tokens) /\ ChainInv'
  BY TableKeeps, Zenon DEF TInv, Receive
<1>2. Good(r, Len(tokens)) /\ Len(tokens) \in Nat /\ asks \in Nat /\ asks' = asks
  BY DEF TInv, TableOK, BrowserOK, Receive
<1>3. cookie' \in 0..Len(tokens)'
  <2>1. r.token \in Nat /\ r.token <= Len(tokens) /\ cookie \in 0..Len(tokens)
    BY <1>2 DEF TInv, BrowserOK, Good, RequestRecord
  <2>2. cookie' \in {r.token, None, cookie}
    BY DEF Receive, CookieAfter
  <2>3. QED
    BY <1>1, <1>2, <2>1, <2>2 DEF None
<1>4. access' \in AccessRecord /\ tab' \in [Tabs -> TabRecord]
  <2>1. CASE Apply(r)
    BY <1>2, <2>1, ApplyTyped, Zenon
  <2>2. CASE UNCHANGED <<access, tab>>
    BY <2>2 DEF TInv, BrowserOK
  <2>3. QED
    BY <2>1, <2>2 DEF Receive
<1>5. BrowserOK'
  BY <1>2, <1>3, <1>4 DEF BrowserOK
<1>6. \A q \in NextOf(r) : Good(q, Len(tokens))
  BY <1>2, NextGood, Zenon
<1>7. Gains(NextOf(r))
  BY <1>1, <1>6 DEF Gains, Receive
<1>8. QED
  BY <1>1, <1>5, <1>7, StepTyped, Zenon DEF TInv

(* An answer is lost.                                                        *)
LEMMA LoseKeeps ==
  ASSUME TInv, ChainInv, NEW r \in requests, Lose(r)
  PROVE  TInv' /\ ChainInv'
<1> DEFINE failed == [r EXCEPT !.ok = FALSE]
           unheard == [r EXCEPT !.heard = FALSE, !.applies = FALSE]
           again == {[q EXCEPT !.id = asks] : q \in NextOf(failed)}
           S == {unheard} \cup again
<1>1. TableOK' /\ Len(tokens)' = Len(tokens) /\ ChainInv'
  BY TableKeeps, Zenon DEF TInv, Lose
<1>2. Good(r, Len(tokens)) /\ Len(tokens) \in Nat /\ asks \in Nat /\ cookie \in 0..Len(tokens) /\ cookie' = cookie
  BY DEF TInv, TableOK, BrowserOK, Lose
<1>3. Good(failed, Len(tokens)) /\ Good(unheard, Len(tokens))
  <2>1. FALSE \in BOOLEAN
    OBVIOUS
  <2>2. QED
    BY <1>2, <2>1, FlagsGood, Zenon
<1>4. /\ requests' \subseteq requests \cup S
      /\ asks' = asks \/ asks' = asks + 1
      /\ Apply(failed) \/ UNCHANGED <<access, tab>>
  BY DEF Lose
<1> HIDE DEF failed, unheard
<1>5. access' \in AccessRecord /\ tab' \in [Tabs -> TabRecord]
  <2>1. CASE Apply(failed)
    BY <1>3, <2>1, ApplyTyped, Zenon
  <2>2. CASE UNCHANGED <<access, tab>>
    BY <2>2 DEF TInv, BrowserOK
  <2>3. QED
    BY <1>4, <2>1, <2>2
<1>6. BrowserOK'
  BY <1>1, <1>2, <1>4, <1>5 DEF BrowserOK
<1>7. \A q \in NextOf(failed) : Good([q EXCEPT !.id = asks], Len(tokens))
  BY <1>2, <1>3, NextGood, Zenon
<1>8. \A s \in S : Good(s, Len(tokens))
  BY <1>3, <1>7
<1> HIDE DEF S
<1>9. Gains(S)
  BY <1>1, <1>4, <1>8, Zenon DEF Gains
<1>10. QED
  BY <1>1, <1>6, <1>9, StepTyped, Zenon DEF TInv

(* Steps that leave the table, the tabs and the requests, but for one that   *)
(* goes, as they are.                                                        *)
LEMMA OtherKeeps ==
  ASSUME TInv, ChainInv, UNCHANGED <<table, cookie, tab, asks>>, requests' \subseteq requests,
         access' \in AccessRecord
  PROVE  TInv' /\ ChainInv'
<1>1. TableOK' /\ Len(tokens)' = Len(tokens) /\ ChainInv'
  BY TableKeeps, Zenon DEF TInv
<1>2. BrowserOK'
  BY <1>1 DEF TInv, BrowserOK
<1>3. Gains({})
  BY DEF Gains
<1>4. QED
  BY <1>1, <1>2, <1>3, StepTyped, Zenon DEF TInv

(* A token expires.                                                          *)
LEMMA ExpireStep ==
  ASSUME TInv, ChainInv, NEW k \in DOMAIN tokens, ExpireToken(k)
  PROVE  TInv' /\ ChainInv'
<1>1. TableOK' /\ Len(tokens)' = Len(tokens) /\ ChainInv'
  BY ExpiryKeeps, Zenon DEF TInv, ExpireToken
<1>2. BrowserOK'
  BY <1>1, BrowserKeeps, Zenon DEF ExpireToken, browser, page
<1>3. Gains({})
  BY DEF Gains, ExpireToken
<1>4. QED
  BY <1>1, <1>2, <1>3, StepTyped, Zenon

(* Every step keeps types and account.                                       *)
LEMMA StepKeeps ==
  ASSUME TInv, ChainInv, [Next]_vars
  PROVE  TInv' /\ ChainInv'
<1>1. access \in AccessRecord
  BY DEF TInv, BrowserOK
<1>2. CASE UNCHANGED vars
  BY <1>1, <1>2, OtherKeeps DEF vars, browser, page
<1>3. ASSUME NEW t \in Tabs, OpenPage(t)
      PROVE  TInv' /\ ChainInv'
  BY <1>3, OpenPageKeeps
<1>4. ASSUME NEW t \in Tabs, SubmitForm(t)
      PROVE  TInv' /\ ChainInv'
  <2>1. PICK kind \in {"login", "register"}, user \in Users : Send(kind, t, user)
    BY <1>4 DEF SubmitForm
  <2>2. UNCHANGED <<table, browser>>
    BY <1>4 DEF SubmitForm
  <2>3. QED
    BY <2>1, <2>2, SendKeeps DEF Persons
<1>5. ASSUME NEW t \in Tabs, ClickLogout(t)
      PROVE  TInv' /\ ChainInv'
  <2>1. tab[t].user \in Persons
    BY DEF TInv, BrowserOK, TabRecord
  <2>2. QED
    BY <1>5, <2>1, SendKeeps DEF ClickLogout
<1>6. ASSUME NEW r \in requests, Serve(r)
      PROVE  TInv' /\ ChainInv'
  BY <1>6, ServeKeeps
<1>7. ASSUME NEW r \in requests, Receive(r)
      PROVE  TInv' /\ ChainInv'
  BY <1>7, ReceiveKeeps
<1>8. ASSUME NEW r \in requests, Drop(r)
      PROVE  TInv' /\ ChainInv'
  BY <1>1, <1>8, OtherKeeps DEF Drop
<1>9. ASSUME NEW r \in requests, Lose(r)
      PROVE  TInv' /\ ChainInv'
  BY <1>9, LoseKeeps
<1>10. CASE Tick
  BY <1>1, <1>10, OtherKeeps DEF Tick, browser, page
<1>11. CASE ExpireAccess
  <2>1. access' \in AccessRecord
    BY <1>1, <1>11 DEF ExpireAccess, AccessRecord
  <2>2. QED
    BY <1>11, <2>1, OtherKeeps DEF ExpireAccess
<1>12. ASSUME NEW k \in DOMAIN tokens, ExpireToken(k)
       PROVE  TInv' /\ ChainInv'
  BY <1>12, ExpireStep
<1>13. ASSUME NEW user \in Users, DisableUser(user)
       PROVE  TInv' /\ ChainInv'
  BY <1>1, <1>13, OtherKeeps DEF DisableUser, browser, page
<1>14. QED
  BY <1>2, <1>3, <1>4, <1>5, <1>6, <1>7, <1>8, <1>9, <1>10, <1>11, <1>12, <1>13 DEF Next

(* Initially there are no tokens and no requests.                            *)
LEMMA InitHolds ==
  ASSUME Init
  PROVE  TInv /\ ChainInv
<1>1. tokens = <<>> /\ races = <<>> /\ ended = <<>> /\ requests = {}
  BY DEF Init
<1>2. TableOK
  <2>1. <<>> \in Seq(RowRecord) /\ <<>> \in Seq(Nat)
    OBVIOUS
  <2>2. QED
    BY <1>1, <2>1 DEF TableOK
<1>3. Len(tokens) = 0 /\ DOMAIN tokens = {}
  BY <1>1
<1>4. BrowserOK
  <2>1. cookie \in 0..Len(tokens) /\ asks \in Nat
    BY <1>3 DEF Init, None
  <2>2. access \in AccessRecord
    BY DEF Init, NoAccess, Persons, AccessRecord
  <2>3. tab \in [Tabs -> TabRecord]
    <3>1. Closed \in TabRecord
      BY DEF Closed, Persons, TabRecord, Statuses
    <3>2. tab = [t \in Tabs |-> Closed]
      BY DEF Init
    <3>3. QED
      BY <3>1, <3>2
  <2>4. QED
    BY <2>1, <2>2, <2>3 DEF BrowserOK
<1>5. TInv
  BY <1>1, <1>2, <1>4 DEF TInv
<1>6. ChainInv
  BY <1>3, Zenon DEF ChainInv, RootsOK, ChainForksOnlyInRaces
<1>7. QED
  BY <1>5, <1>6

(* A chain of refresh tokens has one live end, none after a logout, and one  *)
(* more for each pair of rotations whose reads of one token overlapped: for  *)
(* any tabs, users and bounds (AuthService.refresh, logout).                 *)
THEOREM ChainsForkOnlyInRaces ==
  Spec => []ChainForksOnlyInRaces
<1>1. Init => TInv /\ ChainInv
  BY InitHolds
<1>2. TInv /\ ChainInv /\ [Next]_vars => (TInv /\ ChainInv)'
  BY StepKeeps
<1>3. TInv /\ ChainInv => ChainForksOnlyInRaces
  BY DEF ChainInv
<1>4. QED
  BY <1>1, <1>2, <1>3, PTL DEF Spec

-----------------------------------------------------------------------------
(* The cookie. *)

(* Only an answer is good. *)
AnsweredOnly == \A r \in requests : r.ok => r.stage = "answered"

(* A token that an answer under way hands out is new to the browser: it is   *)
(* not revoked, it is not the cookie, no request carries it, and no other    *)
(* answer hands it out.                                                      *)
Unclaimed ==
    \A q \in requests : q.token # None =>
        /\ ~tokens[q.token].revoked
        /\ cookie # q.token
        /\ \A r \in requests : r.cookie # q.token /\ (r.token = q.token => r = q)

CookieInv == AnsweredOnly /\ Unclaimed /\ CookieIsLive

(* The answer to a request with this cookie replaces it. *)
Replaces(r, c) ==
    /\ r.ok /\ r.cookie = c
    /\ \/ r.kind = "refresh" /\ r.token # c
       \/ r.kind = "logout"

(* When an answer under way replaces the cookie of the browser.              *)
LEMMA ReplacesFacts ==
  ASSUME NEW r, cookie # None
  PROVE  Replaces(r, cookie) <=> (r.ok /\ Revokes(r) /\ r.cookie = cookie /\ CookieAfter(r) # cookie)
<1>1. CASE r.kind = "refresh"
  BY <1>1 DEF Replaces, CookieAfter, TakesToken, Revokes
<1>2. CASE r.kind = "logout"
  BY <1>2 DEF Replaces, CookieAfter, TakesToken, Revokes
<1>3. CASE r.kind \notin {"refresh", "logout"}
  BY <1>3 DEF Replaces, CookieAfter, TakesToken, Revokes
<1>4. QED
  BY <1>1, <1>2, <1>3

(* CookieIsLive without the present cookie in the answers' effect.           *)
LEMMA LiveMeans ==
  CookieIsLive <=>
    (cookie # None /\ tokens[cookie].revoked => cookie \in missed \/ \E r \in requests : Replaces(r, cookie))
<1>1. CASE cookie = None
  BY <1>1 DEF CookieIsLive
<1>2. CASE cookie # None
  <2>1. \A r \in requests : Replaces(r, cookie) <=> (r.ok /\ Revokes(r) /\ r.cookie = cookie /\ CookieAfter(r) # cookie)
    BY <1>2, ReplacesFacts
  <2>2. QED
    BY <2>1, Zenon DEF CookieIsLive
<1>3. QED
  BY <1>1, <1>2

(* The property in the next state.                                           *)
LEMMA LiveMeansNext ==
  CookieIsLive' <=>
    (cookie' # None /\ tokens'[cookie'].revoked => cookie' \in missed' \/ \E r \in requests' : Replaces(r, cookie'))
<1>1. (CookieIsLive <=>
         (cookie # None /\ tokens[cookie].revoked => cookie \in missed \/ \E r \in requests : Replaces(r, cookie)))'
  BY LiveMeans, PTL
<1>2. QED
  BY <1>1

(* What is named by the cookie and by requests is in the table.              *)
LEMMA Named ==
  ASSUME TInv
  PROVE  /\ cookie # None => cookie \in 1..Len(tokens)
         /\ \A q \in requests : q.token # None => q.token \in 1..Len(tokens)
         /\ \A q \in requests : q.cookie \in Nat /\ q.cookie <= Len(tokens)
         /\ Len(tokens) \in Nat /\ cookie \in Nat /\ cookie <= Len(tokens)
<1>1. Len(tokens) \in Nat /\ cookie \in 0..Len(tokens)
  BY DEF TInv, TableOK, BrowserOK
<1>2. ASSUME NEW q \in requests
      PROVE  /\ q.token # None => q.token \in 1..Len(tokens)
             /\ q.cookie \in Nat /\ q.cookie <= Len(tokens)
  <2>1. q.token \in Nat /\ q.token <= Len(tokens) /\ q.cookie \in Nat /\ q.cookie <= Len(tokens)
    BY <1>1 DEF TInv, Good, RequestRecord
  <2>2. QED
    BY <1>1, <2>1 DEF None
<1>3. QED
  BY <1>1, <1>2 DEF None

(* The same request, as far as the cookie is concerned. *)
Kin(s, r) ==
    s.token = r.token /\ s.cookie = r.cookie /\ s.ok = r.ok /\ s.kind = r.kind /\ s.stage = r.stage

(* A request that was just sent with the cookie. *)
Plain(q, c) == q.token = None /\ q.cookie = c /\ ~q.ok

(* What a step of a page or of the network makes of the cookie: it stays,    *)
(* and with it the answers that replace it, unless one is missed; or it is   *)
(* deleted; or it is the token of an answer, which is gone with that.        *)
CookieMoves(f) ==
    \/ /\ cookie' = cookie /\ missed \subseteq missed'
       /\ \A r \in requests : Replaces(r, cookie) => f[r] \in requests' \/ cookie \in missed'
    \/ cookie' = None
    \/ \E r \in requests : r.token = cookie' /\ f[r] \notin requests'

(* The requests of the pages change by f, and new ones join them. *)
Renewed(f, N) ==
    /\ \A r \in requests : Kin(f[r], r)
    /\ \A q \in N : Plain(q, cookie)
    /\ requests' \subseteq {f[r] : r \in requests} \cup N
    /\ \A k \in 1..Len(tokens) : tokens'[k].revoked <=> tokens[k].revoked
    /\ CookieMoves(f)

(* Requests that change only in what does not matter keep the invariant.     *)
LEMMA RenewedKeeps ==
  ASSUME TInv, CookieInv, NEW f, NEW N, Renewed(f, N)
  PROVE  CookieInv'
<1>1. ASSUME NEW s \in requests'
      PROVE  Plain(s, cookie) \/ \E r \in requests : s = f[r] /\ Kin(s, r)
  BY DEF Renewed
<1>2. AnsweredOnly'
  <2>1. ASSUME NEW s \in requests', s.ok
        PROVE  s.stage = "answered"
    BY <1>1, <2>1 DEF Plain, Kin, CookieInv, AnsweredOnly
  <2>2. QED
    BY <2>1, Zenon DEF AnsweredOnly
<1>3. ASSUME NEW r \in requests, r.token # None
      PROVE  /\ ~tokens'[r.token].revoked /\ ~tokens[r.token].revoked /\ cookie # r.token
             /\ \A q \in requests : q.cookie # r.token /\ (q.token = r.token => q = r)
  BY <1>3, Named DEF CookieInv, Unclaimed, Renewed
<1>4. ASSUME NEW s \in requests', s.token # None
      PROVE  /\ ~tokens'[s.token].revoked
             /\ cookie' # s.token
             /\ \A t \in requests' : t.cookie # s.token /\ (t.token = s.token => t = s)
  <2>1. PICK r \in requests : s = f[r] /\ Kin(s, r)
    BY <1>1, <1>4 DEF Plain
  <2>2. r.token = s.token /\ r.token # None
    BY <1>4, <2>1 DEF Kin
  <2>3. cookie' # s.token
    <3>1. CASE cookie' = cookie
      BY <1>3, <2>2, <3>1
    <3>2. CASE cookie' = None
      BY <1>4, <3>2
    <3>3. ASSUME NEW q \in requests, q.token = cookie', f[q] \notin requests'
          PROVE  cookie' # s.token
      BY <1>3, <2>1, <2>2, <3>3
    <3>4. QED
      BY <3>1, <3>2, <3>3, Zenon DEF Renewed, CookieMoves
  <2>4. ASSUME NEW t \in requests'
        PROVE  t.cookie # s.token /\ (t.token = s.token => t = s)
    <3>1. CASE Plain(t, cookie)
      BY <1>3, <2>2, <3>1 DEF Plain
    <3>2. ASSUME NEW q \in requests, t = f[q], Kin(t, q)
          PROVE  t.cookie # s.token /\ (t.token = s.token => t = s)
      BY <1>3, <2>1, <2>2, <3>2 DEF Kin
    <3>3. QED
      BY <1>1, <3>1, <3>2
  <2>5. QED
    BY <1>3, <2>2, <2>3, <2>4
<1>5. Unclaimed'
  BY <1>4, Zenon DEF Unclaimed
<1>6. ASSUME cookie' # None, tokens'[cookie'].revoked, cookie' \notin missed'
      PROVE  \E s \in requests' : Replaces(s, cookie')
  <2>1. CASE cookie' = cookie /\ missed \subseteq missed'
             /\ \A r \in requests : Replaces(r, cookie) => f[r] \in requests' \/ cookie \in missed'
    <3>1. tokens[cookie].revoked
      BY <1>6, <2>1, Named DEF Renewed
    <3>2. PICK r \in requests : Replaces(r, cookie)
      BY <1>6, <2>1, <3>1, LiveMeans DEF CookieInv
    <3>3. f[r] \in requests' /\ Kin(f[r], r)
      BY <1>6, <2>1, <3>2 DEF Renewed
    <3>4. Replaces(f[r], cookie)
      BY <3>2, <3>3 DEF Replaces, Kin
    <3>5. QED
      BY <2>1, <3>3, <3>4
  <2>2. ASSUME NEW r \in requests, r.token = cookie', f[r] \notin requests'
        PROVE  FALSE
    BY <1>3, <1>6, <2>2
  <2>3. QED
    BY <1>6, <2>1, <2>2, Zenon DEF Renewed, CookieMoves
<1>7. CookieIsLive'
  <2>1. cookie' # None /\ tokens'[cookie'].revoked => cookie' \in missed' \/ \E s \in requests' : Replaces(s, cookie')
    BY <1>6
  <2>2. QED
    BY <2>1, LiveMeansNext
<1>8. QED
  BY <1>2, <1>5, <1>7 DEF CookieInv

(* The service goes on with a request: only the token the request carries    *)
(* may be revoked, by an answer that replaces it or by one that goes astray; *)
(* the token an answer hands out is new.                                     *)
Served(r, s) ==
    /\ r.stage # "answered" /\ Advance(r, s) /\ s.cookie = r.cookie
    /\ s.ok => s.stage = "answered"
    /\ s.token # None =>
         \/ s.token = r.token
         \/ s.token = Len(tokens) + 1 /\ ~tokens'[s.token].revoked
    /\ \A k \in 1..Len(tokens) :
         tokens'[k].revoked => tokens[k].revoked \/ (k = r.cookie /\ (Replaces(s, k) \/ k \in missed'))
    /\ cookie' = cookie /\ missed \subseteq missed'

(* The answers of others go on, and one that revokes replaces.               *)
LEMMA ServedKeeps ==
  ASSUME TInv, CookieInv, NEW r \in requests, NEW s, Served(r, s)
  PROVE  CookieInv'
<1>1. requests' = (requests \ {r}) \cup {s} /\ s \in requests'
  BY DEF Served, Advance
<1>2. AnsweredOnly'
  <2>1. \A q \in requests' : q.ok => q.stage = "answered"
    BY <1>1 DEF Served, CookieInv, AnsweredOnly
  <2>2. QED
    BY <2>1, Zenon DEF AnsweredOnly
<1>3. ASSUME NEW q \in requests, q.token # None
      PROVE  /\ q.token \in 1..Len(tokens) /\ ~tokens'[q.token].revoked /\ cookie # q.token
             /\ \A p \in requests : p.cookie # q.token /\ (p.token = q.token => p = q)
  <2>1. q.token \in 1..Len(tokens)
    BY <1>3, Named
  <2>2. /\ ~tokens[q.token].revoked /\ cookie # q.token
        /\ \A p \in requests : p.cookie # q.token /\ (p.token = q.token => p = q)
    BY <1>3, Zenon DEF CookieInv, Unclaimed
  <2>3. ~tokens'[q.token].revoked
    BY <2>1, <2>2, Zenon DEF Served
  <2>4. QED
    BY <2>1, <2>2, <2>3
<1>4. s.cookie = r.cookie
  BY DEF Served
<1>5. ASSUME s.token # None
      PROVE  /\ ~tokens'[s.token].revoked
             /\ cookie # s.token
             /\ \A p \in requests' : p.cookie # s.token /\ (p.token = s.token => p = s)
  <2>1. CASE s.token = r.token
    BY <1>1, <1>3, <1>4, <1>5, <2>1
  <2>2. CASE s.token = Len(tokens) + 1 /\ ~tokens'[s.token].revoked
    <3>1. cookie # s.token
      BY <2>2, Named
    <3>2. ASSUME NEW p \in requests
          PROVE  p.cookie # s.token /\ p.token # s.token
      <4>1. p.cookie # s.token
        BY <2>2, Named
      <4>2. p.token # s.token
        BY <1>5, <2>2, Named
      <4>3. QED
        BY <4>1, <4>2
    <3>3. QED
      BY <1>1, <1>4, <2>2, <3>1, <3>2
  <2>3. QED
    BY <1>5, <2>1, <2>2 DEF Served
<1>6. ASSUME NEW q \in requests, q # r, q.token # None
      PROVE  \A p \in requests' : p.cookie # q.token /\ (p.token = q.token => p = q)
  <2>1. s.cookie # q.token
    BY <1>3, <1>4, <1>6
  <2>2. s.token # q.token
    <3>1. s.token = q.token => q.cookie # s.token /\ q \in requests'
      BY <1>1, <1>3, <1>6
    <3>2. s.token = q.token => q = s
      BY <1>1, <1>5, <1>6
    <3>3. s.token = q.token => s.token = r.token \/ s.token = Len(tokens) + 1
      BY <1>6, Zenon DEF Served
    <3>4. s.token # Len(tokens) + 1 \/ s.token # q.token
      BY <1>3, <1>6, Named
    <3>5. s.token = r.token => s.token # q.token
      BY <1>3, <1>6
    <3>6. QED
      BY <3>3, <3>4, <3>5
  <2>3. QED
    BY <1>1, <1>3, <1>6, <2>1, <2>2
<1>7. Unclaimed'
  <2>1. cookie' = cookie
    BY DEF Served
  <2>2. ASSUME NEW q \in requests', q.token # None
        PROVE  /\ ~tokens'[q.token].revoked
               /\ cookie' # q.token
               /\ \A p \in requests' : p.cookie # q.token /\ (p.token = q.token => p = q)
    <3>1. CASE q = s
      BY <1>5, <2>1, <2>2, <3>1, Zenon
    <3>2. CASE q \in requests /\ q # r
      BY <1>3, <1>6, <2>1, <2>2, <3>2, Zenon
    <3>3. QED
      BY <1>1, <3>1, <3>2
  <2>3. QED
    BY <2>2, Zenon DEF Unclaimed
<1>8. ASSUME cookie' # None, tokens'[cookie'].revoked, cookie' \notin missed'
      PROVE  \E q \in requests' : Replaces(q, cookie')
  <2>1. cookie' = cookie /\ missed \subseteq missed' /\ cookie \in 1..Len(tokens)
    BY <1>8, Named DEF Served
  <2>2. CASE tokens[cookie].revoked
    <3>1. PICK q \in requests : Replaces(q, cookie)
      BY <1>8, <2>1, <2>2, LiveMeans DEF CookieInv
    <3>2. q.stage = "answered"
      BY <3>1 DEF Replaces, CookieInv, AnsweredOnly
    <3>3. q # r
      BY <3>2 DEF Served
    <3>4. QED
      BY <1>1, <2>1, <3>1, <3>3
  <2>3. CASE ~tokens[cookie].revoked
    <3>1. Replaces(s, cookie)
      BY <1>8, <2>1, <2>3, Zenon DEF Served
    <3>2. QED
      BY <1>1, <2>1, <3>1
  <2>4. QED
    BY <2>2, <2>3
<1>9. CookieIsLive'
  <2>1. cookie' # None /\ tokens'[cookie'].revoked => cookie' \in missed' \/ \E q \in requests' : Replaces(q, cookie')
    BY <1>8
  <2>2. QED
    BY <2>1, LiveMeansNext
<1>10. QED
  BY <1>2, <1>7, <1>9 DEF CookieInv

(* An answer without success replaces no cookie.                             *)
LEMMA ReplacesNone ==
  ASSUME NEW r, ~r.ok
  PROVE  \A c : ~Replaces(r, c)
BY DEF Replaces

(* How the stages of a request look to the cookie. *)
LEMMA StagesSeen ==
  ASSUME NEW r \in RequestRecord
  PROVE  /\ Checked(r).cookie = r.cookie /\ (Checked(r).ok <=> r.ok) /\ Checked(r).token = r.token
         /\ Refused(r).cookie = r.cookie /\ (Refused(r).ok <=> r.ok) /\ Refused(r).token = r.token
         /\ Refused(r).stage = "answered"
BY DEF RequestRecord, Checked, Refused

(* A request is checked, refused, or answered without a new token. *)
LEMMA PlainService ==
  ASSUME TInv, CookieInv, NEW r \in requests, r.stage # "answered", UNCHANGED <<table, browser>>,
         NEW user, NEW s, s \in {Checked(r), Refused(r), Accepted(r, user, None)}, Advance(r, s)
  PROVE  CookieInv'
<1>1. r \in RequestRecord /\ ~r.ok
  BY DEF TInv, Good, CookieInv, AnsweredOnly
<1>2. tokens' = tokens /\ cookie' = cookie /\ missed' = missed
  BY DEF table, browser, page
<1>3. s.cookie = r.cookie /\ (s.ok => s.stage = "answered") /\ (s.token # None => s.token = r.token)
  <2>1. CASE s = Checked(r)
    BY <1>1, <2>1, StagesSeen, Zenon
  <2>2. CASE s = Refused(r)
    BY <1>1, <2>2, StagesSeen, Zenon
  <2>3. CASE s = Accepted(r, user, None)
    BY <1>1, <2>3 DEF RequestRecord, Accepted
  <2>4. QED
    BY <2>1, <2>2, <2>3
<1>4. Served(r, s)
  BY <1>2, <1>3 DEF Served
<1>5. QED
  BY <1>4, ServedKeeps

(* A new chain begins with a token that is not revoked. *)
LEMMA StartSeen ==
  ASSUME TInv, CookieInv, NEW r \in requests, r.stage # "answered", StartChain(r, r.user),
         UNCHANGED page
  PROVE  CookieInv'
<1> DEFINE n == Len(tokens) + 1
           s == Accepted(r, r.user, n)
<1>1. r \in RequestRecord /\ r.user \in Persons /\ tokens \in Seq(RowRecord) /\ Len(tokens) \in Nat /\ n \in Nat
  BY DEF TInv, TableOK, Good, RequestRecord
<1>2. /\ Advance(r, s) \/ Advance(r, Refused(r))
      /\ tokens' = Append(tokens, Row(r.user, n)) /\ cookie' = cookie /\ missed \subseteq missed'
  BY DEF StartChain, Answer, page
<1>3. Row(r.user, n) \in RowRecord /\ ~Row(r.user, n).revoked
  BY <1>1, RowTyped DEF Row
<1>4. tokens'[n] = Row(r.user, n) /\ \A k \in 1..Len(tokens) : tokens'[k] = tokens[k]
  BY <1>1, <1>2, <1>3
<1>5. s.cookie = r.cookie /\ s.ok /\ s.stage = "answered" /\ s.token = n
  BY <1>1 DEF RequestRecord, Accepted
<1> HIDE DEF s
<1>6. CASE Advance(r, s)
  <2>1. Served(r, s)
    BY <1>2, <1>3, <1>4, <1>5, <1>6 DEF Served
  <2>2. QED
    BY <2>1, ServedKeeps
<1>7. CASE Advance(r, Refused(r))
  <2>1. ~r.ok /\ Refused(r).cookie = r.cookie /\ ~Refused(r).ok /\ Refused(r).token = r.token
    BY <1>1, StagesSeen DEF CookieInv, AnsweredOnly
  <2>2. Served(r, Refused(r))
    BY <1>2, <1>4, <1>7, <2>1 DEF Served
  <2>3. QED
    BY <2>2, ServedKeeps
<1>8. QED
  BY <1>2, <1>6, <1>7

(* A rotation: the answer brings the token it has made.                      *)
LEMMA RefreshSeen ==
  ASSUME TInv, CookieInv, NEW r \in requests, Refresh(r)
  PROVE  CookieInv'
<1> DEFINE k == r.cookie
           n == Len(tokens) + 1
           user == tokens[k].user
           row == Row(user, tokens[k].root)
           s == Accepted(r, user, n)
           rows == Revoke(tokens, k, n)
<1>1. /\ r \in RequestRecord /\ tokens \in Seq(RowRecord) /\ Len(tokens) \in Nat /\ n \in Nat
      /\ r.stage = "checked" /\ r.kind = "refresh"
  BY DEF TInv, TableOK, Good, RequestRecord, Refresh
<1>2. k \in DOMAIN tokens /\ DOMAIN tokens = 1..Len(tokens) /\ n # k
  <2>1. k \in Nat /\ k # 0 /\ k <= Len(tokens)
    BY <1>1 DEF TInv, Good, RequestRecord, None
  <2>2. QED
    BY <1>1, <2>1
<1>3. row \in RowRecord /\ ~row.revoked
  <2>1. tokens[k] \in RowRecord
    BY <1>1, <1>2
  <2>2. user \in Persons /\ tokens[k].root \in Nat
    BY <2>1 DEF RowRecord
  <2>3. QED
    BY <2>2, RowTyped DEF Row
<1>4. /\ tokens' = Append(rows, row) /\ cookie' = cookie /\ missed \subseteq missed'
      /\ Advance(r, s) \/ (Advance(r, Refused(r)) /\ k \in missed')
  BY DEF Refresh, Answer, page
<1>5. Revoked(tokens, k, rows)
  <2> HIDE DEF k, n
  <2>1. QED
    BY <1>1, <1>2, RevokeFacts
<1>6. s.cookie = k /\ s.ok /\ s.stage = "answered" /\ s.token = n /\ s.kind = "refresh"
  BY <1>1 DEF RequestRecord, Accepted
<1> HIDE DEF s, rows, row
<1>7. /\ rows \in Seq(RowRecord) /\ Len(rows) = Len(tokens)
      /\ \A i \in 1..Len(tokens) : rows[i].revoked <=> (tokens[i].revoked \/ i = k)
  BY <1>2, <1>5 DEF Revoked
<1>8. tokens'[n] = row /\ \A i \in 1..Len(tokens) : tokens'[i] = rows[i]
  BY <1>1, <1>3, <1>4, <1>7
<1>9. Replaces(s, k)
  BY <1>2, <1>6 DEF Replaces
<1>10. CASE Advance(r, s)
  <2>1. Served(r, s)
    BY <1>1, <1>3, <1>4, <1>6, <1>7, <1>8, <1>9, <1>10 DEF Served
  <2>2. QED
    BY <2>1, ServedKeeps
<1>11. CASE Advance(r, Refused(r)) /\ k \in missed'
  <2>1. ~r.ok /\ Refused(r).cookie = k /\ ~Refused(r).ok /\ Refused(r).token = r.token
    <3>1. Refused(r).cookie = k /\ (Refused(r).ok <=> r.ok) /\ Refused(r).token = r.token
      BY <1>1, StagesSeen
    <3>2. ~r.ok
      BY <1>1 DEF CookieInv, AnsweredOnly
    <3>3. QED
      BY <3>1, <3>2
  <2>2. Served(r, Refused(r))
    BY <1>1, <1>4, <1>7, <1>8, <1>11, <2>1 DEF Served
  <2>3. QED
    BY <2>2, ServedKeeps
<1>12. QED
  BY <1>4, <1>10, <1>11

(* A logout: the answer clears the cookie it has revoked.                    *)
LEMMA LogoutSeen ==
  ASSUME TInv, CookieInv, NEW r \in requests, Logout(r)
  PROVE  CookieInv'
<1> DEFINE k == r.cookie
           s == Accepted(r, r.user, None)
<1>1. /\ r \in RequestRecord /\ tokens \in Seq(RowRecord) /\ Len(tokens) \in Nat
      /\ r.stage = "checked" /\ r.kind = "logout"
  BY DEF TInv, TableOK, Good, RequestRecord, Logout
<1>2. k \in DOMAIN tokens /\ DOMAIN tokens = 1..Len(tokens)
  <2>1. k \in Nat /\ k # 0 /\ k <= Len(tokens)
    BY <1>1 DEF TInv, Good, RequestRecord, None
  <2>2. QED
    BY <1>1, <2>1
<1>3. Advance(r, s) /\ tokens' = Revoke(tokens, k, None) /\ cookie' = cookie /\ missed' = missed
  BY DEF Logout, browser, page
<1>4. Revoked(tokens, k, tokens')
  <2> HIDE DEF k
  <2>1. None \in Nat
    BY DEF None
  <2>2. QED
    BY <1>1, <1>2, <1>3, <2>1, RevokeFacts
<1>5. s.cookie = k /\ s.ok /\ s.stage = "answered" /\ s.token = None /\ s.kind = "logout"
  BY <1>1 DEF RequestRecord, Accepted
<1> HIDE DEF s
<1>6. \A i \in 1..Len(tokens) : tokens'[i].revoked <=> (tokens[i].revoked \/ i = k)
  BY <1>2, <1>4 DEF Revoked
<1>7. Replaces(s, k)
  BY <1>5 DEF Replaces
<1>8. Served(r, s)
  BY <1>1, <1>3, <1>5, <1>6, <1>7 DEF Served
<1>9. QED
  BY <1>8, ServedKeeps

(* Any step of the server for one request.                                   *)
LEMMA ServeSeen ==
  ASSUME TInv, CookieInv, NEW r \in requests, Serve(r)
  PROVE  CookieInv'
<1>1. ASSUME NEW s, s \in {Checked(r), Refused(r), Accepted(r, r.user, None)}, Advance(r, s),
             r.stage # "answered", UNCHANGED <<table, browser>>
      PROVE  CookieInv'
  BY <1>1, PlainService
<1>2. CASE CheckRegister(r) \/ CheckLogin(r) \/ CheckRefresh(r) \/ CheckLogout(r) \/ GetCurrentUser(r)
  <2>1. r.stage # "answered" /\ UNCHANGED <<table, browser>>
    BY <1>2 DEF CheckRegister, CheckLogin, CheckRefresh, CheckLogout, GetCurrentUser
  <2>2. Advance(r, Checked(r)) \/ Advance(r, Refused(r)) \/ Advance(r, Accepted(r, r.user, None))
    BY <1>2, Zenon DEF CheckRegister, CheckLogin, CheckRefresh, CheckLogout, GetCurrentUser
  <2>3. QED
    BY <1>1, <2>1, <2>2
<1>3. CASE CommitFails(r)
  BY <1>1, <1>3 DEF CommitFails
<1>4. CASE Register(r)
  <2>1. r.stage # "answered" /\ UNCHANGED page
    BY <1>4 DEF Register
  <2>2. CASE StartChain(r, r.user)
    BY <2>1, <2>2, StartSeen
  <2>3. CASE Advance(r, Refused(r)) /\ UNCHANGED <<table, missed>>
    BY <1>1, <2>1, <2>3 DEF browser
  <2>4. QED
    BY <1>4, <2>2, <2>3 DEF Register
<1>5. CASE Login(r)
  BY <1>5, StartSeen DEF Login
<1>6. CASE Refresh(r)
  BY <1>6, RefreshSeen
<1>7. CASE Logout(r)
  BY <1>7, LogoutSeen
<1>8. QED
  BY <1>2, <1>3, <1>4, <1>5, <1>6, <1>7 DEF Serve

(* A request that was just sent brings no token.                             *)
LEMMA PlainRequest ==
  ASSUME NEW kind, NEW t, NEW user, NEW applies, NEW id
  PROVE  /\ Plain(Request(kind, t, user, applies), cookie)
         /\ Plain([Request(kind, t, user, applies) EXCEPT !.id = id], cookie)
BY DEF Request, Plain

(* ... nor does the one that follows an answer.                              *)
LEMMA NextPlain ==
  ASSUME NEW r, NEW q \in NextOf(r), NEW id
  PROVE  Plain(q, cookie) /\ Plain([q EXCEPT !.id = id], cookie)
<1>1. q = [Request("refresh", r.tab, "nobody", r.applies) EXCEPT !.id = r.id]
  BY DEF NextOf
<1>2. QED
  BY <1>1 DEF Request, Plain

(* The requests stay as they are. *)
Ident == [r \in requests |-> r]

(* A request is its own continuation.                                        *)
LEMMA IdentKin ==
  /\ \A r \in requests : Ident[r] = r /\ Kin(Ident[r], r)
  /\ {Ident[r] : r \in requests} = requests
BY DEF Ident, Kin

(* Steps that leave the requests, the cookie and what is revoked.            *)
LEMMA QuietSeen ==
  ASSUME TInv, CookieInv, UNCHANGED <<requests, cookie, missed>>,
         \A k \in 1..Len(tokens) : tokens'[k].revoked <=> tokens[k].revoked
  PROVE  CookieInv'
<1>1. Renewed(Ident, {})
  <2>1. CookieMoves(Ident)
    BY IdentKin DEF CookieMoves
  <2>2. QED
    BY <2>1, IdentKin DEF Renewed
<1>2. QED
  BY <1>1, RenewedKeeps

(* A click sends a plain request.                                            *)
LEMMA SendSeen ==
  ASSUME TInv, CookieInv, NEW kind, NEW t, NEW user, Send(kind, t, user), UNCHANGED <<table, browser>>
  PROVE  CookieInv'
<1> DEFINE N == {Request(kind, t, user, TRUE)}
<1>1. requests' = requests \cup N /\ tokens' = tokens /\ cookie' = cookie /\ missed' = missed
  BY DEF Send, table, browser, page
<1>2. \A q \in N : Plain(q, cookie)
  BY DEF Request, Plain
<1> HIDE DEF N
<1>3. Renewed(Ident, N)
  <2>1. CookieMoves(Ident)
    BY <1>1, IdentKin DEF CookieMoves
  <2>2. QED
    BY <1>1, <1>2, <2>1, IdentKin DEF Renewed
<1>4. QED
  BY <1>3, RenewedKeeps

(* So does a page that opens.                                                *)
LEMMA OpenPageSeen ==
  ASSUME TInv, CookieInv, NEW t, OpenPage(t)
  PROVE  CookieInv'
<1> DEFINE kind == IF access = NoAccess THEN "refresh" ELSE "me"
           first == Request(kind, t, BearerUser, FALSE)
           second == [Request(kind, t, BearerUser, TRUE) EXCEPT !.id = asks + 1]
           cut(r) == [r EXCEPT !.applies = @ /\ r.tab # t, !.heard = @ /\ r.tab # t]
           f == [r \in requests |-> cut(r)]
           N == {first, second}
<1>1. requests' = {cut(r) : r \in requests} \cup {second} \cup (IF setup.strict THEN {first} ELSE {})
      /\ tokens' = tokens /\ cookie' = cookie /\ missed' = missed
  BY DEF OpenPage, Bootstrap, table
<1>2. Plain(first, cookie) /\ Plain(second, cookie)
  <2> HIDE DEF kind
  <2>1. QED
    BY PlainRequest
<1>3. ASSUME NEW r \in requests
      PROVE  Kin(cut(r), r)
  <2>1. r \in RequestRecord
    BY DEF TInv, Good
  <2>2. QED
    BY <2>1 DEF RequestRecord, Kin
<1> HIDE DEF first, second, cut
<1>4. \A r \in requests : f[r] = cut(r)
  OBVIOUS
<1> HIDE DEF f
<1>5. Renewed(f, N)
  <2>1. CookieMoves(f)
    BY <1>1, <1>4 DEF CookieMoves
  <2>2. requests' \subseteq {f[r] : r \in requests} \cup N
    BY <1>1, <1>4
  <2>3. \A r \in requests : Kin(f[r], r)
    BY <1>3, <1>4
  <2>4. QED
    BY <1>1, <1>2, <2>1, <2>2, <2>3 DEF Renewed
<1>6. QED
  BY <1>5, RenewedKeeps

(* An answer hands its token over to the cookie.                             *)
LEMMA ReceiveSeen ==
  ASSUME TInv, CookieInv, NEW r \in requests, Receive(r)
  PROVE  CookieInv'
<1>1. /\ requests' = (requests \ {r}) \cup NextOf(r) /\ cookie' = CookieAfter(r)
      /\ tokens' = tokens /\ missed' = missed
  BY DEF Receive, table
<1>2. \A q \in NextOf(r) : Plain(q, cookie)
  BY NextPlain
<1>3. CookieMoves(Ident)
  <2>1. CASE TakesToken(r) /\ r.token # None
    <3>1. cookie' = r.token /\ NextOf(r) = {}
      BY <1>1, <2>1 DEF CookieAfter, NextOf, TakesToken
    <3>2. QED
      BY <1>1, <3>1, IdentKin DEF CookieMoves
  <2>2. CASE cookie' = None
    BY <2>2 DEF CookieMoves
  <2>3. CASE ~TakesToken(r) /\ ~(r.ok /\ r.kind = "logout")
    <3>1. cookie' = cookie
      BY <1>1, <2>3 DEF CookieAfter
    <3>2. ~Replaces(r, cookie)
      BY <2>3 DEF Replaces, TakesToken
    <3>3. \A q \in requests : Replaces(q, cookie) => Ident[q] \in requests'
      BY <1>1, <3>2, IdentKin
    <3>4. QED
      BY <1>1, <3>1, <3>3 DEF CookieMoves
  <2>4. QED
    BY <1>1, <2>1, <2>2, <2>3 DEF CookieAfter
<1>4. Renewed(Ident, NextOf(r))
  BY <1>1, <1>2, <1>3, IdentKin DEF Renewed
<1>5. QED
  BY <1>4, RenewedKeeps

(* An answer nobody waits for leaves the browser marked.                     *)
LEMMA DropSeen ==
  ASSUME TInv, CookieInv, NEW r \in requests, Drop(r)
  PROVE  CookieInv'
<1>1. requests' = requests \ {r} /\ missed' = missed \cup (IF r.ok /\ Revokes(r) THEN {r.cookie} ELSE {})
      /\ tokens' = tokens /\ cookie' = cookie
  BY DEF Drop, table
<1>2. \A q \in requests : Replaces(q, cookie) => Ident[q] \in requests' \/ cookie \in missed'
  <2>1. Replaces(r, cookie) => cookie \in missed'
    BY <1>1 DEF Replaces, Revokes
  <2>2. QED
    BY <1>1, <2>1, IdentKin
<1>3. Renewed(Ident, {})
  <2>1. CookieMoves(Ident)
    BY <1>1, <1>2 DEF CookieMoves
  <2>2. QED
    BY <1>1, <2>1, IdentKin DEF Renewed
<1>4. QED
  BY <1>3, RenewedKeeps

(* A lost answer marks the browser.                                          *)
LEMMA LoseSeen ==
  ASSUME TInv, CookieInv, NEW r \in requests, Lose(r)
  PROVE  CookieInv'
<1> DEFINE failed == [r EXCEPT !.ok = FALSE]
           unheard == [r EXCEPT !.heard = FALSE, !.applies = FALSE]
           N == {[q EXCEPT !.id = asks] : q \in NextOf(failed)}
           f == [q \in requests |-> IF q = r THEN unheard ELSE q]
<1>1. /\ \E left \in {{unheard}} \cup (IF r.stage = "sent" THEN {{}} ELSE {}) :
             requests' = (requests \ {r}) \cup left \cup N
      /\ tokens' = tokens /\ cookie' = cookie /\ missed' = missed
  BY DEF Lose, table
<1>2. \A q \in N : Plain(q, cookie)
  BY NextPlain
<1>3. Kin(unheard, r)
  <2>1. r \in RequestRecord
    BY DEF TInv, Good
  <2>2. QED
    BY <2>1 DEF RequestRecord, Kin
<1> HIDE DEF N, unheard
<1>4. f[r] = unheard /\ \A q \in requests : q # r => f[q] = q
  OBVIOUS
<1> HIDE DEF f
<1>5. \A q \in requests : Kin(f[q], q)
  BY <1>3, <1>4 DEF Kin
<1>6. requests' \subseteq {f[q] : q \in requests} \cup N
  BY <1>1, <1>4
<1>7. requests \ {r} \subseteq requests' /\ (r.stage # "sent" => unheard \in requests')
  BY <1>1
<1>8. \A q \in requests : Replaces(q, cookie) => f[q] \in requests'
  <2>1. Replaces(r, cookie) => r.stage # "sent"
    BY DEF Replaces, CookieInv, AnsweredOnly
  <2>2. QED
    BY <1>4, <1>7, <2>1
<1>9. Renewed(f, N)
  <2>1. CookieMoves(f)
    BY <1>1, <1>8 DEF CookieMoves
  <2>2. QED
    BY <1>1, <1>2, <1>5, <1>6, <2>1 DEF Renewed
<1>10. QED
  BY <1>9, RenewedKeeps

(* Every step keeps the invariant.                                           *)
LEMMA CookieStep ==
  ASSUME TInv, CookieInv, [Next]_vars
  PROVE  CookieInv'
<1>1. CASE UNCHANGED vars
  BY <1>1, QuietSeen DEF vars, table, browser, page
<1>2. ASSUME NEW t \in Tabs, OpenPage(t)
      PROVE  CookieInv'
  BY <1>2, OpenPageSeen
<1>3. ASSUME NEW t \in Tabs, SubmitForm(t)
      PROVE  CookieInv'
  <2>1. PICK kind \in {"login", "register"}, user \in Users : Send(kind, t, user)
    BY <1>3 DEF SubmitForm
  <2>2. QED
    BY <1>3, <2>1, SendSeen DEF SubmitForm
<1>4. ASSUME NEW t \in Tabs, ClickLogout(t)
      PROVE  CookieInv'
  BY <1>4, SendSeen DEF ClickLogout
<1>5. ASSUME NEW r \in requests, Serve(r)
      PROVE  CookieInv'
  BY <1>5, ServeSeen
<1>6. ASSUME NEW r \in requests, Receive(r)
      PROVE  CookieInv'
  BY <1>6, ReceiveSeen
<1>7. ASSUME NEW r \in requests, Drop(r)
      PROVE  CookieInv'
  BY <1>7, DropSeen
<1>8. ASSUME NEW r \in requests, Lose(r)
      PROVE  CookieInv'
  BY <1>8, LoseSeen
<1>9. CASE Tick
  BY <1>9, QuietSeen DEF Tick, table, browser, page
<1>10. CASE ExpireAccess
  BY <1>10, QuietSeen DEF ExpireAccess, table
<1>11. ASSUME NEW k \in DOMAIN tokens, ExpireToken(k)
       PROVE  CookieInv'
  <2>1. tokens \in Seq(RowRecord) /\ DOMAIN tokens = 1..Len(tokens)
    BY DEF TInv, TableOK
  <2>2. tokens' = [tokens EXCEPT ![k].expired = TRUE] /\ UNCHANGED <<requests, cookie, missed>>
    BY <1>11 DEF ExpireToken, browser, page
  <2>3. ASSUME NEW i \in 1..Len(tokens)
        PROVE  tokens'[i].revoked <=> tokens[i].revoked
    <3>1. tokens[i] \in RowRecord
      BY <2>1
    <3>2. QED
      BY <2>1, <2>2, <3>1 DEF RowRecord
  <2>4. QED
    BY <2>2, <2>3, QuietSeen
<1>12. ASSUME NEW user \in Users, DisableUser(user)
       PROVE  CookieInv'
  BY <1>12, QuietSeen DEF DisableUser, table, browser, page
<1>13. QED
  BY <1>1, <1>2, <1>3, <1>4, <1>5, <1>6, <1>7, <1>8, <1>9, <1>10, <1>11, <1>12 DEF Next

(* The cookie of a browser is no dead end, for any tabs, users and bounds:   *)
(* when its token was revoked, the answer that replaces it is under way, was *)
(* missed, or became an error after the commit (AuthService.refresh, logout, *)
(* the routes' Set-Cookie).                                                  *)
THEOREM CookieStaysLive ==
  Spec => []CookieIsLive
<1>1. Init => TInv /\ ChainInv /\ CookieInv
  <2>1. Init => CookieInv
    BY DEF Init, CookieInv, AnsweredOnly, Unclaimed, CookieIsLive
  <2>2. QED
    BY <2>1, InitHolds
<1>2. (TInv /\ ChainInv /\ CookieInv) /\ [Next]_vars => (TInv /\ ChainInv /\ CookieInv)'
  <2>1. TInv /\ CookieInv /\ [Next]_vars => CookieInv'
    BY CookieStep
  <2>2. QED
    BY <2>1, StepKeeps
<1>3. TInv /\ ChainInv /\ CookieInv => CookieIsLive
  BY DEF CookieInv
<1>4. QED
  BY <1>1, <1>2, <1>3, PTL DEF Spec

-----------------------------------------------------------------------------
(* The limiter. *)

(* What is left of a bucket: its end, beginning with the first stamp that is *)
(* young enough.                                                             *)
Leaves(stamps, kept, cutoff) ==
    /\ kept \in Seq(Nat) /\ Len(kept) <= Len(stamps)
    /\ \A i \in 1..Len(kept) : kept[i] = stamps[Len(stamps) - Len(kept) + i]
    /\ \A i \in 1..(Len(stamps) - Len(kept)) : stamps[i] <= cutoff
    /\ Len(kept) > 0 => kept[1] > cutoff

(* A sequence has a first stamp after the cutoff, or none.                   *)
LEMMA FirstExists ==
  ASSUME NEW stamps \in Seq(Nat), NEW cutoff \in Int
  PROVE  \E i \in 1..(Len(stamps) + 1) :
           /\ \A j \in 1..(i - 1) : stamps[j] <= cutoff
           /\ i <= Len(stamps) => stamps[i] > cutoff
<1> DEFINE young == {i \in 1..Len(stamps) : stamps[i] > cutoff}
<1>1. Len(stamps) \in Nat /\ \A i \in 1..Len(stamps) : stamps[i] \in Nat
  OBVIOUS
<1>2. CASE young = {}
  <2>1. \A j \in 1..Len(stamps) : stamps[j] <= cutoff
    BY <1>1, <1>2
  <2>2. (Len(stamps) + 1) \in 1..(Len(stamps) + 1) /\ (Len(stamps) + 1) - 1 = Len(stamps)
    BY <1>1
  <2>3. QED
    BY <1>1, <2>1, <2>2
<1>3. CASE young # {}
  <2>1. young \subseteq Nat
    OBVIOUS
  <2>2. PICK i \in young : \A m \in young : i <= m
    BY <1>3, <2>1, LeastNumber, Zenon
  <2>3. \A j \in 1..(i - 1) : stamps[j] <= cutoff
    BY <1>1, <2>2
  <2>4. i \in 1..(Len(stamps) + 1) /\ stamps[i] > cutoff
    BY <1>1, <2>2
  <2>5. QED
    BY <2>3, <2>4
<1>4. QED
  BY <1>2, <1>3

(* Popping from the front leaves the stamps from there on.                   *)
LEMMA StampsLeave ==
  ASSUME NEW stamps \in Seq(Nat), NEW cutoff \in Int
  PROVE  Leaves(stamps, StampsSince(stamps, cutoff), cutoff)
<1> DEFINE ok(i) == /\ \A j \in 1..(i - 1) : stamps[j] <= cutoff
                    /\ i <= Len(stamps) => stamps[i] > cutoff
           first == CHOOSE i \in 1..(Len(stamps) + 1) : ok(i)
           n == Len(stamps)
           kept == SubSeq(stamps, first, n)
<1>1. first \in 1..(n + 1) /\ ok(first)
  <2>1. \E i \in 1..(n + 1) : ok(i)
    BY FirstExists
  <2> HIDE DEF ok
  <2>2. QED
    BY <2>1
<1>2. StampsSince(stamps, cutoff) = kept
  BY DEF StampsSince
<1> HIDE DEF first
<1>3. n \in Nat /\ first \in Nat
  BY <1>1
<1>4. /\ kept \in Seq(Nat)
      /\ Len(kept) = IF first <= n THEN (n - first) + 1 ELSE 0
      /\ \A i \in 1..((n - first) + 1) : kept[i] = stamps[(first + i) - 1]
  <2>1. CASE first = n + 1
    <3>1. kept = <<>>
      BY <1>3, <2>1
    <3>2. QED
      BY <1>3, <2>1, <3>1
  <2>2. CASE first <= n
    BY <1>1, <1>3, <2>2
  <2>3. QED
    BY <1>1, <1>3, <2>1, <2>2
<1> HIDE DEF kept
<1>5. Len(kept) = (n - first) + 1
  BY <1>1, <1>3, <1>4
<1>6. n - Len(kept) = first - 1 /\ Len(kept) <= n
  BY <1>1, <1>3, <1>5
<1>7. \A i \in 1..Len(kept) : kept[i] = stamps[n - Len(kept) + i]
  <2>1. ASSUME NEW i \in 1..Len(kept)
        PROVE  kept[i] = stamps[n - Len(kept) + i]
    <3>1. (first + i) - 1 = n - Len(kept) + i
      BY <1>3, <1>5
    <3>2. QED
      BY <1>4, <1>5, <3>1
  <2>2. QED
    BY <2>1
<1>8. \A i \in 1..(n - Len(kept)) : stamps[i] <= cutoff
  BY <1>1, <1>6
<1>9. Len(kept) > 0 => kept[1] > cutoff
  <2>1. Len(kept) > 0 => 1 \in 1..Len(kept) /\ n - Len(kept) + 1 = first /\ first <= n
    BY <1>1, <1>3, <1>5
  <2>2. QED
    BY <1>1, <1>7, <2>1
<1>10. QED
  BY <1>2, <1>4, <1>6, <1>7, <1>8, <1>9 DEF Leaves

(* No window of w that ends with an admission holds more of them than the    *)
(* limit; and one more admission keeps it so, if fewer than the limit are    *)
(* left when the older ones have gone.                                       *)
Within(a, i, w) == {j \in DOMAIN a : a[j] > a[i] - w /\ a[j] <= a[i]}
Exact(a, w, limit) == \A i \in DOMAIN a : Cardinality(Within(a, i, w)) <= limit

(* One more admission keeps every window within the limit.                   *)
LEMMA AdmissionExact ==
  ASSUME NEW a \in Seq(Nat), NEW now \in Nat, NEW w \in Nat \ {0}, NEW limit \in Nat, NEW k \in Nat,
         k <= Len(a), k < limit, \A i \in 1..Len(a) : a[i] <= now,
         \A j \in 1..(Len(a) - k) : a[j] <= now - w, Exact(a, w, limit)
  PROVE  Exact(Append(a, now), w, limit)
<1> DEFINE n == Len(a)
           b == Append(a, now)
<1>1. n \in Nat /\ DOMAIN a = 1..n /\ \A i \in 1..n : a[i] \in Nat
  OBVIOUS
<1>2. DOMAIN b = 1..(n + 1) /\ b[n + 1] = now /\ \A i \in 1..n : b[i] = a[i]
  BY <1>1
<1> HIDE DEF b
<1>3. ASSUME NEW i \in 1..(n + 1), b[i] = now
      PROVE  Cardinality(Within(b, i, w)) <= limit
  <2>1. Within(b, i, w) \subseteq ((n - k) + 1)..(n + 1)
    <3>1. ASSUME NEW j \in 1..(n + 1), b[j] > now - w
          PROVE  j \in ((n - k) + 1)..(n + 1)
      BY <1>1, <1>2, <3>1
    <3>2. QED
      BY <1>2, <1>3, <3>1 DEF Within
  <2>2. /\ IsFiniteSet(((n - k) + 1)..(n + 1))
        /\ Cardinality(((n - k) + 1)..(n + 1)) = k + 1
    <3>1. (n - k) + 1 \in Int /\ n + 1 \in Int /\ (n - k) + 1 <= n + 1
      BY <1>1
    <3>2. ((n + 1) - ((n - k) + 1)) + 1 = k + 1
      BY <1>1
    <3>3. QED
      BY <3>1, <3>2, FS_Interval
  <2>3. Cardinality(Within(b, i, w)) <= k + 1 /\ Cardinality(Within(b, i, w)) \in Nat
    BY <2>1, <2>2, FS_Subset, FS_CardinalityType
  <2>4. QED
    BY <2>3
<1>4. ASSUME NEW i \in 1..(n + 1), b[i] # now
      PROVE  Cardinality(Within(b, i, w)) <= limit
  <2>1. i \in 1..n /\ b[i] < now
    BY <1>1, <1>2, <1>4
  <2>2. Within(b, i, w) = Within(a, i, w)
    <3>1. b[i] = a[i] /\ ~(b[n + 1] <= b[i])
      BY <1>1, <1>2, <2>1
    <3>2. \A j \in 1..(n + 1) : j \in 1..n \/ j = n + 1
      BY <1>1
    <3>3. ASSUME NEW j \in Within(b, i, w)
          PROVE  j \in Within(a, i, w)
      <4>1. j \in 1..(n + 1) /\ b[j] > b[i] - w /\ b[j] <= b[i]
        BY <1>2, <3>3 DEF Within
      <4>2. j \in 1..n
        BY <3>1, <3>2, <4>1
      <4>3. QED
        BY <1>1, <1>2, <3>1, <4>1, <4>2 DEF Within
    <3>4. ASSUME NEW j \in Within(a, i, w)
          PROVE  j \in Within(b, i, w)
      <4>1. j \in 1..n /\ a[j] > a[i] - w /\ a[j] <= a[i]
        BY <1>1, <3>4 DEF Within
      <4>2. j \in 1..(n + 1) /\ b[j] = a[j]
        BY <1>1, <1>2, <4>1
      <4>3. QED
        BY <1>2, <3>1, <4>1, <4>2 DEF Within
    <3>5. QED
      BY <3>3, <3>4, Zenon
  <2>3. QED
    BY <1>1, <2>1, <2>2 DEF Exact
<1>5. QED
  BY <1>2, <1>3, <1>4 DEF Exact, b

Window == setup.grain * setup.window

(* The bucket is the end of all admissions, in their order; those that left  *)
(* it are too old, and it never holds more than the limit.                   *)
LimiterInv ==
    /\ setup \in SetupType /\ clock \in Nat /\ bucket \in Seq(Nat) /\ admitted \in Seq(Nat)
    /\ Len(bucket) <= Len(admitted) /\ Len(bucket) <= setup.limit
    /\ \A i \in 1..Len(bucket) : bucket[i] = admitted[Len(admitted) - Len(bucket) + i]
    /\ \A i \in 1..(Len(admitted) - Len(bucket)) : admitted[i] <= clock - Window
    /\ \A i \in 1..Len(admitted) : admitted[i] <= clock
    /\ Exact(admitted, Window, setup.limit)

(* A window of seconds is one of ticks.                                      *)
LEMMA Product ==
  ASSUME NEW a \in Nat \ {0}, NEW b \in Nat
  PROVE  a * b \in Nat /\ (b > 0 => a * b \in Nat \ {0})
OBVIOUS

(* What rounding down to whole seconds takes away is less than one.          *)
LEMMA RoundedDown ==
  ASSUME NEW a \in Nat, NEW b \in Nat \ {0}
  PROVE  a \div b \in Nat /\ a < b * ((a \div b) + 1)
OBVIOUS

(* More seconds are more ticks.                                              *)
LEMMA LongerWait ==
  ASSUME NEW b \in Nat \ {0}, NEW m \in Nat, NEW n \in Nat, m <= n
  PROVE  b * (m + 1) <= b * (n + 1) /\ b * (n + 1) \in Nat
OBVIOUS

(* The numbers of the limiter.                                               *)
LEMMA Settings ==
  ASSUME LimiterInv
  PROVE  /\ setup.limit \in Nat /\ setup.window \in Nat /\ setup.grain \in Nat \ {0} /\ Window \in Nat
         /\ Limited => setup.limit > 0 /\ Window \in Nat \ {0}
         /\ clock - Window \in Int /\ Len(bucket) \in Nat /\ Len(admitted) \in Nat
<1>1. setup.limit \in Nat /\ setup.window \in Nat /\ setup.grain \in Nat \ {0} /\ clock \in Nat
  BY DEF LimiterInv, SetupType
<1>2. Window \in Nat /\ (setup.window > 0 => Window \in Nat \ {0})
  BY <1>1, Product, Zenon DEF Window
<1>3. QED
  BY <1>1, <1>2 DEF LimiterInv, Limited

(* What a hit finds left. *)
LEMMA KeptFacts ==
  ASSUME LimiterInv
  PROVE  LET kept == StampsIn(bucket, clock)
         IN  /\ Leaves(bucket, kept, clock - Window)
             /\ Len(kept) <= Len(admitted)
             /\ \A i \in 1..Len(kept) : kept[i] = admitted[Len(admitted) - Len(kept) + i]
             /\ \A i \in 1..(Len(admitted) - Len(kept)) : admitted[i] <= clock - Window
<1> DEFINE kept == StampsIn(bucket, clock)
<1>1. Leaves(bucket, kept, clock - Window)
  BY Settings, StampsLeave DEF StampsIn, Window, LimiterInv
<1> HIDE DEF kept
<1>2. Len(kept) \in Nat /\ Len(kept) <= Len(bucket) /\ Len(bucket) <= Len(admitted)
      /\ Len(bucket) \in Nat /\ Len(admitted) \in Nat
  BY <1>1 DEF Leaves, LimiterInv
<1>3. ASSUME NEW i \in 1..Len(kept)
      PROVE  kept[i] = admitted[Len(admitted) - Len(kept) + i]
  <2>1. kept[i] = bucket[Len(bucket) - Len(kept) + i]
    BY <1>1 DEF Leaves
  <2> DEFINE j == Len(bucket) - Len(kept) + i
  <2>2. j \in 1..Len(bucket) /\ Len(admitted) - Len(bucket) + j = Len(admitted) - Len(kept) + i
    BY <1>2
  <2> HIDE DEF j
  <2>3. bucket[j] = admitted[Len(admitted) - Len(bucket) + j]
    BY <2>2 DEF LimiterInv
  <2>4. QED
    BY <2>1, <2>2, <2>3 DEF j
<1>4. ASSUME NEW i \in 1..(Len(admitted) - Len(kept))
      PROVE  admitted[i] <= clock - Window
  <2>1. CASE i \in 1..(Len(admitted) - Len(bucket))
    BY <2>1 DEF LimiterInv
  <2>2. CASE i \notin 1..(Len(admitted) - Len(bucket))
    <3> DEFINE j == i - (Len(admitted) - Len(bucket))
    <3>1. j \in 1..(Len(bucket) - Len(kept)) /\ j \in 1..Len(bucket)
          /\ Len(admitted) - Len(bucket) + j = i
      BY <1>2, <2>2
    <3> HIDE DEF j
    <3>2. bucket[j] <= clock - Window
      BY <1>1, <3>1 DEF Leaves
    <3>3. bucket[j] = admitted[Len(admitted) - Len(bucket) + j]
      BY <3>1 DEF LimiterInv
    <3>4. QED
      BY <3>1, <3>2, <3>3
  <2>3. QED
    BY <2>1, <2>2
<1>5. QED
  BY <1>1, <1>2, <1>3, <1>4 DEF kept

(* Initially nobody was admitted.                                            *)
LEMMA LimiterStarts ==
  ASSUME Init
  PROVE  LimiterInv
<1>1. setup \in SetupType
  BY AuthSessionAssumption DEF Init
<1>2. setup.limit \in Nat /\ setup.window \in Nat
  BY <1>1 DEF SetupType
<1>3. clock = 0 /\ bucket = <<>> /\ admitted = <<>>
  BY DEF Init
<1>4. Exact(admitted, Window, setup.limit)
  BY <1>3 DEF Exact
<1>5. <<>> \in Seq(Nat) /\ Len(<<>>) = 0
  OBVIOUS
<1>6. QED
  BY <1>1, <1>2, <1>3, <1>4, <1>5 DEF LimiterInv

(* A login that the limiter lets in.                                         *)
LEMMA HitAllowed ==
  ASSUME LimiterInv, Limited, setup' = setup, clock' = clock,
         NEW kept, kept = StampsIn(bucket, clock), ~(Len(kept) >= setup.limit),
         bucket' = Append(kept, clock), admitted' = Append(admitted, clock)
  PROVE  LimiterInv'
<1> DEFINE n == Len(admitted)
           k == Len(kept)
<1>1. /\ setup \in SetupType /\ clock \in Nat /\ admitted \in Seq(Nat)
      /\ \A i \in 1..n : admitted[i] <= clock
      /\ Exact(admitted, Window, setup.limit)
  BY DEF LimiterInv
<1>2. /\ setup.limit \in Nat /\ Window \in Nat \ {0} /\ n \in Nat
  BY Settings
<1>3. /\ kept \in Seq(Nat) /\ k <= n
      /\ \A i \in 1..k : kept[i] = admitted[n - k + i]
      /\ \A i \in 1..(n - k) : admitted[i] <= clock - Window
  BY KeptFacts DEF Leaves
<1>4. k \in Nat /\ k < setup.limit
  BY <1>2, <1>3
<1>5. /\ admitted' \in Seq(Nat) /\ Len(admitted') = n + 1 /\ admitted'[n + 1] = clock
      /\ \A i \in 1..n : admitted'[i] = admitted[i]
  BY <1>1
<1>6. /\ bucket' \in Seq(Nat) /\ Len(bucket') = k + 1 /\ bucket'[k + 1] = clock
      /\ \A i \in 1..k : bucket'[i] = kept[i]
  BY <1>1, <1>3
<1>7. Exact(admitted', Window, setup.limit)
  BY <1>1, <1>2, <1>3, <1>4, AdmissionExact
<1>8. Window' = Window
  BY DEF Window
<1> HIDE DEF n, k
<1>9. ASSUME NEW i \in 1..(k + 1)
      PROVE  bucket'[i] = admitted'[(n + 1) - (k + 1) + i]
  <2>1. (n + 1) - (k + 1) + i = n - k + i
    BY <1>2, <1>4
  <2>2. CASE i = k + 1
    <3>1. n - k + i = n + 1
      BY <1>2, <1>4, <2>2
    <3>2. QED
      BY <1>5, <1>6, <2>1, <2>2, <3>1
  <2>3. CASE i \in 1..k
    <3>1. n - k + i \in 1..n
      BY <1>2, <1>3, <1>4, <2>3
    <3>2. QED
      BY <1>3, <1>5, <1>6, <2>1, <2>3, <3>1
  <2>4. i = k + 1 \/ i \in 1..k
    BY <1>4
  <2>5. QED
    BY <2>2, <2>3, <2>4, Zenon
<1>10. ASSUME NEW i \in 1..((n + 1) - (k + 1))
       PROVE  admitted'[i] <= clock - Window
  <2>1. i \in 1..(n - k) /\ i \in 1..n
    BY <1>2, <1>4
  <2>2. QED
    BY <1>3, <1>5, <2>1
<1>11. ASSUME NEW i \in 1..(n + 1)
       PROVE  admitted'[i] <= clock
  <2>1. i \in 1..n \/ i = n + 1
    BY <1>2
  <2>2. QED
    BY <1>1, <1>5, <2>1 DEF n
<1>12. Len(bucket') <= Len(admitted') /\ Len(bucket') <= setup.limit
  BY <1>2, <1>3, <1>4, <1>5, <1>6
<1>13. QED
  BY <1>1, <1>5, <1>6, <1>7, <1>8, <1>9, <1>10, <1>11, <1>12 DEF LimiterInv

(* A login that it refuses: the old stamps leave all the same.               *)
LEMMA HitRefused ==
  ASSUME LimiterInv, Limited, setup' = setup, clock' = clock,
         bucket' = StampsIn(bucket, clock), admitted' = admitted
  PROVE  LimiterInv'
<1>1. /\ setup \in SetupType /\ clock \in Nat /\ admitted \in Seq(Nat)
      /\ \A i \in 1..Len(admitted) : admitted[i] <= clock
      /\ Exact(admitted, Window, setup.limit)
      /\ Len(bucket) <= setup.limit
  BY DEF LimiterInv
<1>2. /\ bucket' \in Seq(Nat) /\ Len(bucket') <= Len(bucket)
      /\ Len(bucket') <= Len(admitted)
      /\ \A i \in 1..Len(bucket') : bucket'[i] = admitted[Len(admitted) - Len(bucket') + i]
      /\ \A i \in 1..(Len(admitted) - Len(bucket')) : admitted[i] <= clock - Window
  BY KeptFacts DEF Leaves
<1>3. Len(bucket') \in Nat /\ Len(bucket) \in Nat /\ setup.limit \in Nat
  BY <1>2, Settings
<1>4. Len(bucket') <= setup.limit
  BY <1>1, <1>2, <1>3
<1>5. Window' = Window
  BY DEF Window
<1>6. QED
  BY <1>1, <1>2, <1>4, <1>5 DEF LimiterInv

(* Time that passes makes no stamp younger.                                  *)
LEMMA LimiterTicks ==
  ASSUME LimiterInv, Tick
  PROVE  LimiterInv'
<1>1. clock \in Nat /\ clock' = clock + 1 /\ UNCHANGED <<setup, bucket, admitted>>
  BY DEF LimiterInv, Tick, limiter
<1>2. Window' = Window /\ Window \in Nat
  BY <1>1, Settings DEF Window
<1>3. admitted \in Seq(Nat) /\ bucket \in Seq(Nat) /\ Len(bucket) \in Nat /\ Len(admitted) \in Nat
      /\ Len(bucket) <= Len(admitted)
  BY DEF LimiterInv
<1>4. \A i \in 1..Len(admitted) : admitted[i] \in Nat
  BY <1>3
<1>5. ASSUME NEW i \in 1..(Len(admitted) - Len(bucket))
      PROVE  admitted[i] <= clock' - Window
  <2>1. admitted[i] <= clock - Window /\ i \in 1..Len(admitted)
    BY <1>3 DEF LimiterInv
  <2>2. QED
    BY <1>1, <1>2, <1>4, <2>1
<1>6. ASSUME NEW i \in 1..Len(admitted)
      PROVE  admitted[i] <= clock'
  <2>1. admitted[i] <= clock
    BY DEF LimiterInv
  <2>2. QED
    BY <1>1, <1>4, <2>1
<1>7. QED
  BY <1>1, <1>2, <1>5, <1>6 DEF LimiterInv

(* Steps of others leave the limiter alone.                                  *)
LEMMA LimiterRests ==
  ASSUME LimiterInv, UNCHANGED <<setup, clock, bucket, admitted>>
  PROVE  LimiterInv'
BY DEF LimiterInv, Window

(* A login is admitted or refused.                                           *)
LEMMA LoginHits ==
  ASSUME LimiterInv, NEW r \in requests, CheckLogin(r)
  PROVE  LimiterInv'
<1> DEFINE kept == StampsIn(bucket, clock)
           hit == Hit(bucket, clock)
<1>1. UNCHANGED <<setup, clock>>
  BY DEF CheckLogin
<1>2. /\ bucket' = IF Limited THEN hit.stamps ELSE bucket
      /\ admitted' = IF Limited /\ hit.allowed THEN Append(admitted, clock) ELSE admitted
  BY DEF CheckLogin
<1>3. /\ Len(kept) >= setup.limit => ~hit.allowed /\ hit.stamps = kept
      /\ ~(Len(kept) >= setup.limit) => hit.allowed /\ hit.stamps = Append(kept, clock)
  BY DEF Hit
<1> HIDE DEF hit
<1>4. CASE ~Limited
  BY <1>1, <1>2, <1>4, LimiterRests
<1>5. CASE Limited /\ Len(kept) >= setup.limit
  <2>1. bucket' = StampsIn(bucket, clock) /\ admitted' = admitted
    BY <1>2, <1>3, <1>5
  <2>2. QED
    BY <1>1, <1>5, <2>1, HitRefused
<1>6. CASE Limited /\ ~(Len(kept) >= setup.limit)
  <2>1. bucket' = Append(kept, clock) /\ admitted' = Append(admitted, clock)
    BY <1>2, <1>3, <1>6
  <2>2. QED
    BY <1>1, <1>6, <2>1, HitAllowed
<1>7. QED
  BY <1>4, <1>5, <1>6

(* Every step keeps the invariant.                                           *)
LEMMA LimiterStep ==
  ASSUME LimiterInv, [Next]_vars
  PROVE  LimiterInv'
<1>1. ASSUME NEW t \in Tabs, OpenPage(t) \/ SubmitForm(t) \/ ClickLogout(t)
      PROVE  UNCHANGED <<setup, clock, bucket, admitted>>
  BY <1>1 DEF OpenPage, SubmitForm, ClickLogout, limiter
<1>2. ASSUME NEW r \in requests, Serve(r)
      PROVE  LimiterInv'
  <2>1. CASE CheckLogin(r)
    BY <2>1, LoginHits
  <2>2. CASE ~CheckLogin(r)
    <3>1. UNCHANGED <<setup, clock, bucket, admitted>>
      BY <1>2, <2>2 DEF Serve, CheckRegister, Register, Login, CheckRefresh, Refresh, CheckLogout,
                        Logout, GetCurrentUser, CommitFails, limiter
    <3>2. QED
      BY <3>1, LimiterRests
  <2>3. QED
    BY <2>1, <2>2
<1>3. ASSUME NEW r \in requests, Receive(r) \/ Drop(r) \/ Lose(r)
      PROVE  UNCHANGED <<setup, clock, bucket, admitted>>
  BY <1>3 DEF Receive, Drop, Lose, limiter
<1>4. CASE Tick
  BY <1>4, LimiterTicks
<1>5. CASE ExpireAccess
  BY <1>5, LimiterRests DEF ExpireAccess, limiter
<1>6. ASSUME NEW k \in DOMAIN tokens, ExpireToken(k)
      PROVE  UNCHANGED <<setup, clock, bucket, admitted>>
  BY <1>6 DEF ExpireToken, limiter
<1>7. ASSUME NEW user \in Users, DisableUser(user)
      PROVE  UNCHANGED <<setup, clock, bucket, admitted>>
  BY <1>7 DEF DisableUser, limiter
<1>8. CASE UNCHANGED vars
  BY <1>8, LimiterRests DEF vars, limiter
<1>9. QED
  BY <1>1, <1>2, <1>3, <1>4, <1>5, <1>6, <1>7, <1>8, LimiterRests DEF Next

(* Whoever waits one second longer than Retry-After says finds the oldest    *)
(* stamp gone.                                                               *)
LEMMA WaitingHelps ==
  ASSUME LimiterInv, Limited
  PROVE  LET hit == Hit(bucket, clock)
         IN  ~hit.allowed => Hit(hit.stamps, clock + setup.grain * (hit.retryAfter + 1)).allowed
<1> DEFINE kept == StampsIn(bucket, clock)
           rest == setup.grain * setup.window - (clock - kept[1])
           seconds == rest \div setup.grain
           wait == IF seconds < 1 THEN 1 ELSE seconds
           later == clock + setup.grain * (wait + 1)
<1>1. CASE ~(Len(kept) >= setup.limit)
  BY <1>1 DEF Hit
<1>2. CASE Len(kept) >= setup.limit
  <2>1. setup.limit \in Nat /\ setup.limit > 0 /\ setup.window \in Nat /\ Window \in Nat \ {0} /\ clock \in Nat
        /\ Window = setup.grain * setup.window /\ setup.grain \in Nat \ {0}
    BY Settings DEF LimiterInv, Limited, Window
  <2>2. /\ kept \in Seq(Nat) /\ Len(kept) <= Len(bucket) /\ Len(bucket) <= setup.limit
        /\ Len(kept) > 0 => kept[1] > clock - Window
        /\ bucket \in Seq(Nat)
    BY KeptFacts DEF Leaves, LimiterInv
  <2> HIDE DEF kept
  <2>3. Len(kept) = setup.limit /\ Len(kept) > 0 /\ kept[1] \in Nat
    <3>1. Len(kept) \in Nat /\ Len(bucket) \in Nat
      BY <2>2
    <3>2. Len(kept) = setup.limit /\ Len(kept) > 0
      BY <1>2, <2>1, <2>2, <3>1
    <3>3. QED
      BY <2>2, <3>1, <3>2
  <2>4. rest = Window - (clock - kept[1])
    BY <2>1
  <2> HIDE DEF rest
  <2>5. rest \in Nat /\ kept[1] = clock + rest - Window
    <3>1. Window \in Nat /\ clock \in Nat /\ kept[1] \in Nat /\ kept[1] > clock - Window
      BY <2>1, <2>2, <2>3
    <3>2. QED
      BY <2>4, <3>1
  <2>6. seconds \in Nat /\ rest < setup.grain * (seconds + 1)
    BY <2>1, <2>5, RoundedDown
  <2> HIDE DEF seconds
  <2>7. wait \in Nat /\ seconds <= wait
    BY <2>6
  <2> HIDE DEF wait
  <2>8. /\ setup.grain * (seconds + 1) <= setup.grain * (wait + 1)
        /\ setup.grain * (wait + 1) \in Nat
    BY <2>1, <2>6, <2>7, LongerWait, Zenon
  <2>9. later \in Nat /\ kept[1] <= later - Window
    <3> DEFINE told == setup.grain * (wait + 1)
               least == setup.grain * (seconds + 1)
    <3>1. later = clock + told /\ rest < least /\ least <= told /\ told \in Nat
      BY <2>6, <2>8
    <3>2. least \in Int
      BY <2>1, <2>6, Product
    <3> HIDE DEF told, least, later
    <3>3. QED
      BY <2>1, <2>5, <3>1, <3>2
  <2> DEFINE left == StampsIn(kept, later)
  <2> HIDE DEF later
  <2>10. Leaves(kept, left, later - Window)
    <3>1. left = StampsSince(kept, later - Window)
      BY <2>1 DEF StampsIn
    <3>2. later - Window \in Int
      BY <2>1, <2>9
    <3> HIDE DEF left
    <3>3. QED
      BY <2>2, <3>1, <3>2, StampsLeave
  <2> HIDE DEF left
  <2>11. Len(left) < Len(kept)
    <3>1. SUFFICES ASSUME Len(left) >= Len(kept) PROVE FALSE
      BY <2>2, <2>10 DEF Leaves
    <3>2. Len(left) = Len(kept) /\ Len(left) > 0 /\ Len(left) \in Nat
      BY <2>2, <2>3, <2>10, <3>1 DEF Leaves
    <3>3. left[1] = kept[1] /\ left[1] > later - Window
      BY <2>10, <3>2 DEF Leaves
    <3>4. QED
      BY <2>1, <2>3, <2>9, <3>3
  <2>12. ~(Len(left) >= setup.limit)
    BY <2>1, <2>2, <2>3, <2>10, <2>11 DEF Leaves
  <2>13. Hit(kept, later).allowed
    BY <2>12 DEF Hit, left
  <2>14. /\ ~Hit(bucket, clock).allowed /\ Hit(bucket, clock).stamps = kept
         /\ Hit(bucket, clock).retryAfter = wait
    BY <1>2 DEF Hit, kept, rest, seconds, wait
  <2>15. QED
    BY <2>13, <2>14 DEF later
<1>3. QED
  BY <1>1, <1>2

(* The invariant says what the property says.                                *)
LEMMA LimiterExact ==
  ASSUME LimiterInv
  PROVE  LimiterIsExact
<1>1. SUFFICES ASSUME Limited PROVE LimiterIsExact
  BY DEF LimiterIsExact
<1>2. \A i \in DOMAIN admitted :
        Cardinality({j \in DOMAIN admitted :
           admitted[j] > admitted[i] - setup.grain * setup.window /\ admitted[j] <= admitted[i]}) <= setup.limit
  BY DEF LimiterInv, Exact, Within, Window
<1>3. QED
  BY <1>1, <1>2, WaitingHelps DEF LimiterIsExact

(* No window holds more logins than the rule allows, and a client that waits *)
(* one second longer than Retry-After says is let in, for every limit and    *)
(* window, however fine the clock is and however the attempts fall           *)
(* (InMemoryRateLimiter.hit).                                                *)
THEOREM LimiterStaysExact == Spec => []LimiterIsExact
<1>1. Init => LimiterInv
  BY LimiterStarts
<1>2. LimiterInv /\ [Next]_vars => LimiterInv'
  BY LimiterStep
<1>3. LimiterInv => LimiterIsExact
  BY LimiterExact
<1>4. QED
  BY <1>1, <1>2, <1>3, PTL DEF Spec
=============================================================================
