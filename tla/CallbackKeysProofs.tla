--------------------------- MODULE CallbackKeysProofs ---------------------------
(***************************************************************************)
(* Proofs about CallbackKeys, for any number of validations, keys, changes  *)
(* and faults, and any times to live, cooldowns and timeouts with Timeout   *)
(* below Cooldown.                                                          *)
(*                                                                          *)
(* KeysInv bounds the age of what a validation goes by: the cached set and  *)
(* a reply on its way were read no longer than a timeout before they        *)
(* arrived (ReadOK), a set that has changed under a validation arrived      *)
(* after it began (AgainOK), and a key that the set lacks is younger than   *)
(* the fetch that armed the cooldown, unless that fetch came to nothing     *)
(* (CooldownOK).  A step of a validation is how it ends (Outcome), reached  *)
(* through the operators of the model one by one, and one lemma shows that  *)
(* every such end keeps the invariant (LandsInv).                           *)
(***************************************************************************)
EXTENDS CallbackKeys, SequenceTheorems, FiniteSetTheorems, TLAPS

Waiting(v) == val[v].pc \in {"lock", "fetch", "served"}
Fetching(v) == val[v].pc \in {"fetch", "served"}
FetchingKeys(v) == Fetching(v) /\ val[v].want # "metadata"

ValidationStates ==
    [pc: {"idle", "ready", "lock", "fetch", "served"}, want: Wants, kid: Kids \cup {None},
     expected: KeySets \cup {None}, reply: SUBSET Kids, limit: Nat]
Histories == [since: Nat \cup {None}, until: Nat \cup {None}]

StateOK ==
    /\ metadata \in Metadata \cup {None}
    /\ keySet \in KeySets \cup {None} /\ fetched \in KeySets \cup {None}
    /\ nextFetch \in [Documents -> Times]
    /\ lock \in Seq(Validations)
    /\ val \in [Validations -> ValidationStates]
    /\ provider \in [Kids -> Histories]
    /\ now \in 0..MaxTime /\ failedAt \in Nat \cup {None}
    /\ verdict \in Results \cup {None}

(* The lock is queued for by those who wait for it or hold it, each of them *)
(* once, and the one that fetches is its holder.                            *)
LockOK ==
    /\ \A i, j \in DOMAIN lock : lock[i] = lock[j] => i = j
    /\ \A v \in Validations : Waiting(v) <=> \E i \in DOMAIN lock : lock[i] = v
    /\ \A v \in Validations : Fetching(v) => Head(lock) = v

(* Nothing outlives its deadline, and no deadline is further away than when *)
(* it was set.                                                              *)
ClockOK ==
    /\ \A v \in Validations : val[v].pc # "idle" =>
          val[v].kid \in Kids /\ now <= val[v].limit /\ val[v].limit <= now + Timeout
    /\ \A v \in Validations : val[v].pc = "ready" => val[v].want = "metadata"
    /\ \A d \in Documents : nextFetch[d] <= now + Cooldown
    /\ keySet # None => keySet.expiresAt <= now + TTL
    /\ \A k \in Kids : provider[k].until # None => provider[k].until <= now

(* The keys were read within the timeout that ends at t: one that is among  *)
(* them was published until then or later, and one that is not, yet is now, *)
(* has been published since.                                                *)
ReadBy(keys, t) ==
    \A k \in Kids :
        /\ k \in keys => provider[k] # Unpublished /\ t <= LastSeen(provider[k]) + Timeout
        /\ k \notin keys /\ provider[k].since # None => t <= provider[k].since + Timeout

(* What has been read is not older than the timeout of who asked for it.    *)
ReadOK ==
    /\ keySet # None => \A k \in Kids :
          /\ k \in keySet.keys =>
                provider[k] # Unpublished /\ keySet.expiresAt <= LastSeen(provider[k]) + Timeout + TTL
          /\ k \notin keySet.keys /\ provider[k].since # None =>
                keySet.expiresAt <= provider[k].since + Timeout + TTL
    /\ \A v \in Validations : FetchingKeys(v) /\ val[v].pc = "served" => ReadBy(val[v].reply, val[v].limit)

(* A validation that waits to look again and finds another set than the one *)
(* it looked at finds one that arrived after it began.                      *)
AgainOK ==
    \A v \in Validations :
        val[v].pc = "lock" /\ val[v].want = "again" /\ keySet # None /\ keySet # val[v].expected =>
           val[v].limit + TTL <= keySet.expiresAt + Timeout

(* A key that the set has not was published after the fetch that the        *)
(* cooldown counts from, or that fetch came to nothing.                     *)
Missed(k) ==
    \/ provider[k].since = None
    \/ nextFetch["keys"] <= provider[k].since + Cooldown
    \/ failedAt # None /\ nextFetch["keys"] <= failedAt + Cooldown

CooldownOK ==
    /\ \A v \in Validations : FetchingKeys(v) /\ val[v].pc = "served" =>
          \A k \in Kids \ val[v].reply : Missed(k)
    /\ keySet # None /\ (\A v \in Validations : ~FetchingKeys(v)) =>
          \A k \in Kids \ keySet.keys : Missed(k)

KeysInv == StateOK /\ LockOK /\ ClockOK /\ ReadOK /\ AgainOK /\ CooldownOK
-----------------------------------------------------------------------------
(*                               The lock                                  *)

(* q is the lock without v.                                                 *)
Aside(v, q) ==
    /\ q \in Seq(Validations)
    /\ \A i, j \in DOMAIN q : q[i] = q[j] => i = j
    /\ \A w \in Validations : w # v /\ Waiting(w) <=> \E i \in DOMAIN q : q[i] = w
    /\ \A w \in Validations \ {v} : Fetching(w) => q # <<>> /\ Head(q) = w

(* No other validation fetches. *)
Free(v) == \A w \in Validations \ {v} : ~Fetching(w)

LEMMA AsideEmpty ==
    ASSUME NEW v \in Validations, NEW q, Aside(v, q), q = <<>>
    PROVE  Free(v)
BY DEF Aside, Free

(* One that does not wait has the lock before it.                           *)
LEMMA AsideOutside ==
    ASSUME StateOK, LockOK, NEW v \in Validations, ~Waiting(v)
    PROVE  Aside(v, lock)
<1>1. lock \in Seq(Validations)
  BY DEF StateOK
<1>2. \A w \in Validations : w # v /\ Waiting(w) <=> \E i \in DOMAIN lock : lock[i] = w
  BY DEF LockOK
<1>3. ASSUME NEW w \in Validations \ {v}, Fetching(w)
      PROVE  lock # <<>> /\ Head(lock) = w
  <2>1. Waiting(w)
    BY <1>3 DEF Waiting, Fetching
  <2>2. PICK i \in DOMAIN lock : lock[i] = w
    BY <2>1 DEF LockOK
  <2>3. lock # <<>>
    BY <2>2
  <2> QED
    BY <2>3, <1>3 DEF LockOK
<1>4. \A i, j \in DOMAIN lock : lock[i] = lock[j] => i = j
  BY DEF LockOK
<1> QED
  BY <1>1, <1>2, <1>3, <1>4 DEF Aside

(* The holder has the rest of the lock behind it.                           *)
LEMMA AsideHolder ==
    ASSUME StateOK, LockOK, NEW v \in Validations, Waiting(v), Head(lock) = v
    PROVE  Aside(v, Tail(lock)) /\ Free(v)
<1> DEFINE q == Tail(lock)
<1>1. lock \in Seq(Validations)
  BY DEF StateOK
<1>2. lock # <<>>
  <2>1. PICK i \in DOMAIN lock : lock[i] = v
    BY DEF LockOK
  <2> QED
    BY <2>1
<1>3. q \in Seq(Validations) /\ Len(q) = Len(lock) - 1 /\ \A i \in 1..Len(q) : q[i] = lock[i + 1]
  BY <1>1, <1>2
<1>4. lock[1] = v /\ Len(lock) \in Nat /\ Len(lock) >= 1
  BY <1>1, <1>2
<1>5. \A i, j \in DOMAIN lock : lock[i] = lock[j] => i = j
  BY DEF LockOK
<1>6. \A i, j \in DOMAIN q : q[i] = q[j] => i = j
  <2> SUFFICES ASSUME NEW i \in DOMAIN q, NEW j \in DOMAIN q, q[i] = q[j]
               PROVE  i = j
    OBVIOUS
  <2>0. DOMAIN q = 1..Len(q) /\ DOMAIN lock = 1..Len(lock)
    BY <1>1, <1>3
  <2>1. i + 1 \in DOMAIN lock /\ j + 1 \in DOMAIN lock /\ i \in Nat /\ j \in Nat
    BY <1>3, <1>4, <2>0
  <2>2. lock[i + 1] = lock[j + 1]
    BY <1>3, <2>0
  <2> QED
    BY <1>5, <2>1, <2>2
<1>7. ASSUME NEW w \in Validations
      PROVE  w # v /\ Waiting(w) <=> \E i \in DOMAIN q : q[i] = w
  <2>0. DOMAIN q = 1..Len(q) /\ DOMAIN lock = 1..Len(lock)
    BY <1>1, <1>3
  <2>1. ASSUME w # v, Waiting(w)
        PROVE  \E i \in DOMAIN q : q[i] = w
    <3>1. PICK i \in DOMAIN lock : lock[i] = w
      BY <2>1 DEF LockOK
    <3>2. i # 1
      BY <3>1, <2>1, <1>4
    <3>3. i - 1 \in DOMAIN q /\ i \in Nat
      BY <3>1, <3>2, <1>3, <1>4, <2>0
    <3>4. q[i - 1] = w
      BY <3>1, <3>3, <1>3, <2>0
    <3> QED
      BY <3>3, <3>4
  <2>2. ASSUME NEW i \in DOMAIN q, q[i] = w
        PROVE  w # v /\ Waiting(w)
    <3>1. i + 1 \in DOMAIN lock /\ lock[i + 1] = w /\ i \in Nat /\ i >= 1 /\ 1 \in DOMAIN lock
      BY <2>2, <1>3, <1>4, <2>0
    <3>2. w # v
      BY <3>1, <1>4, <1>5
    <3>3. Waiting(w)
      BY <3>1 DEF LockOK
    <3> QED
      BY <3>2, <3>3
  <2> QED
    BY <2>1, <2>2
<1>8. \A w \in Validations \ {v} : ~Fetching(w)
  BY DEF LockOK
<1> QED
  BY <1>3, <1>6, <1>7, <1>8 DEF Aside, Free

(* One that gives up leaves the others as they were.                        *)
LEMMA AsideRemoved ==
    ASSUME StateOK, LockOK, NEW v \in Validations, NEW n \in DOMAIN lock, lock[n] = v
    PROVE  Aside(v, RemoveAt(lock, n))
<1> DEFINE q == RemoveAt(lock, n)
<1>1. lock \in Seq(Validations) /\ DOMAIN lock = 1..Len(lock) /\ Len(lock) \in Nat
  BY DEF StateOK
<1>2. n \in Nat /\ 1 <= n /\ n <= Len(lock)
  BY <1>1
<1> DEFINE a == SubSeq(lock, 1, n - 1)
           b == SubSeq(lock, n + 1, Len(lock))
<1>3. a \in Seq(Validations) /\ Len(a) = n - 1 /\ \A i \in 1..(n - 1) : a[i] = lock[i]
  BY <1>1, <1>2
<1>4. b \in Seq(Validations) /\ Len(b) = Len(lock) - n /\ \A i \in 1..(Len(lock) - n) : b[i] = lock[n + i]
  <2>1. n + 1 \in 1..(Len(lock) + 1) /\ Len(lock) \in n..Len(lock) /\ Len(lock) - (n + 1) + 1 = Len(lock) - n
    BY <1>1, <1>2
  <2>2. /\ b \in Seq(Validations)
        /\ Len(b) = IF n + 1 <= Len(lock) THEN Len(lock) - (n + 1) + 1 ELSE 0
        /\ \A i \in 1..(Len(lock) - (n + 1) + 1) : b[i] = lock[n + 1 + i - 1]
    BY <2>1, <1>1, SubSeqProperties
  <2>3. \A i \in 1..(Len(lock) - n) : n + 1 + i - 1 = n + i
    BY <1>1, <1>2
  <2> QED
    BY <2>1, <2>2, <2>3, <1>1, <1>2
<1>5. q = a \o b
  BY DEF RemoveAt
<1>6. q \in Seq(Validations) /\ Len(q) = Len(lock) - 1 /\ DOMAIN q = 1..(Len(lock) - 1)
  <2> HIDE DEF a, b, q
  <2>1. q \in Seq(Validations) /\ Len(q) = Len(a) + Len(b)
    BY <1>3, <1>4, <1>5, ConcatProperties
  <2> QED
    BY <2>1, <1>3, <1>4, <1>2, <1>1
<1>7. \A i \in 1..(Len(lock) - 1) : q[i] = IF i < n THEN lock[i] ELSE lock[i + 1]
  <2> HIDE DEF a, b, q
  <2> SUFFICES ASSUME NEW i \in 1..(Len(lock) - 1)
               PROVE  q[i] = IF i < n THEN lock[i] ELSE lock[i + 1]
    OBVIOUS
  <2>1. CASE i < n
    <3>1. q[i] = a[i]
      BY <2>1, <1>1, <1>2, <1>3, <1>4, <1>5
    <3> QED
      BY <3>1, <2>1, <1>2, <1>3
  <2>2. CASE ~(i < n)
    <3>0. i \in 1..(Len(a) + Len(b)) /\ ~(i <= Len(a)) /\ Len(a) = n - 1
      BY <2>2, <1>1, <1>2, <1>3, <1>4
    <3>1. q[i] = b[i - (n - 1)]
      BY <3>0, <1>3, <1>4, <1>5, ConcatProperties
    <3>2. i - (n - 1) \in 1..(Len(lock) - n) /\ n + (i - (n - 1)) = i + 1
      BY <2>2, <1>1, <1>2
    <3> QED
      BY <3>1, <3>2, <2>2, <1>4
  <2> QED
    BY <2>1, <2>2
<1> HIDE DEF q
<1>8. \A i, j \in DOMAIN lock : lock[i] = lock[j] => i = j
  BY DEF LockOK
<1>9. \A i, j \in DOMAIN q : q[i] = q[j] => i = j
  <2> DEFINE At(i) == IF i < n THEN i ELSE i + 1
  <2>1. \A i \in DOMAIN q : At(i) \in DOMAIN lock /\ q[i] = lock[At(i)] /\ i \in Nat
    BY <1>1, <1>2, <1>6, <1>7
  <2> SUFFICES ASSUME NEW i \in DOMAIN q, NEW j \in DOMAIN q, q[i] = q[j]
               PROVE  i = j
    OBVIOUS
  <2>2. At(i) = At(j)
    <3> HIDE DEF At
    <3> QED
      BY <2>1, <1>8
  <2> QED
    BY <2>1, <2>2, <1>2
<1>10. ASSUME NEW w \in Validations
       PROVE  w # v /\ Waiting(w) <=> \E i \in DOMAIN q : q[i] = w
  <2>1. ASSUME w # v, Waiting(w)
        PROVE  \E i \in DOMAIN q : q[i] = w
    <3>1. PICK i \in DOMAIN lock : lock[i] = w
      BY <2>1 DEF LockOK
    <3>2. i # n /\ i \in Nat /\ 1 <= i /\ i <= Len(lock)
      BY <3>1, <2>1, <1>1
    <3>3. CASE i < n
      <4>1. i \in DOMAIN q /\ q[i] = w
        BY <3>1, <3>2, <3>3, <1>1, <1>2, <1>6, <1>7
      <4> QED
        BY <4>1
    <3>4. CASE ~(i < n)
      <4>1. i - 1 \in 1..(Len(lock) - 1) /\ ~(i - 1 < n) /\ (i - 1) + 1 = i
        BY <3>2, <3>4, <1>1, <1>2
      <4>2. q[i - 1] = lock[i]
        BY <4>1, <1>7
      <4> QED
        BY <4>1, <4>2, <3>1, <1>6
    <3> QED
      BY <3>3, <3>4
  <2>2. ASSUME NEW i \in DOMAIN q, q[i] = w
        PROVE  w # v /\ Waiting(w)
    <3>1. PICK j \in DOMAIN lock : j # n /\ lock[j] = w
      <4>1. i \in Nat /\ 1 <= i /\ i <= Len(lock) - 1
        BY <1>6, <1>1
      <4>2. CASE i < n
        BY <4>1, <4>2, <2>2, <1>1, <1>2, <1>6, <1>7
      <4>3. CASE ~(i < n)
        <5>1. i + 1 \in DOMAIN lock /\ i + 1 # n /\ lock[i + 1] = w
          BY <4>1, <4>3, <2>2, <1>1, <1>2, <1>6, <1>7
        <5> QED
          BY <5>1
      <4> QED
        BY <4>2, <4>3
    <3>2. w # v
      BY <3>1, <1>8
    <3>3. Waiting(w)
      BY <3>1 DEF LockOK
    <3> QED
      BY <3>2, <3>3
  <2> QED
    BY <2>1, <2>2
<1>11. ASSUME NEW w \in Validations \ {v}, Fetching(w)
       PROVE  q # <<>> /\ Head(q) = w
  <2>1. Waiting(w) /\ Head(lock) = w
    BY <1>11 DEF LockOK, Waiting, Fetching
  <2>2. lock[1] = w /\ 1 < n
    BY <2>1, <1>11, <1>1, <1>2
  <2>3. q # <<>> /\ q[1] = w
    BY <2>2, <1>1, <1>2, <1>6, <1>7
  <2> QED
    BY <2>3, <1>6
<1> QED
  BY <1>6, <1>9, <1>10, <1>11 DEF Aside, q

(* A step of v alone: it has left the lock, stands at its end, or holds it. *)
Relocks(v, x, q) ==
    \/ x.pc \in {"idle", "ready"} /\ lock' = q
    \/ x.pc = "lock" /\ lock' = Append(q, v)
    \/ x.pc \in {"fetch", "served"} /\ lock' = <<v>> \o q /\ Free(v)

LEMMA LockMoves ==
    ASSUME StateOK, LockOK, NEW v \in Validations, NEW q, Aside(v, q), NEW x \in ValidationStates,
           val' = [val EXCEPT ![v] = x], Relocks(v, x, q)
    PROVE  LockOK' /\ lock' \in Seq(Validations)
<1>1. q \in Seq(Validations) /\ Len(q) \in Nat /\ DOMAIN q = 1..Len(q)
  BY DEF Aside
<1>2. val'[v] = x /\ \A w \in Validations \ {v} : val'[w] = val[w]
  BY DEF StateOK
<1>3. \A w \in Validations \ {v} : (Waiting(w)' <=> Waiting(w)) /\ (Fetching(w)' <=> Fetching(w))
  BY <1>2 DEF Waiting, Fetching
<1>4. Waiting(v)' <=> x.pc \in {"lock", "fetch", "served"}
  BY <1>2 DEF Waiting
<1>5. Fetching(v)' <=> x.pc \in {"fetch", "served"}
  BY <1>2 DEF Fetching
<1>6. \A i \in 1..Len(q) : q[i] # v /\ q[i] \in Validations
  BY <1>1 DEF Aside
<1>7. \A i, j \in 1..Len(q) : q[i] = q[j] => i = j
  BY <1>1 DEF Aside
<1>8. \A w \in Validations \ {v} : Waiting(w) <=> \E i \in 1..Len(q) : q[i] = w
  BY <1>1 DEF Aside
<1>9. \A w \in Validations \ {v} : Fetching(w) => q # <<>> /\ q[1] = w
  BY <1>1 DEF Aside
<1>10. CASE x.pc \in {"idle", "ready"} /\ lock' = q
  <2>1. \A i, j \in DOMAIN lock' : lock'[i] = lock'[j] => i = j
    BY <1>10, <1>1, <1>7
  <2>2. \A w \in Validations : Waiting(w)' <=> \E i \in DOMAIN lock' : lock'[i] = w
    BY <1>10, <1>1, <1>3, <1>4, <1>6, <1>8
  <2>3. ASSUME NEW w \in Validations, Fetching(w)'
        PROVE  Head(lock') = w
    <3>1. w # v /\ Fetching(w)
      BY <2>3, <1>3, <1>5, <1>10
    <3>2. q # <<>> /\ q[1] = w
      BY <3>1, <1>9
    <3> QED
      BY <3>2, <1>10, <1>1
  <2> QED
    BY <1>10, <1>1, <2>1, <2>2, <2>3 DEF LockOK
<1>11. CASE x.pc = "lock" /\ lock' = Append(q, v)
  <2>1. /\ lock' \in Seq(Validations) /\ Len(lock') = Len(q) + 1 /\ DOMAIN lock' = 1..(Len(q) + 1)
        /\ \A i \in 1..Len(q) : lock'[i] = q[i]
        /\ lock'[Len(q) + 1] = v
    BY <1>11, <1>1
  <2>2. \A i, j \in DOMAIN lock' : lock'[i] = lock'[j] => i = j
    BY <2>1, <1>1, <1>6, <1>7
  <2>3. ASSUME NEW w \in Validations \ {v}
        PROVE  Waiting(w)' <=> \E i \in DOMAIN lock' : lock'[i] = w
    <3>1. ASSUME Waiting(w)
          PROVE  \E i \in DOMAIN lock' : lock'[i] = w
      <4>1. PICK i \in 1..Len(q) : q[i] = w
        BY <3>1, <1>8
      <4>2. i \in DOMAIN lock' /\ lock'[i] = w
        BY <4>1, <2>1, <1>1
      <4> QED
        BY <4>2
    <3>2. ASSUME NEW i \in DOMAIN lock', lock'[i] = w
          PROVE  Waiting(w)
      <4>1. i \in 1..Len(q)
        BY <3>2, <2>1, <1>1
      <4>2. q[i] = w
        BY <4>1, <3>2, <2>1
      <4> QED
        BY <4>1, <4>2, <1>8
    <3> QED
      BY <3>1, <3>2, <1>3
  <2>4. Waiting(v)' /\ Len(q) + 1 \in DOMAIN lock'
    BY <2>1, <1>1, <1>4, <1>11
  <2>5. ASSUME NEW w \in Validations, Fetching(w)'
        PROVE  Head(lock') = w
    <3>1. w # v /\ Fetching(w)
      BY <2>5, <1>3, <1>5, <1>11
    <3>2. q # <<>> /\ q[1] = w
      BY <3>1, <1>9
    <3>3. 1 \in 1..Len(q)
      BY <3>2, <1>1
    <3>4. lock'[1] = w /\ lock' # <<>>
      BY <3>2, <3>3, <2>1, <1>1
    <3> QED
      BY <3>4, <2>1
  <2>6. \A w \in Validations : Waiting(w)' <=> \E i \in DOMAIN lock' : lock'[i] = w
    BY <2>1, <2>3, <2>4
  <2> QED
    BY <2>1, <2>2, <2>5, <2>6 DEF LockOK
<1>12. CASE x.pc \in {"fetch", "served"} /\ lock' = <<v>> \o q /\ Free(v)
  <2>1. /\ lock' \in Seq(Validations) /\ Len(lock') = 1 + Len(q) /\ DOMAIN lock' = 1..(1 + Len(q))
        /\ lock'[1] = v
        /\ \A i \in 1..Len(q) : lock'[1 + i] = q[i]
    <3>1. <<v>> \in Seq(Validations) /\ Len(<<v>>) = 1 /\ <<v>>[1] = v
      OBVIOUS
    <3>2. /\ lock' \in Seq(Validations) /\ Len(lock') = 1 + Len(q)
          /\ \A i \in 1..(1 + Len(q)) : lock'[i] = IF i <= 1 THEN <<v>>[i] ELSE q[i - 1]
      BY <3>1, <1>1, <1>12, ConcatProperties
    <3>3. lock'[1] = v
      BY <3>1, <3>2, <1>1
    <3>4. ASSUME NEW i \in 1..Len(q)
          PROVE  lock'[1 + i] = q[i]
      <4>1. 1 + i \in 1..(1 + Len(q)) /\ ~(1 + i <= 1) /\ (1 + i) - 1 = i
        BY <1>1
      <4> QED
        BY <4>1, <3>2
    <3> QED
      BY <3>2, <3>3, <3>4, <1>1
  <2>2. ASSUME NEW i \in DOMAIN lock'
        PROVE  i = 1 \/ (i - 1 \in 1..Len(q) /\ lock'[i] = q[i - 1] /\ i \in Nat)
    <3>1. i = 1 \/ (i - 1 \in 1..Len(q) /\ 1 + (i - 1) = i /\ i \in Nat)
      BY <2>1, <1>1
    <3> QED
      BY <3>1, <2>1
  <2>3. \A i, j \in DOMAIN lock' : lock'[i] = lock'[j] => i = j
    <3> SUFFICES ASSUME NEW i \in DOMAIN lock', NEW j \in DOMAIN lock', lock'[i] = lock'[j]
                 PROVE  i = j
      OBVIOUS
    <3>1. CASE i = 1 \/ j = 1
      BY <3>1, <2>1, <2>2, <1>6
    <3>2. CASE i # 1 /\ j # 1
      <4>1. i - 1 = j - 1 /\ i \in Nat /\ j \in Nat
        BY <3>2, <2>2, <1>7
      <4> QED
        BY <4>1
    <3> QED
      BY <3>1, <3>2
  <2>4. ASSUME NEW w \in Validations \ {v}
        PROVE  Waiting(w)' <=> \E i \in DOMAIN lock' : lock'[i] = w
    <3>1. ASSUME Waiting(w)
          PROVE  \E i \in DOMAIN lock' : lock'[i] = w
      <4>1. PICK i \in 1..Len(q) : q[i] = w
        BY <3>1, <1>8
      <4>2. 1 + i \in DOMAIN lock' /\ lock'[1 + i] = w
        BY <4>1, <2>1, <1>1
      <4> QED
        BY <4>2
    <3>2. ASSUME NEW i \in DOMAIN lock', lock'[i] = w
          PROVE  Waiting(w)
      BY <3>2, <2>1, <2>2, <1>8
    <3> QED
      BY <3>1, <3>2, <1>3
  <2>5. Waiting(v)' /\ 1 \in DOMAIN lock'
    <3>1. 1 \in 1..(1 + Len(q))
      BY <1>1
    <3> QED
      BY <3>1, <2>1, <1>4, <1>12
  <2>6. ASSUME NEW w \in Validations, Fetching(w)'
        PROVE  Head(lock') = w
    <3>1. w = v
      BY <2>6, <1>3, <1>12 DEF Free
    <3>2. lock' # <<>>
      BY <2>1, <1>1
    <3> QED
      BY <3>1, <3>2, <2>1
  <2>7. \A w \in Validations : Waiting(w)' <=> \E i \in DOMAIN lock' : lock'[i] = w
    BY <2>1, <2>4, <2>5
  <2> QED
    BY <2>1, <2>3, <2>6, <2>7 DEF LockOK
<1> QED
  BY <1>10, <1>11, <1>12 DEF Relocks
-----------------------------------------------------------------------------
(*                     How a validation's step ends                        *)

Acceptable(k) == provider[k] # Unpublished /\ now <= LastSeen(provider[k]) + TTL + Timeout

Refusable(k) ==
    LET h == provider[k] IN
    \/ h.since = None \/ now <= h.since + Cooldown + Timeout
    \/ failedAt # None /\ now < failedAt + Cooldown

(* What v may conclude from a set that is fresh; from what it lacks, only   *)
(* when v holds the lock and the keys are cooling.                          *)
Trusty(v, set) ==
    Fresh(set) =>
        /\ set \in KeySets
        /\ \A k \in set.keys : Acceptable(k)
        /\ Free(v) /\ Cooling("keys") => \A k \in Kids \ set.keys : Refusable(k)

(* The same validation, wherever it has come to. *)
Alike(x, y) == y \in ValidationStates /\ y.kid = x.kid /\ y.limit = x.limit

Answers(v, x, q) ==
    \E result \in Results :
        /\ Finish(v, result) /\ lock' = q /\ UNCHANGED nextFetch
        /\ result = "accepted" => Acceptable(x.kid)
        /\ result = "refused" => Refusable(x.kid)

Queues(v, x, q) ==
    \E y \in ValidationStates :
        /\ Alike(x, y) /\ Queue(v, y, q)
        /\ y.want = "again" => y.expected = keySet'

Fetches(v, x, q) ==
    \E y \in ValidationStates, d \in Documents :
        /\ Alike(x, y) /\ (d = "keys" <=> y.want # "metadata")
        /\ nextFetch' = [nextFetch EXCEPT ![d] = now + Cooldown]
        /\ lock' = <<v>> \o q /\ Free(v) /\ Suspend(v, y, "fetch")

Outcome(v, x, q) == Answers(v, x, q) \/ Queues(v, x, q) \/ Fetches(v, x, q)

LEMMA OutcomeAlike ==
    ASSUME NEW v, NEW x, NEW y, NEW q, Alike(x, y), Outcome(v, y, q)
    PROVE  Outcome(v, x, q)
<1>1. y.kid = x.kid /\ y.limit = x.limit
  BY DEF Alike
<1>2. CASE Answers(v, y, q)
  BY <1>1, <1>2 DEF Answers, Outcome
<1>3. CASE Queues(v, y, q)
  <2>1. PICK z \in ValidationStates :
          Alike(y, z) /\ Queue(v, z, q) /\ (z.want = "again" => z.expected = keySet')
    BY <1>3 DEF Queues
  <2>2. Alike(x, z)
    BY <2>1, <1>1 DEF Alike
  <2> QED
    BY <2>1, <2>2 DEF Queues, Outcome
<1>4. CASE Fetches(v, y, q)
  <2>1. PICK z \in ValidationStates, d \in Documents :
          /\ Alike(y, z) /\ (d = "keys" <=> z.want # "metadata")
          /\ nextFetch' = [nextFetch EXCEPT ![d] = now + Cooldown]
          /\ lock' = <<v>> \o q /\ Free(v) /\ Suspend(v, z, "fetch")
    BY <1>4 DEF Fetches
  <2>2. Alike(x, z)
    BY <2>1, <1>1 DEF Alike
  <2> QED
    BY <2>1, <2>2 DEF Fetches, Outcome
<1> QED
  BY <1>2, <1>3, <1>4 DEF Outcome

LEMMA FetchOutcome ==
    ASSUME NEW v, NEW x \in ValidationStates, NEW q, NEW d \in Documents, d = "keys" <=> x.want # "metadata",
           Free(v), Fetch(v, x, q, d)
    PROVE  Outcome(v, x, q)
<1>1. CASE lock' = q /\ Finish(v, "unavailable") /\ UNCHANGED nextFetch
  BY <1>1 DEF Answers, Outcome, Results
<1>2. CASE /\ nextFetch' = [nextFetch EXCEPT ![d] = now + Cooldown]
           /\ lock' = <<v>> \o q /\ Suspend(v, x, "fetch")
  BY <1>2 DEF Fetches, Outcome, Alike
<1> QED
  BY <1>1, <1>2 DEF Fetch

LEMMA ConcludeOutcome ==
    ASSUME NEW v, NEW x \in ValidationStates, NEW set, NEW q, Conclude(v, x, set, q),
           x.kid \in set.keys => Acceptable(x.kid), x.kid \notin set.keys => Refusable(x.kid)
    PROVE  Outcome(v, x, q)
<1>1. lock' = q /\ UNCHANGED nextFetch
  BY DEF Conclude
<1>2. CASE x.kid \in set.keys
  <2>1. Finish(v, "accepted")
    BY <1>2 DEF Conclude
  <2> QED
    BY <1>1, <1>2, <2>1 DEF Answers, Outcome, Results
<1>3. CASE x.kid \notin set.keys
  <2>1. Finish(v, "refused")
    BY <1>3 DEF Conclude
  <2> QED
    BY <1>1, <1>3, <2>1 DEF Answers, Outcome, Results
<1> QED
  BY <1>2, <1>3

(* The second refresh.  A set other than the one that was looked at has to  *)
(* be worth a refusal by itself.                                            *)
LEMMA RefreshAgainOutcome ==
    ASSUME NEW v, NEW x \in ValidationStates, NEW q, NEW cached, RefreshAgain(v, x, q, cached),
           x.kid \in Kids, x.want = "again", Free(v), Trusty(v, cached),
           Fresh(cached) /\ cached # x.expected => \A k \in Kids \ cached.keys : Refusable(k)
    PROVE  Outcome(v, x, q)
<1>1. CASE Served(x, cached) /\ Conclude(v, x, cached, q)
  <2>1. Fresh(cached) /\ (cached # x.expected \/ Cooling("keys"))
    BY <1>1 DEF Served
  <2>2. x.kid \in cached.keys => Acceptable(x.kid)
    BY <2>1 DEF Trusty
  <2>3. x.kid \notin cached.keys => Refusable(x.kid)
    BY <2>1 DEF Trusty
  <2> QED
    BY <1>1, <2>2, <2>3, ConcludeOutcome
<1>2. CASE Fetch(v, x, q, "keys")
  BY <1>2, FetchOutcome DEF Documents
<1> QED
  BY <1>1, <1>2 DEF RefreshAgain

LEMMA LookUpOutcome ==
    ASSUME NEW v, NEW x \in ValidationStates, NEW q, NEW set, LookUp(v, x, set, q),
           x.kid \in Kids, Fresh(set), Trusty(v, set), keySet' = set, q = <<>> => Free(v)
    PROVE  Outcome(v, x, q)
<1> DEFINE again == [x EXCEPT !.want = "again", !.expected = set]
<1>1. set \in KeySets
  BY DEF Trusty
<1>2. again \in ValidationStates /\ again.kid = x.kid /\ again.limit = x.limit
      /\ again.want = "again" /\ again.expected = set
  BY <1>1 DEF ValidationStates, Wants
<1>3. Alike(x, again)
  BY <1>2 DEF Alike
<1>4. CASE x.kid \in set.keys /\ Conclude(v, x, set, q)
  <2>1. Acceptable(x.kid)
    BY <1>4 DEF Trusty
  <2> QED
    BY <1>4, <2>1, ConcludeOutcome
<1>5. CASE q = <<>> /\ RefreshAgain(v, again, q, set)
  <2>1. Outcome(v, again, q)
    <3> HIDE DEF again
    <3> QED
      BY <1>2, <1>5, RefreshAgainOutcome
  <2> QED
    BY <1>3, <2>1, OutcomeAlike
<1>6. CASE Queue(v, again, q)
  <2> HIDE DEF again
  <2> QED
    BY <1>2, <1>3, <1>6 DEF Queues, Outcome
<1> QED
  BY <1>4, <1>5, <1>6 DEF LookUp

LEMMA RefreshOutcome ==
    ASSUME NEW v, NEW x \in ValidationStates, NEW q, NEW cached, Refresh(v, x, q, cached),
           x.kid \in Kids, x.want = "keys", Trusty(v, cached), keySet' = cached, Free(v)
    PROVE  Outcome(v, x, q)
<1>1. CASE Served(x, cached) /\ LookUp(v, x, cached, q)
  <2>1. Fresh(cached)
    BY <1>1 DEF Served
  <2> QED
    BY <1>1, <2>1, LookUpOutcome
<1>2. CASE Fetch(v, x, q, "keys")
  BY <1>2, FetchOutcome DEF Documents
<1> QED
  BY <1>1, <1>2 DEF Refresh

LEMMA GetKeySetOutcome ==
    ASSUME NEW v, NEW x \in ValidationStates, NEW q, NEW cached, GetKeySet(v, x, q, cached),
           cached \in KeySets \cup {None}, x.kid \in Kids, Trusty(v, cached), keySet' = cached,
           q = <<>> => Free(v)
    PROVE  Outcome(v, x, q)
<1> DEFINE wanting == [x EXCEPT !.want = "keys", !.expected = cached]
<1>1. wanting \in ValidationStates /\ wanting.kid = x.kid /\ wanting.limit = x.limit /\ wanting.want = "keys"
  BY DEF ValidationStates, Wants
<1>2. Alike(x, wanting)
  BY <1>1 DEF Alike
<1>3. CASE Fresh(cached) /\ LookUp(v, x, cached, q)
  BY <1>3, LookUpOutcome
<1>4. CASE q = <<>> /\ Refresh(v, wanting, q, cached)
  <2>1. Outcome(v, wanting, q)
    <3> HIDE DEF wanting
    <3> QED
      BY <1>1, <1>4, RefreshOutcome
  <2> QED
    BY <1>2, <2>1, OutcomeAlike
<1>5. CASE Queue(v, wanting, q)
  <2> HIDE DEF wanting
  <2> QED
    BY <1>1, <1>2, <1>5 DEF Queues, Outcome
<1> QED
  BY <1>3, <1>4, <1>5 DEF GetKeySet

LEMMA GetMetadataOutcome ==
    ASSUME NEW v, NEW x \in ValidationStates, NEW q, GetMetadata(v, x, q), keySet \in KeySets \cup {None},
           x.kid \in Kids, x.want = "metadata", Trusty(v, keySet), keySet' = keySet, Free(v)
    PROVE  Outcome(v, x, q)
<1>1. CASE GetKeySet(v, x, q, keySet)
  BY <1>1, GetKeySetOutcome
<1>2. CASE Fetch(v, x, q, "metadata")
  BY <1>2, FetchOutcome DEF Documents
<1> QED
  BY <1>1, <1>2 DEF GetMetadata
-----------------------------------------------------------------------------
(*                  What a validation finds when it runs                   *)

LEMMA Periods == /\ TTL \in Nat /\ Cooldown \in Nat /\ Timeout \in Nat /\ MaxTime \in Nat
                 /\ 0 < TTL /\ 0 < Timeout /\ Timeout < Cooldown /\ None \notin Nat
BY KeysAssumption

LEMMA HistoryFacts ==
    ASSUME StateOK, NEW k \in Kids
    PROVE  /\ provider[k] \in Histories
           /\ provider[k] # Unpublished => LastSeen(provider[k]) \in Nat
           /\ provider[k].since # None => provider[k] # Unpublished /\ LastSeen(provider[k]) = now
           /\ now \in Nat
<1>1. provider[k] \in Histories /\ now \in Nat
  BY Periods DEF StateOK
<1>2. provider[k] = [since |-> provider[k].since, until |-> provider[k].until]
  BY <1>1 DEF Histories
<1>3. ASSUME provider[k] # Unpublished, provider[k].since = None
      PROVE  provider[k].until \in Nat
  BY <1>1, <1>2, <1>3 DEF Histories, Unpublished
<1> QED
  BY <1>1, <1>3 DEF LastSeen, Unpublished

(* What the invariant makes of the cached set.                              *)
LEMMA CacheTrusty ==
    ASSUME KeysInv, NEW v \in Validations, ~FetchingKeys(v)
    PROVE  Trusty(v, keySet)
<1> SUFFICES ASSUME Fresh(keySet)
             PROVE  /\ keySet \in KeySets
                    /\ \A k \in keySet.keys : Acceptable(k)
                    /\ Free(v) /\ Cooling("keys") => \A k \in Kids \ keySet.keys : Refusable(k)
  BY DEF Trusty
<1>1. keySet # None /\ keySet \in KeySets /\ now \in Nat
  BY Periods DEF KeysInv, StateOK, Fresh
<1>2. keySet.keys \subseteq Kids /\ keySet.expiresAt \in Nat /\ now < keySet.expiresAt
  BY <1>1, Periods DEF KeySets, Times, Fresh
<1>3. ASSUME NEW k \in keySet.keys
      PROVE  Acceptable(k)
  <2>1. provider[k] # Unpublished /\ keySet.expiresAt <= LastSeen(provider[k]) + Timeout + TTL
    BY <1>1, <1>2 DEF KeysInv, ReadOK
  <2>2. LastSeen(provider[k]) \in Nat
    BY <2>1, <1>2, HistoryFacts DEF KeysInv
  <2> QED
    BY <2>1, <2>2, <1>1, <1>2, Periods DEF Acceptable
<1>4. ASSUME Free(v), Cooling("keys"), NEW k \in Kids \ keySet.keys
      PROVE  Refusable(k)
  <2>1. \A w \in Validations : ~FetchingKeys(w)
    BY <1>4 DEF Free, FetchingKeys
  <2>2. Missed(k)
    BY <2>1, <1>1 DEF KeysInv, CooldownOK
  <2>3. now < nextFetch["keys"] /\ nextFetch["keys"] \in Nat
    BY <1>4, Periods DEF Cooling, KeysInv, StateOK, Documents, Times
  <2>4. /\ provider[k].since \in Nat \cup {None}
        /\ failedAt \in Nat \cup {None}
    BY HistoryFacts DEF KeysInv, StateOK, Histories
  <2> QED
    BY <2>2, <2>3, <2>4, <1>1, Periods DEF Missed, Refusable
<1> QED
  BY <1>1, <1>3, <1>4

(* A set other than the one that was looked at is worth a refusal.          *)
LEMMA OtherSetTrusty ==
    ASSUME KeysInv, NEW v \in Validations, val[v].pc = "lock", val[v].want = "again",
           Fresh(keySet), keySet # val[v].expected, NEW k \in Kids \ keySet.keys
    PROVE  Refusable(k)
<1>1. keySet # None /\ keySet \in KeySets /\ now \in Nat
  BY Periods DEF KeysInv, StateOK, Fresh
<1>2. keySet.expiresAt \in Nat
  BY <1>1, Periods DEF KeySets, Times
<1>3. val[v].limit \in Nat /\ now <= val[v].limit
  BY DEF KeysInv, StateOK, ClockOK, ValidationStates
<1>4. val[v].limit + TTL <= keySet.expiresAt + Timeout
  BY <1>1 DEF KeysInv, AgainOK
<1>5. provider[k].since # None => keySet.expiresAt <= provider[k].since + Timeout + TTL
  BY <1>1 DEF KeysInv, ReadOK
<1>6. provider[k].since \in Nat \cup {None}
  BY HistoryFacts DEF KeysInv, Histories
<1>7. provider[k].since # None => now <= provider[k].since + Cooldown + Timeout
  BY <1>1, <1>2, <1>3, <1>4, <1>5, <1>6, Periods
<1> QED
  BY <1>7 DEF Refusable

(* So is the set that has just arrived, for as long as it may be used.      *)
LEMMA ReplyTrusty ==
    ASSUME KeysInv, NEW v \in Validations, val[v].pc = "served", val[v].want # "metadata"
    PROVE  LET new == [keys |-> val[v].reply, expiresAt |-> now + TTL] IN
           /\ new \in KeySets /\ Fresh(new) /\ Trusty(v, new)
           /\ \A k \in Kids \ new.keys : Refusable(k)
<1> DEFINE new == [keys |-> val[v].reply, expiresAt |-> now + TTL]
<1>1. val[v].reply \subseteq Kids /\ val[v].limit \in Nat /\ now \in 0..MaxTime
  BY DEF KeysInv, StateOK, ValidationStates
<1>2. now <= val[v].limit
  BY DEF KeysInv, ClockOK
<1>3. new \in KeySets /\ new.keys = val[v].reply /\ new.expiresAt = now + TTL
  BY <1>1, Periods DEF KeySets, Times
<1>4. Fresh(new)
  <2>1. new # None
    BY NoneAssumption, <1>3
  <2> QED
    BY <2>1, <1>1, <1>3, Periods DEF Fresh
<1>5. ReadBy(val[v].reply, val[v].limit)
  BY DEF KeysInv, ReadOK, FetchingKeys, Fetching
<1>6. ASSUME NEW k \in new.keys
      PROVE  Acceptable(k)
  <2>1. k \in Kids /\ provider[k] # Unpublished /\ val[v].limit <= LastSeen(provider[k]) + Timeout
    BY <1>1, <1>3, <1>5 DEF ReadBy
  <2>2. LastSeen(provider[k]) \in Nat
    BY <2>1, HistoryFacts DEF KeysInv
  <2> QED
    BY <2>1, <2>2, <1>1, <1>2, Periods DEF Acceptable
<1>7. ASSUME NEW k \in Kids \ new.keys
      PROVE  Refusable(k)
  <2>1. provider[k].since # None => val[v].limit <= provider[k].since + Timeout
    BY <1>3, <1>5 DEF ReadBy
  <2>2. provider[k].since \in Nat \cup {None}
    BY HistoryFacts DEF KeysInv, Histories
  <2> QED
    BY <2>1, <2>2, <1>1, <1>2, Periods DEF Refusable
<1> QED
  BY <1>3, <1>4, <1>6, <1>7 DEF Trusty

(* A validation runs to its next await: the lock without it, what it has    *)
(* come to be, and how its step ends.                                       *)
Moves(v) ==
    \E x \in ValidationStates, q \in Seq(Validations) :
        /\ Aside(v, q) /\ Outcome(v, x, q)
        /\ x.kid = val[v].kid /\ x.limit = val[v].limit

LEMMA BeginMoves ==
    ASSUME KeysInv, NEW v \in Validations, Begin(v)
    PROVE  Moves(v) /\ val[v].pc = "ready" /\ UNCHANGED <<caches, world, failures>>
<1> DEFINE x == val[v]
<1>1. x.pc = "ready" /\ UNCHANGED <<caches, world, failures>>
  BY DEF Begin
<1>2. x \in ValidationStates /\ keySet \in KeySets \cup {None} /\ lock \in Seq(Validations) /\ keySet' = keySet
  BY <1>1 DEF KeysInv, StateOK, caches
<1>3. x.kid \in Kids /\ x.want = "metadata"
  BY <1>1 DEF KeysInv, ClockOK
<1>4. ~Waiting(v) /\ ~FetchingKeys(v)
  BY <1>1 DEF Waiting, FetchingKeys, Fetching
<1>5. Aside(v, lock) /\ Trusty(v, keySet)
  BY <1>4, AsideOutside, CacheTrusty DEF KeysInv
<1>6. lock = <<>> => Free(v)
  BY <1>5, AsideEmpty
<1>7. Outcome(v, x, lock)
  <2>1. CASE GetKeySet(v, x, lock, keySet)
    <3> HIDE DEF x
    <3> QED
      BY <2>1, <1>2, <1>3, <1>5, <1>6, GetKeySetOutcome
  <2>2. CASE lock = <<>> /\ GetMetadata(v, x, lock)
    <3> HIDE DEF x
    <3> QED
      BY <2>2, <1>2, <1>3, <1>5, <1>6, GetMetadataOutcome
  <2>3. CASE Queue(v, x, lock)
    <3>1. Alike(x, x)
      BY <1>2 DEF Alike
    <3> QED
      BY <2>3, <3>1, <1>2, <1>3 DEF Queues, Outcome
  <2> QED
    BY <2>1, <2>2, <2>3 DEF Begin
<1> QED
  BY <1>1, <1>2, <1>5, <1>7 DEF Moves

LEMMA EnterMoves ==
    ASSUME KeysInv, NEW v \in Validations, Enter(v)
    PROVE  Moves(v) /\ val[v].pc = "lock" /\ UNCHANGED <<caches, world, failures>>
<1> DEFINE x == val[v]
           q == Tail(lock)
<1>1. x.pc = "lock" /\ Head(lock) = v /\ UNCHANGED <<caches, world, failures>>
  BY DEF Enter
<1>2. x \in ValidationStates /\ keySet \in KeySets \cup {None} /\ keySet' = keySet
  BY <1>1 DEF KeysInv, StateOK, caches
<1>3. x.kid \in Kids /\ x.want \in Wants
  BY <1>1, <1>2 DEF KeysInv, ClockOK, ValidationStates
<1>4. Waiting(v) /\ ~FetchingKeys(v)
  BY <1>1 DEF Waiting, FetchingKeys, Fetching
<1>5. Aside(v, q) /\ Free(v) /\ Trusty(v, keySet)
  BY <1>1, <1>4, AsideHolder, CacheTrusty DEF KeysInv
<1>6. Outcome(v, x, q)
  <2>1. CASE x.want = "metadata"
    <3>1. GetMetadata(v, x, q)
      BY <2>1 DEF Enter
    <3> HIDE DEF x, q
    <3> QED
      BY <2>1, <3>1, <1>2, <1>3, <1>5, GetMetadataOutcome
  <2>2. CASE x.want = "keys"
    <3>1. Refresh(v, x, q, keySet)
      BY <2>2 DEF Enter
    <3> HIDE DEF x, q
    <3> QED
      BY <2>2, <3>1, <1>2, <1>3, <1>5, RefreshOutcome
  <2>3. CASE x.want = "again"
    <3>1. RefreshAgain(v, x, q, keySet)
      BY <2>3 DEF Enter
    <3>2. Fresh(keySet) /\ keySet # x.expected => \A k \in Kids \ keySet.keys : Refusable(k)
      BY <1>1, <2>3, OtherSetTrusty
    <3> HIDE DEF x, q
    <3> QED
      BY <2>3, <3>1, <3>2, <1>2, <1>3, <1>5, RefreshAgainOutcome
  <2> QED
    BY <2>1, <2>2, <2>3, <1>3 DEF Wants
<1>7. q \in Seq(Validations)
  BY <1>5 DEF Aside
<1> QED
  BY <1>1, <1>2, <1>5, <1>6, <1>7 DEF Moves

(* The metadata are there: the keys are asked for. *)
LEMMA MetadataMoves ==
    ASSUME KeysInv, NEW v \in Validations, val[v].pc = "served", MetadataArrived(v)
    PROVE  Moves(v)
<1> DEFINE x == val[v]
           q == Tail(lock)
<1>1. x \in ValidationStates /\ x.kid \in Kids
  BY DEF KeysInv, StateOK, ClockOK
<1>2. Fetching(v) /\ Waiting(v)
  BY DEF Waiting, Fetching
<1>3. Head(lock) = v
  BY <1>2 DEF KeysInv, LockOK
<1>4. Aside(v, q) /\ Free(v)
  BY <1>2, <1>3, AsideHolder DEF KeysInv
<1>5. Trusty(v, None)
  BY DEF Trusty, Fresh
<1>6. Outcome(v, x, q)
  <2>1. GetKeySet(v, x, q, None) /\ keySet' = None
    BY DEF MetadataArrived
  <2> HIDE DEF x, q
  <2> QED
    BY <2>1, <1>1, <1>4, <1>5, GetKeySetOutcome
<1>7. q \in Seq(Validations)
  BY <1>4 DEF Aside
<1> QED
  BY <1>1, <1>4, <1>6, <1>7 DEF Moves

(* The keys are there: the token's is among them, or it is not.             *)
LEMMA KeysMoves ==
    ASSUME KeysInv, NEW v \in Validations, val[v].pc = "served", KeysArrived(v)
    PROVE  Moves(v) /\ val[v].want # "metadata"
<1> DEFINE x == [val[v] EXCEPT !.reply = {}]
           new == [keys |-> val[v].reply, expiresAt |-> now + TTL]
           q == Tail(lock)
<1>1. val[v] \in ValidationStates /\ val[v].kid \in Kids
  BY DEF KeysInv, StateOK, ClockOK
<1>2. x \in ValidationStates /\ x.kid = val[v].kid /\ x.limit = val[v].limit /\ x.want = val[v].want
  BY <1>1 DEF ValidationStates
<1>3. Fetching(v) /\ Waiting(v)
  BY DEF Waiting, Fetching
<1>4. Head(lock) = v
  BY <1>3 DEF KeysInv, LockOK
<1>5. Aside(v, q) /\ Free(v)
  BY <1>3, <1>4, AsideHolder DEF KeysInv
<1>6. /\ keySet' = new
      /\ (x.want = "keys" /\ LookUp(v, x, new, q)) \/ (x.want = "again" /\ Conclude(v, x, new, q))
  BY DEF KeysArrived
<1>7. val[v].want # "metadata"
  BY <1>2, <1>6
<1>8. new \in KeySets /\ Fresh(new) /\ Trusty(v, new) /\ \A k \in Kids \ new.keys : Refusable(k)
  BY <1>7, ReplyTrusty
<1>9. Outcome(v, x, q)
  <2> HIDE DEF x, new, q
  <2>1. CASE LookUp(v, x, new, q)
    BY <2>1, <1>1, <1>2, <1>5, <1>6, <1>8, LookUpOutcome
  <2>2. CASE Conclude(v, x, new, q)
    <3>1. x.kid \in new.keys => Acceptable(x.kid)
      BY <1>8 DEF Trusty
    <3>2. x.kid \notin new.keys => Refusable(x.kid)
      BY <1>1, <1>2, <1>8
    <3> QED
      BY <2>2, <3>1, <3>2, <1>2, ConcludeOutcome
  <2> QED
    BY <2>1, <2>2, <1>6
<1>10. q \in Seq(Validations)
  BY <1>5 DEF Aside
<1> QED
  <2> HIDE DEF x, q
  <2> QED
    BY <1>2, <1>5, <1>7, <1>9, <1>10 DEF Moves
-----------------------------------------------------------------------------
(*                A step of one validation keeps the invariant             *)

(* v becomes y, and leaves q to the others.                                 *)
Lands(v, y, q) ==
    /\ y \in ValidationStates /\ val' = [val EXCEPT ![v] = y]
    /\ Relocks(v, y, q)
    /\ verdict' \in Results \cup {None}
    /\ y.pc # "idle" => y.kid \in Kids /\ now <= y.limit /\ y.limit <= now + Timeout
    /\ y.pc = "ready" => y.want = "metadata"
    /\ y.pc = "lock" /\ y.want = "again" => y.expected = keySet'
    /\ y.pc = "served" /\ y.want # "metadata" =>
          ReadBy(y.reply, y.limit) /\ (\A k \in Kids \ y.reply : Missed(k)) /\ failedAt' = failedAt
    /\ \/ nextFetch' = nextFetch
       \/ y.pc = "fetch" /\ \E d \in Documents :
             (d = "keys" => y.want # "metadata") /\ nextFetch' = [nextFetch EXCEPT ![d] = now + Cooldown]

(* What becomes of the caches meanwhile.                                    *)
KeepsCache(v, y) ==
    /\ keySet' = keySet
    /\ FetchingKeys(v) => failedAt' = now \/ (y.pc = "served" /\ y.want # "metadata")
DropsKeys == keySet' = None
TakesReply(v) ==
    /\ val[v].pc = "served" /\ val[v].want # "metadata"
    /\ keySet' = [keys |-> val[v].reply, expiresAt |-> now + TTL]

Caches(v, y) == KeepsCache(v, y) \/ DropsKeys \/ TakesReply(v)

World == /\ provider' = provider /\ now' = now /\ failedAt' \in {failedAt, now}
         /\ metadata' \in Metadata \cup {None} /\ fetched' \in KeySets \cup {None}

LEMMA MoveLands ==
    ASSUME KeysInv, NEW v \in Validations, val[v].pc # "idle", Moves(v)
    PROVE  \E y \in ValidationStates, q \in Seq(Validations) :
              Aside(v, q) /\ Lands(v, y, q) /\ y.pc \notin {"ready", "served"}
<1>1. PICK x \in ValidationStates, q \in Seq(Validations) :
        Aside(v, q) /\ Outcome(v, x, q) /\ x.kid = val[v].kid /\ x.limit = val[v].limit
  BY DEF Moves
<1>2. x.kid \in Kids /\ now <= x.limit /\ x.limit <= now + Timeout
  BY <1>1 DEF KeysInv, ClockOK
<1>3. CASE Answers(v, x, q)
  <2>1. PICK result \in Results : Finish(v, result) /\ lock' = q /\ UNCHANGED nextFetch
    BY <1>3 DEF Answers
  <2>2. NoValidation \in ValidationStates /\ NoValidation.pc = "idle"
    BY DEF NoValidation, ValidationStates, Wants
  <2>3. Relocks(v, NoValidation, q)
    BY <2>1, <2>2 DEF Relocks
  <2>4. Lands(v, NoValidation, q)
    BY <2>1, <2>2, <2>3 DEF Lands, Finish
  <2> QED
    BY <1>1, <2>2, <2>4
<1>4. CASE Queues(v, x, q)
  <2>1. PICK y \in ValidationStates :
          Alike(x, y) /\ Queue(v, y, q) /\ (y.want = "again" => y.expected = keySet')
    BY <1>4 DEF Queues
  <2> DEFINE z == [y EXCEPT !.pc = "lock"]
  <2>2. /\ z \in ValidationStates /\ z.pc = "lock" /\ z.want = y.want /\ z.expected = y.expected
        /\ z.kid = x.kid /\ z.limit = x.limit
    BY <2>1 DEF ValidationStates, Alike
  <2>3. val' = [val EXCEPT ![v] = z] /\ verdict' = None /\ lock' = Append(q, v) /\ nextFetch' = nextFetch
    BY <2>1 DEF Queue, Suspend
  <2> HIDE DEF z
  <2>4. Relocks(v, z, q)
    BY <2>2, <2>3 DEF Relocks
  <2>5. Lands(v, z, q)
    BY <2>1, <2>2, <2>3, <2>4, <1>2 DEF Lands
  <2> QED
    BY <1>1, <2>2, <2>5
<1>5. CASE Fetches(v, x, q)
  <2>1. PICK y \in ValidationStates, d \in Documents :
          /\ Alike(x, y) /\ (d = "keys" <=> y.want # "metadata")
          /\ nextFetch' = [nextFetch EXCEPT ![d] = now + Cooldown]
          /\ lock' = <<v>> \o q /\ Free(v) /\ Suspend(v, y, "fetch")
    BY <1>5 DEF Fetches
  <2> DEFINE z == [y EXCEPT !.pc = "fetch"]
  <2>2. z \in ValidationStates /\ z.pc = "fetch" /\ z.want = y.want /\ z.kid = x.kid /\ z.limit = x.limit
    BY <2>1 DEF ValidationStates, Alike
  <2>3. val' = [val EXCEPT ![v] = z] /\ verdict' = None
    BY <2>1 DEF Suspend
  <2> HIDE DEF z
  <2>4. Relocks(v, z, q)
    BY <2>1, <2>2 DEF Relocks
  <2>5. Lands(v, z, q)
    BY <2>1, <2>2, <2>3, <2>4, <1>2 DEF Lands
  <2> QED
    BY <1>1, <2>2, <2>5
<1> QED
  BY <1>1, <1>3, <1>4, <1>5 DEF Outcome

(* Who lands keeps the state of its type, and the lock and the clock in     *)
(* order.                                                                   *)
LEMMA LandsFacts ==
    ASSUME KeysInv, NEW v \in Validations, NEW y, NEW q, Aside(v, q), Lands(v, y, q)
    PROVE  /\ y \in ValidationStates /\ val' \in [Validations -> ValidationStates]
           /\ val'[v] = y /\ \A w \in Validations \ {v} : val'[w] = val[w]
           /\ LockOK' /\ lock' \in Seq(Validations)
           /\ nextFetch' \in [Documents -> Times] /\ \A d \in Documents : nextFetch'[d] <= now + Cooldown
           /\ nextFetch'["keys"] = nextFetch["keys"] \/ (y.pc = "fetch" /\ y.want # "metadata" /\ Free(v))
<1>1. y \in ValidationStates /\ val' = [val EXCEPT ![v] = y] /\ Relocks(v, y, q)
  BY DEF Lands
<1>2. val \in [Validations -> ValidationStates] /\ nextFetch \in [Documents -> Times] /\ now \in 0..MaxTime
  BY DEF KeysInv, StateOK
<1>3. val' \in [Validations -> ValidationStates] /\ val'[v] = y /\ \A w \in Validations \ {v} : val'[w] = val[w]
  BY <1>1, <1>2
<1>4. LockOK' /\ lock' \in Seq(Validations)
  BY <1>1, LockMoves DEF KeysInv
<1>5. now + Cooldown \in Times /\ \A d \in Documents : nextFetch[d] <= now + Cooldown
  BY <1>2, Periods DEF Times, KeysInv, ClockOK
<1>6. CASE nextFetch' = nextFetch
  BY <1>1, <1>2, <1>3, <1>4, <1>5, <1>6
<1>7. CASE y.pc = "fetch" /\ \E d \in Documents :
             (d = "keys" => y.want # "metadata") /\ nextFetch' = [nextFetch EXCEPT ![d] = now + Cooldown]
  <2>1. PICK d \in Documents :
          (d = "keys" => y.want # "metadata") /\ nextFetch' = [nextFetch EXCEPT ![d] = now + Cooldown]
    BY <1>7
  <2>2. nextFetch' \in [Documents -> Times]
    BY <2>1, <1>2, <1>5
  <2>3. \A e \in Documents : nextFetch'[e] = IF e = d THEN now + Cooldown ELSE nextFetch[e]
    BY <2>1, <1>2
  <2>4. \A e \in Documents : nextFetch'[e] <= now + Cooldown
    BY <2>3, <1>2, <1>5, Periods
  <2>5. Free(v)
    BY <1>1, <1>7 DEF Relocks
  <2>6. "keys" \in Documents
    BY DEF Documents
  <2> QED
    BY <1>1, <1>3, <1>4, <1>7, <2>1, <2>2, <2>3, <2>4, <2>5, <2>6
<1> QED
  BY <1>6, <1>7 DEF Lands

(* A key that was missed is still missed, unless the keys are being fetched *)
(* again.                                                                   *)
LEMMA MissedStays ==
    ASSUME KeysInv, provider' = provider, failedAt' \in {failedAt, now}, nextFetch'["keys"] = nextFetch["keys"],
           NEW k \in Kids, Missed(k)
    PROVE  Missed(k)'
<1>1. nextFetch["keys"] \in Nat /\ nextFetch["keys"] <= now + Cooldown /\ now \in Nat
  BY Periods DEF KeysInv, StateOK, ClockOK, Documents, Times
<1>2. CASE failedAt' = now
  BY <1>1, <1>2, Periods DEF Missed
<1>3. CASE failedAt' = failedAt
  BY <1>3 DEF Missed
<1> QED
  BY <1>2, <1>3

LEMMA MissedByFailure ==
    ASSUME KeysInv, failedAt' = now, nextFetch'["keys"] = nextFetch["keys"], NEW k \in Kids
    PROVE  Missed(k)'
<1>1. nextFetch["keys"] \in Nat /\ nextFetch["keys"] <= now + Cooldown /\ now \in Nat
  BY Periods DEF KeysInv, StateOK, ClockOK, Documents, Times
<1> QED
  BY <1>1, Periods DEF Missed

LEMMA LandsInv ==
    ASSUME KeysInv, NEW v \in Validations, NEW y, NEW q, Aside(v, q), Lands(v, y, q), Caches(v, y), World
    PROVE  KeysInv'
<1>1. /\ y \in ValidationStates /\ val' \in [Validations -> ValidationStates]
      /\ val'[v] = y /\ \A w \in Validations \ {v} : val'[w] = val[w]
      /\ LockOK' /\ lock' \in Seq(Validations)
      /\ nextFetch' \in [Documents -> Times] /\ \A d \in Documents : nextFetch'[d] <= now + Cooldown
      /\ nextFetch'["keys"] = nextFetch["keys"] \/ (y.pc = "fetch" /\ y.want # "metadata" /\ Free(v))
  BY LandsFacts
<1>2. /\ provider' = provider /\ now' = now /\ failedAt' \in {failedAt, now}
      /\ metadata' \in Metadata \cup {None} /\ fetched' \in KeySets \cup {None}
  BY DEF World
<1>3. now \in 0..MaxTime /\ now \in Nat /\ failedAt \in Nat \cup {None} /\ keySet \in KeySets \cup {None}
  BY Periods DEF KeysInv, StateOK
<1>4. \A w \in Validations \ {v} : FetchingKeys(w)' <=> FetchingKeys(w)
  BY <1>1 DEF FetchingKeys, Fetching
<1>5. FetchingKeys(v)' <=> y.pc \in {"fetch", "served"} /\ y.want # "metadata"
  BY <1>1 DEF FetchingKeys, Fetching
<1>6. ASSUME TakesReply(v)
      PROVE  /\ keySet' \in KeySets /\ keySet' # None
             /\ keySet'.keys = val[v].reply /\ keySet'.expiresAt = now + TTL
             /\ val[v].reply \subseteq Kids /\ FetchingKeys(v) /\ val[v].pc = "served"
             /\ val[v].limit \in Nat /\ now <= val[v].limit
  <2>1. val[v].reply \subseteq Kids /\ val[v].limit \in Nat
    BY DEF KeysInv, StateOK, ValidationStates
  <2>2. keySet' \in KeySets /\ keySet'.keys = val[v].reply /\ keySet'.expiresAt = now + TTL
    BY <1>6, <2>1, <1>3, Periods DEF TakesReply, KeySets, Times
  <2>3. now <= val[v].limit
    BY <1>6 DEF KeysInv, ClockOK, TakesReply
  <2> QED
    BY <1>6, <2>1, <2>2, <2>3, NoneAssumption DEF TakesReply, FetchingKeys, Fetching
<1>7. keySet' \in KeySets \cup {None}
  BY <1>3, <1>6 DEF Caches, KeepsCache, DropsKeys
<1>8. StateOK'
  <2>1. verdict' \in Results \cup {None}
    BY DEF Lands
  <2>2. provider' \in [Kids -> Histories]
    BY <1>2 DEF KeysInv, StateOK
  <2> QED
    BY <2>1, <2>2, <1>1, <1>2, <1>3, <1>7 DEF StateOK
<1>9. ClockOK'
  <2>1. ASSUME NEW w \in Validations
        PROVE  /\ val'[w].pc # "idle" => val'[w].kid \in Kids /\ now <= val'[w].limit /\ val'[w].limit <= now + Timeout
               /\ val'[w].pc = "ready" => val'[w].want = "metadata"
    <3>1. CASE w = v
      BY <3>1, <1>1 DEF Lands
    <3>2. CASE w # v
      BY <3>2, <1>1 DEF KeysInv, ClockOK
    <3> QED
      BY <3>1, <3>2
  <2>2. keySet' # None => keySet'.expiresAt <= now + TTL
    <3>1. CASE keySet' = keySet
      BY <3>1 DEF KeysInv, ClockOK
    <3>2. CASE TakesReply(v)
      BY <3>2, <1>3, <1>6, Periods
    <3> QED
      BY <3>1, <3>2 DEF Caches, KeepsCache, DropsKeys
  <2>3. \A k \in Kids : provider[k].until # None => provider[k].until <= now
    BY DEF KeysInv, ClockOK
  <2> QED
    BY <2>1, <2>2, <2>3, <1>1, <1>2 DEF ClockOK
<1>10. ReadOK'
  <2>1. ASSUME keySet' # None, NEW k \in Kids
        PROVE  /\ k \in keySet'.keys =>
                     provider[k] # Unpublished /\ keySet'.expiresAt <= LastSeen(provider[k]) + Timeout + TTL
               /\ k \notin keySet'.keys /\ provider[k].since # None =>
                     keySet'.expiresAt <= provider[k].since + Timeout + TTL
    <3>1. CASE keySet' = keySet
      BY <2>1, <3>1 DEF KeysInv, ReadOK
    <3>2. CASE TakesReply(v)
      <4>1. ReadBy(val[v].reply, val[v].limit)
        BY <3>2, <1>6 DEF KeysInv, ReadOK
      <4>2. provider[k] \in Histories /\ (provider[k] # Unpublished => LastSeen(provider[k]) \in Nat)
        BY HistoryFacts DEF KeysInv
      <4>3. ASSUME k \in keySet'.keys
            PROVE  provider[k] # Unpublished /\ keySet'.expiresAt <= LastSeen(provider[k]) + Timeout + TTL
        BY <3>2, <4>1, <4>2, <4>3, <1>3, <1>6, Periods DEF ReadBy
      <4>4. ASSUME k \notin keySet'.keys, provider[k].since # None
            PROVE  keySet'.expiresAt <= provider[k].since + Timeout + TTL
        <5>1. provider[k].since \in Nat /\ val[v].limit <= provider[k].since + Timeout
          BY <3>2, <4>1, <4>2, <4>4, <1>6 DEF ReadBy, Histories
        <5> QED
          BY <3>2, <5>1, <1>3, <1>6, Periods
      <4> QED
        BY <4>3, <4>4
    <3> QED
      BY <2>1, <3>1, <3>2 DEF Caches, KeepsCache, DropsKeys
  <2>2. ASSUME NEW w \in Validations, FetchingKeys(w)', val'[w].pc = "served"
        PROVE  ReadBy(val'[w].reply, val'[w].limit)
    <3>1. CASE w = v
      BY <2>2, <3>1, <1>1, <1>5 DEF Lands
    <3>2. CASE w # v
      BY <2>2, <3>2, <1>1, <1>4 DEF KeysInv, ReadOK
    <3> QED
      BY <3>1, <3>2
  <2> QED
    BY <2>1, <2>2, <1>2 DEF ReadOK, ReadBy, LastSeen
<1>11. AgainOK'
  <2> SUFFICES ASSUME NEW w \in Validations, val'[w].pc = "lock", val'[w].want = "again",
                      keySet' # None, keySet' # val'[w].expected
               PROVE  val'[w].limit + TTL <= keySet'.expiresAt + Timeout
    BY DEF AgainOK
  <2>1. w # v
    BY <1>1 DEF Lands
  <2>2. val'[w] = val[w]
    BY <1>1, <2>1
  <2>3. CASE keySet' = keySet
    BY <2>2, <2>3 DEF KeysInv, AgainOK
  <2>4. CASE TakesReply(v)
    <3>1. val[w].limit \in Nat /\ val[w].limit <= now + Timeout
      BY <2>2 DEF KeysInv, StateOK, ClockOK, ValidationStates
    <3> QED
      BY <2>2, <2>4, <3>1, <1>3, <1>6, Periods
  <2> QED
    BY <2>3, <2>4 DEF Caches, KeepsCache, DropsKeys
<1>12. CooldownOK'
  <2>1. ASSUME NEW w \in Validations, FetchingKeys(w)', val'[w].pc = "served", NEW k \in Kids \ val'[w].reply
        PROVE  Missed(k)'
    <3>1. CASE w = v
      <4>1. y.pc = "served" /\ y.want # "metadata" /\ k \notin y.reply
        BY <2>1, <3>1, <1>1, <1>5
      <4>2. Missed(k) /\ nextFetch'["keys"] = nextFetch["keys"]
        BY <4>1, <1>1 DEF Lands
      <4> QED
        BY <4>2, <1>2, MissedStays
    <3>2. CASE w # v
      <4>1. FetchingKeys(w) /\ val[w].pc = "served" /\ k \notin val[w].reply
        BY <2>1, <3>2, <1>1, <1>4
      <4>2. Missed(k)
        BY <4>1 DEF KeysInv, CooldownOK
      <4>3. ~Free(v)
        BY <3>2, <4>1 DEF Free, FetchingKeys
      <4>4. nextFetch'["keys"] = nextFetch["keys"]
        BY <4>3, <1>1
      <4> QED
        BY <4>2, <4>4, <1>2, MissedStays
    <3> QED
      BY <3>1, <3>2
  <2>2. ASSUME keySet' # None, \A w \in Validations : ~FetchingKeys(w)', NEW k \in Kids \ keySet'.keys
        PROVE  Missed(k)'
    <3>1. nextFetch'["keys"] = nextFetch["keys"]
      BY <2>2, <1>1, <1>5
    <3>2. \A w \in Validations \ {v} : ~FetchingKeys(w)
      BY <2>2, <1>4
    <3>3. CASE KeepsCache(v, y) /\ ~FetchingKeys(v)
      <4>1. \A w \in Validations : ~FetchingKeys(w)
        BY <3>2, <3>3
      <4>2. keySet' = keySet
        BY <3>3 DEF KeepsCache
      <4>3. Missed(k)
        BY <2>2, <4>1, <4>2 DEF KeysInv, CooldownOK
      <4> QED
        BY <4>3, <3>1, <1>2, MissedStays
    <3>4. CASE KeepsCache(v, y) /\ FetchingKeys(v)
      <4>1. failedAt' = now
        BY <2>2, <3>4, <1>5 DEF KeepsCache
      <4> QED
        BY <4>1, <3>1, MissedByFailure
    <3>5. CASE TakesReply(v)
      <4>1. k \in Kids \ val[v].reply
        BY <2>2, <3>5, <1>6
      <4>2. Missed(k)
        BY <4>1, <3>5, <1>6 DEF KeysInv, CooldownOK
      <4> QED
        BY <4>2, <3>1, <1>2, MissedStays
    <3> QED
      BY <2>2, <3>3, <3>4, <3>5 DEF Caches, DropsKeys
  <2> QED
    BY <2>1, <2>2 DEF CooldownOK
<1> QED
  BY <1>1, <1>8, <1>9, <1>10, <1>11, <1>12 DEF KeysInv
-----------------------------------------------------------------------------
(*                              The actions                                *)

LEMMA InitInv == ASSUME Init PROVE KeysInv
<1>1. 0 \in 0..MaxTime /\ 0 \in Times
  BY Periods DEF Times
<1>2. NoValidation \in ValidationStates /\ NoValidation.pc = "idle"
  BY DEF NoValidation, ValidationStates, Wants
<1>3. /\ metadata = None /\ keySet = None /\ fetched = None
      /\ nextFetch = [d \in Documents |-> 0] /\ lock = <<>>
      /\ val = [v \in Validations |-> NoValidation]
      /\ provider \in [Kids -> {Unpublished, [since |-> 0, until |-> None]}]
      /\ now = 0 /\ failedAt = None /\ verdict = None
  BY DEF Init
<1>4. \A v \in Validations : val[v].pc = "idle"
  BY <1>2, <1>3
<1>5. \A k \in Kids : provider[k] \in Histories /\ provider[k].until = None
  BY <1>3 DEF Histories, Unpublished
<1>6. StateOK
  BY <1>1, <1>2, <1>3, <1>5 DEF StateOK
<1>7. LockOK
  BY <1>3, <1>4 DEF LockOK, Waiting, Fetching
<1>8. ClockOK
  BY <1>1, <1>3, <1>4, <1>5, Periods DEF ClockOK
<1>9. ReadOK /\ AgainOK /\ CooldownOK
  BY <1>3, <1>4 DEF ReadOK, AgainOK, CooldownOK, FetchingKeys, Fetching
<1> QED
  BY <1>6, <1>7, <1>8, <1>9 DEF KeysInv

LEMMA ValidateInv ==
    ASSUME KeysInv, NEW v \in Validations, NEW kid \in Kids, Validate(v, kid)
    PROVE  KeysInv'
<1> DEFINE x == [NoValidation EXCEPT !.kid = kid, !.limit = now + Timeout]
           y == [x EXCEPT !.pc = "ready"]
<1>1. now \in Nat
  BY Periods DEF KeysInv, StateOK
<1>2. y \in ValidationStates /\ y.pc = "ready" /\ y.want = "metadata" /\ y.kid = kid /\ y.limit = now + Timeout
  <2>1. NoValidation \in ValidationStates /\ NoValidation.want = "metadata"
    BY DEF NoValidation, ValidationStates, Wants
  <2>2. now + Timeout \in Nat
    BY <1>1, Periods
  <2> QED
    BY <2>1, <2>2 DEF ValidationStates
<1>3. /\ val' = [val EXCEPT ![v] = y] /\ verdict' = None
      /\ UNCHANGED <<caches, nextFetch, lock, world, failures>> /\ val[v].pc = "idle"
  BY DEF Validate, Suspend
<1> HIDE DEF y
<1>4. ~Waiting(v) /\ ~FetchingKeys(v)
  BY <1>3 DEF Waiting, FetchingKeys, Fetching
<1>5. Aside(v, lock)
  BY <1>4, AsideOutside DEF KeysInv
<1>6. Lands(v, y, lock)
  BY <1>1, <1>2, <1>3, Periods DEF Lands, Relocks
<1>7. Caches(v, y) /\ World
  BY <1>3, <1>4 DEF Caches, KeepsCache, World, caches, world, failures, KeysInv, StateOK
<1> QED
  BY <1>5, <1>6, <1>7, LandsInv

LEMMA BeginInv ==
    ASSUME KeysInv, NEW v \in Validations, Begin(v)
    PROVE  KeysInv'
<1>1. Moves(v) /\ val[v].pc = "ready" /\ UNCHANGED <<caches, world, failures>>
  BY BeginMoves
<1>2. PICK y \in ValidationStates, q \in Seq(Validations) : Aside(v, q) /\ Lands(v, y, q)
  BY <1>1, MoveLands
<1>3. ~FetchingKeys(v)
  BY <1>1 DEF FetchingKeys, Fetching
<1>4. Caches(v, y) /\ World
  BY <1>1, <1>3 DEF Caches, KeepsCache, World, caches, world, failures, KeysInv, StateOK
<1> QED
  BY <1>2, <1>4, LandsInv

LEMMA EnterInv ==
    ASSUME KeysInv, NEW v \in Validations, Enter(v)
    PROVE  KeysInv'
<1>1. Moves(v) /\ val[v].pc = "lock" /\ UNCHANGED <<caches, world, failures>>
  BY EnterMoves
<1>2. PICK y \in ValidationStates, q \in Seq(Validations) : Aside(v, q) /\ Lands(v, y, q)
  BY <1>1, MoveLands
<1>3. ~FetchingKeys(v)
  BY <1>1 DEF FetchingKeys, Fetching
<1>4. Caches(v, y) /\ World
  BY <1>1, <1>3 DEF Caches, KeepsCache, World, caches, world, failures, KeysInv, StateOK
<1> QED
  BY <1>2, <1>4, LandsInv

(* The holder has the lock for itself, with the others behind it.           *)
LEMMA HolderFacts ==
    ASSUME KeysInv, NEW v \in Validations, Fetching(v)
    PROVE  Head(lock) = v /\ lock = <<v>> \o Tail(lock) /\ Aside(v, Tail(lock)) /\ Free(v)
<1>1. Waiting(v) /\ Head(lock) = v
  BY DEF Waiting, Fetching, KeysInv, LockOK
<1>2. Aside(v, Tail(lock)) /\ Free(v)
  BY <1>1, AsideHolder DEF KeysInv
<1>3. lock # <<>> /\ lock \in Seq(Validations)
  BY <1>1 DEF KeysInv, LockOK, StateOK
<1>4. lock = <<v>> \o Tail(lock)
  <2>1. lock = <<Head(lock)>> \o Tail(lock)
    BY <1>3
  <2> QED
    BY <2>1, <1>1
<1> QED
  BY <1>1, <1>2, <1>4

(* The keys are read as they are at that instant.                           *)
LEMMA ServeInv ==
    ASSUME KeysInv, NEW v \in Validations, Serve(v)
    PROVE  KeysInv'
<1> DEFINE reply == IF val[v].want = "metadata" THEN {} ELSE {k \in Kids : Published(k)}
           y == [[val[v] EXCEPT !.reply = reply] EXCEPT !.pc = "served"]
<1>1. /\ val[v].pc = "fetch" /\ val' = [val EXCEPT ![v] = y] /\ verdict' = None
      /\ UNCHANGED <<caches, nextFetch, lock, world, failures>>
  BY DEF Serve, Suspend
<1>2. val[v] \in ValidationStates /\ now \in Nat
  BY Periods DEF KeysInv, StateOK
<1>3. /\ y \in ValidationStates /\ y.pc = "served" /\ y.want = val[v].want /\ y.kid = val[v].kid
      /\ y.limit = val[v].limit /\ y.reply = reply /\ y.limit \in Nat
  BY <1>2 DEF ValidationStates
<1>4. y.kid \in Kids /\ now <= y.limit /\ y.limit <= now + Timeout
  BY <1>1, <1>3 DEF KeysInv, ClockOK
<1>5. Fetching(v)
  BY <1>1 DEF Fetching
<1>6. lock = <<v>> \o Tail(lock) /\ Aside(v, Tail(lock)) /\ Free(v)
  BY <1>5, HolderFacts
<1>7. ASSUME y.want # "metadata"
      PROVE  ReadBy(y.reply, y.limit) /\ \A k \in Kids \ y.reply : Missed(k)
  <2>1. y.reply = {k \in Kids : Published(k)}
    BY <1>3, <1>7
  <2>2. ASSUME NEW k \in Kids
        PROVE  k \in y.reply <=> provider[k].since # None
    BY <2>1 DEF Published
  <2>3. ASSUME NEW k \in Kids, provider[k].since # None
        PROVE  provider[k] # Unpublished /\ y.limit <= LastSeen(provider[k]) + Timeout
    BY <2>3, <1>4, HistoryFacts DEF KeysInv
  <2> HIDE DEF y
  <2>4. ReadBy(y.reply, y.limit)
    BY <2>2, <2>3 DEF ReadBy
  <2>5. \A k \in Kids \ y.reply : Missed(k)
    BY <2>2 DEF Missed
  <2> QED
    BY <2>4, <2>5
<1> HIDE DEF y
<1>8. Lands(v, y, Tail(lock))
  BY <1>1, <1>3, <1>4, <1>6, <1>7 DEF Lands, Relocks, failures
<1>9. Caches(v, y) /\ World
  BY <1>1, <1>3 DEF Caches, KeepsCache, World, caches, world, failures, KeysInv, StateOK, FetchingKeys
<1> QED
  BY <1>6, <1>8, <1>9, LandsInv

LEMMA FetchedInv ==
    ASSUME KeysInv, NEW v \in Validations, Fetched(v)
    PROVE  KeysInv' /\ Moves(v)
<1>1. val[v].pc = "served" /\ UNCHANGED <<world, failures>>
  BY DEF Fetched
<1>2. fetched \in KeySets \cup {None} /\ metadata \in Metadata \cup {None} /\ now \in 0..MaxTime
      /\ val[v].reply \subseteq Kids
  BY DEF KeysInv, StateOK, ValidationStates
<1>3. now + TTL \in Times
  BY <1>2, Periods DEF Times
<1>4. CASE MetadataArrived(v)
  <2>1. Moves(v)
    BY <1>1, <1>4, MetadataMoves
  <2>2. PICK y \in ValidationStates, q \in Seq(Validations) : Aside(v, q) /\ Lands(v, y, q)
    BY <1>1, <2>1, MoveLands
  <2>3. metadata' \in Metadata /\ keySet' = None /\ fetched' = fetched
    BY <1>3, <1>4 DEF MetadataArrived, Metadata
  <2>4. Caches(v, y) /\ World
    BY <1>1, <1>2, <2>3 DEF Caches, DropsKeys, World, world, failures
  <2> QED
    BY <2>1, <2>2, <2>4, LandsInv
<1>5. CASE KeysArrived(v)
  <2>1. Moves(v) /\ val[v].want # "metadata"
    BY <1>1, <1>5, KeysMoves
  <2>2. PICK y \in ValidationStates, q \in Seq(Validations) : Aside(v, q) /\ Lands(v, y, q)
    BY <1>1, <2>1, MoveLands
  <2>3. metadata' = metadata /\ keySet' = [keys |-> val[v].reply, expiresAt |-> now + TTL] /\ fetched' = keySet'
    BY <1>5 DEF KeysArrived
  <2>4. fetched' \in KeySets
    BY <2>3, <1>2, <1>3 DEF KeySets
  <2>5. Caches(v, y) /\ World
    BY <1>1, <1>2, <2>1, <2>3, <2>4 DEF Caches, TakesReply, World, world, failures
  <2> QED
    BY <2>1, <2>2, <2>5, LandsInv
<1> QED
  BY <1>4, <1>5 DEF Fetched

(* A validation that comes to nothing, and leaves q to the others.          *)
LEMMA GoneInv ==
    ASSUME KeysInv, NEW v \in Validations, NEW q, Aside(v, q), lock' = q, Finish(v, "unavailable"),
           failedAt' = now \/ (failedAt' = failedAt /\ ~FetchingKeys(v)),
           UNCHANGED <<caches, nextFetch, world>>
    PROVE  KeysInv'
<1> DEFINE y == NoValidation
<1>1. y \in ValidationStates /\ y.pc = "idle"
  BY DEF NoValidation, ValidationStates, Wants
<1>2. Lands(v, y, q)
  BY <1>1 DEF Lands, Relocks, Finish, Results
<1>3. Caches(v, y)
  BY DEF Caches, KeepsCache, caches
<1>4. World
  BY DEF World, caches, world, KeysInv, StateOK
<1> QED
  BY <1>2, <1>3, <1>4, LandsInv

LEMMA FetchFailsInv ==
    ASSUME KeysInv, NEW v \in Validations, FetchFails(v)
    PROVE  KeysInv'
<1>1. Fetching(v)
  BY DEF FetchFails, Fetching
<1>2. Aside(v, Tail(lock))
  BY <1>1, HolderFacts
<1> QED
  BY <1>2, GoneInv DEF FetchFails

LEMMA TimeOutInv ==
    ASSUME KeysInv, NEW v \in Validations, TimeOut(v)
    PROVE  KeysInv'
<1>1. PICK i \in DOMAIN lock : lock[i] = v /\ lock' = RemoveAt(lock, i)
  BY DEF TimeOut
<1>2. Aside(v, RemoveAt(lock, i))
  BY <1>1, AsideRemoved DEF KeysInv
<1>3. failedAt' = now \/ (failedAt' = failedAt /\ ~FetchingKeys(v))
  BY DEF TimeOut, FetchingKeys, Fetching
<1> QED
  BY <1>1, <1>2, <1>3, GoneInv DEF TimeOut

(* A key that is published or withdrawn was last seen now: no bound on the  *)
(* age of what was read before gets any worse.                              *)
LEMMA RotateInv ==
    ASSUME KeysInv, NEW r \in Kids, Rotate(r)
    PROVE  KeysInv'
<1> DEFINE h == IF Published(r) THEN [since |-> None, until |-> now] ELSE [since |-> now, until |-> None]
<1>1. /\ provider' = [provider EXCEPT ![r] = h] /\ verdict' = None
      /\ UNCHANGED <<caches, nextFetch, lock, val, now, failures>>
  BY DEF Rotate
<1>2. now \in Nat /\ now \in 0..MaxTime /\ provider \in [Kids -> Histories]
  BY Periods DEF KeysInv, StateOK
<1>3. /\ h \in Histories /\ h # Unpublished /\ (h.since # None => h.since = now)
      /\ (h.until # None => h.until = now) /\ (h.since = None => h.until = now)
  BY <1>2, Periods DEF Histories, Unpublished
<1>4. provider' \in [Kids -> Histories] /\ provider'[r] = h /\ \A k \in Kids \ {r} : provider'[k] = provider[k]
  BY <1>1, <1>2, <1>3
<1> HIDE DEF h
<1>5. /\ metadata' = metadata /\ keySet' = keySet /\ fetched' = fetched /\ nextFetch' = nextFetch
      /\ lock' = lock /\ val' = val /\ now' = now /\ failedAt' = failedAt
  BY <1>1 DEF caches, failures
<1>6. StateOK'
  BY <1>1, <1>4, <1>5 DEF KeysInv, StateOK
<1>7. LockOK' /\ AgainOK'
  BY <1>5 DEF KeysInv, LockOK, AgainOK, Waiting, Fetching
<1>8. ClockOK'
  <2>1. \A k \in Kids : provider'[k].until # None => provider'[k].until <= now
    BY <1>2, <1>3, <1>4 DEF KeysInv, ClockOK
  <2> QED
    BY <2>1, <1>5 DEF KeysInv, ClockOK
<1>9. ASSUME NEW k \in Kids, NEW t \in Nat, t <= now + Timeout + TTL,
             provider[k] # Unpublished, t <= LastSeen(provider[k]) + Timeout + TTL
      PROVE  provider'[k] # Unpublished /\ t <= LastSeen(provider'[k]) + Timeout + TTL
  BY <1>2, <1>3, <1>4, <1>9, Periods DEF LastSeen
<1>10. ASSUME NEW k \in Kids, NEW t \in Nat, t <= now + Timeout,
              provider[k] # Unpublished, t <= LastSeen(provider[k]) + Timeout
       PROVE  provider'[k] # Unpublished /\ t <= LastSeen(provider'[k]) + Timeout
  BY <1>2, <1>3, <1>4, <1>10, Periods DEF LastSeen
<1>11. \A k \in Kids : LastSeen(provider[k])' = LastSeen(provider'[k])
  BY <1>5 DEF LastSeen
<1>12. keySet # None => keySet.expiresAt \in Nat /\ keySet.expiresAt <= now + TTL
  <2>1. keySet # None => keySet \in KeySets
    BY DEF KeysInv, StateOK
  <2> QED
    BY <2>1, Periods DEF KeySets, Times, KeysInv, ClockOK
<1>13. ReadOK'
  <2>1. ASSUME keySet # None, NEW k \in Kids
        PROVE  /\ k \in keySet.keys =>
                     provider'[k] # Unpublished /\ keySet.expiresAt <= LastSeen(provider'[k]) + Timeout + TTL
               /\ k \notin keySet.keys /\ provider'[k].since # None =>
                     keySet.expiresAt <= provider'[k].since + Timeout + TTL
    <3>1. keySet.expiresAt <= now + Timeout + TTL
      BY <2>1, <1>2, <1>12, Periods
    <3>2. k \in keySet.keys =>
             provider[k] # Unpublished /\ keySet.expiresAt <= LastSeen(provider[k]) + Timeout + TTL
      BY <2>1 DEF KeysInv, ReadOK
    <3>3. k \notin keySet.keys /\ provider[k].since # None =>
             keySet.expiresAt <= provider[k].since + Timeout + TTL
      BY <2>1 DEF KeysInv, ReadOK
    <3>4. k \notin keySet.keys /\ provider'[k].since # None =>
             keySet.expiresAt <= provider'[k].since + Timeout + TTL
      BY <3>1, <3>3, <1>3, <1>4
    <3>5. k \in keySet.keys =>
             provider'[k] # Unpublished /\ keySet.expiresAt <= LastSeen(provider'[k]) + Timeout + TTL
      BY <2>1, <3>1, <3>2, <1>9, <1>12
    <3> QED
      BY <3>4, <3>5
  <2>2. ASSUME NEW v \in Validations, FetchingKeys(v), val[v].pc = "served"
        PROVE  ReadBy(val[v].reply, val[v].limit)'
    <3>1. val[v].limit \in Nat /\ val[v].limit <= now + Timeout
      BY <2>2 DEF KeysInv, StateOK, ClockOK, ValidationStates
    <3>2. ReadBy(val[v].reply, val[v].limit)
      BY <2>2 DEF KeysInv, ReadOK
    <3>3. ASSUME NEW k \in Kids
          PROVE  /\ k \in val[v].reply =>
                       provider'[k] # Unpublished /\ val[v].limit <= LastSeen(provider'[k]) + Timeout
                 /\ k \notin val[v].reply /\ provider'[k].since # None =>
                       val[v].limit <= provider'[k].since + Timeout
      <4>1. k \notin val[v].reply /\ provider'[k].since # None => val[v].limit <= provider'[k].since + Timeout
        BY <3>1, <3>2, <1>3, <1>4 DEF ReadBy
      <4>2. k \in val[v].reply =>
               provider'[k] # Unpublished /\ val[v].limit <= LastSeen(provider'[k]) + Timeout
        BY <3>1, <3>2, <1>10 DEF ReadBy
      <4> QED
        BY <4>1, <4>2
    <3> QED
      BY <3>3, <1>5, <1>11 DEF ReadBy
  <2> QED
    BY <2>1, <2>2, <1>5, <1>11 DEF ReadOK, FetchingKeys, Fetching
<1>14. ASSUME NEW k \in Kids, Missed(k)
       PROVE  Missed(k)'
  <2>1. nextFetch["keys"] <= now + Cooldown
    BY DEF KeysInv, ClockOK, Documents
  <2>2. CASE k = r
    BY <2>1, <2>2, <1>3, <1>4, <1>5 DEF Missed
  <2>3. CASE k # r
    BY <2>3, <1>4, <1>5, <1>14 DEF Missed
  <2> QED
    BY <2>2, <2>3
<1>15. CooldownOK'
  BY <1>5, <1>14 DEF KeysInv, CooldownOK, FetchingKeys, Fetching
<1> QED
  BY <1>6, <1>7, <1>8, <1>13, <1>15 DEF KeysInv

LEMMA TickInv ==
    ASSUME KeysInv, Tick
    PROVE  KeysInv'
<1>1. /\ now < MaxTime /\ now' = now + 1 /\ verdict' = None
      /\ \A v \in Validations : val[v].pc = "idle" \/ (val[v].pc # "ready" /\ now < val[v].limit)
  BY DEF Tick
<1>2. /\ metadata' = metadata /\ keySet' = keySet /\ fetched' = fetched /\ nextFetch' = nextFetch
      /\ lock' = lock /\ val' = val /\ provider' = provider /\ failedAt' = failedAt
  BY DEF Tick, caches, failures
<1>3. now \in Nat /\ now' \in 0..MaxTime
  BY <1>1, Periods DEF KeysInv, StateOK
<1>4. StateOK'
  BY <1>1, <1>2, <1>3 DEF KeysInv, StateOK
<1>5. LockOK' /\ AgainOK'
  BY <1>2 DEF KeysInv, LockOK, AgainOK, Waiting, Fetching
<1>6. CooldownOK'
  BY <1>2 DEF KeysInv, CooldownOK, FetchingKeys, Fetching, Missed
<1>7. ClockOK'
  <2>1. ASSUME NEW v \in Validations, val[v].pc # "idle"
        PROVE  val[v].kid \in Kids /\ now + 1 <= val[v].limit /\ val[v].limit <= now + 1 + Timeout
    <3>1. now < val[v].limit /\ val[v].limit \in Nat
      BY <2>1, <1>1 DEF KeysInv, StateOK, ValidationStates
    <3>2. val[v].kid \in Kids /\ val[v].limit <= now + Timeout
      BY <2>1 DEF KeysInv, ClockOK
    <3> QED
      BY <3>1, <3>2, <1>3, Periods
  <2>2. ASSUME NEW d \in Documents
        PROVE  nextFetch[d] <= now + 1 + Cooldown
    <3>1. nextFetch[d] \in Nat /\ nextFetch[d] <= now + Cooldown
      BY Periods DEF KeysInv, StateOK, ClockOK, Times
    <3> QED
      BY <3>1, <1>3, Periods
  <2>3. ASSUME keySet # None
        PROVE  keySet.expiresAt <= now + 1 + TTL
    <3>1. keySet.expiresAt \in Nat /\ keySet.expiresAt <= now + TTL
      BY <2>3, Periods DEF KeysInv, StateOK, ClockOK, KeySets, Times
    <3> QED
      BY <3>1, <1>3, Periods
  <2>4. ASSUME NEW k \in Kids, provider[k].until # None
        PROVE  provider[k].until <= now + 1
    <3>1. provider[k].until \in Nat /\ provider[k].until <= now
      BY <2>4 DEF KeysInv, StateOK, ClockOK, Histories
    <3> QED
      BY <3>1, <1>3
  <2>5. \A v \in Validations : val[v].pc = "ready" => val[v].want = "metadata"
    BY DEF KeysInv, ClockOK
  <2> QED
    BY <2>1, <2>2, <2>3, <2>4, <2>5, <1>1, <1>2 DEF ClockOK
<1>8. ASSUME NEW k \in Kids, provider[k] # Unpublished
      PROVE  /\ LastSeen(provider[k]) \in Nat /\ LastSeen(provider[k])' \in Nat
             /\ LastSeen(provider[k]) <= LastSeen(provider[k])'
  <2>1. LastSeen(provider[k]) \in Nat
    BY <1>8, HistoryFacts DEF KeysInv
  <2> QED
    BY <2>1, <1>1, <1>2, <1>3 DEF LastSeen
<1>9. ReadOK'
  <2>1. ASSUME keySet # None, NEW k \in Kids
        PROVE  /\ k \in keySet.keys =>
                     provider[k] # Unpublished /\ keySet.expiresAt <= LastSeen(provider[k])' + Timeout + TTL
               /\ k \notin keySet.keys /\ provider[k].since # None =>
                     keySet.expiresAt <= provider[k].since + Timeout + TTL
    <3>1. keySet.expiresAt \in Nat
      BY <2>1, Periods DEF KeysInv, StateOK, KeySets, Times
    <3>2. k \in keySet.keys =>
             provider[k] # Unpublished /\ keySet.expiresAt <= LastSeen(provider[k]) + Timeout + TTL
      BY <2>1 DEF KeysInv, ReadOK
    <3>3. k \notin keySet.keys /\ provider[k].since # None =>
             keySet.expiresAt <= provider[k].since + Timeout + TTL
      BY <2>1 DEF KeysInv, ReadOK
    <3> QED
      BY <3>1, <3>2, <3>3, <1>8, Periods
  <2>2. ASSUME NEW v \in Validations, FetchingKeys(v), val[v].pc = "served", NEW k \in Kids
        PROVE  /\ k \in val[v].reply =>
                     provider[k] # Unpublished /\ val[v].limit <= LastSeen(provider[k])' + Timeout
               /\ k \notin val[v].reply /\ provider[k].since # None =>
                     val[v].limit <= provider[k].since + Timeout
    <3>1. val[v].limit \in Nat
      BY DEF KeysInv, StateOK, ValidationStates
    <3>2. ReadBy(val[v].reply, val[v].limit)
      BY <2>2 DEF KeysInv, ReadOK
    <3> QED
      BY <3>1, <3>2, <1>8, Periods DEF ReadBy
  <2> QED
    BY <2>1, <2>2, <1>2 DEF ReadOK, ReadBy, FetchingKeys, Fetching
<1> QED
  BY <1>4, <1>5, <1>6, <1>7, <1>9 DEF KeysInv

LEMMA NextInv == ASSUME KeysInv, [Next]_vars PROVE KeysInv'
<1>1. CASE \E v \in Validations, k \in Kids : Validate(v, k)
  BY <1>1, ValidateInv
<1>2. ASSUME NEW v \in Validations, Begin(v) \/ Enter(v) \/ Serve(v) \/ Fetched(v) \/ FetchFails(v) \/ TimeOut(v)
      PROVE  KeysInv'
  <2>1. CASE Begin(v)
    BY <2>1, BeginInv
  <2>2. CASE Enter(v)
    BY <2>2, EnterInv
  <2>3. CASE Serve(v)
    BY <2>3, ServeInv
  <2>4. CASE Fetched(v)
    BY <2>4, FetchedInv
  <2>5. CASE FetchFails(v)
    BY <2>5, FetchFailsInv
  <2>6. CASE TimeOut(v)
    BY <2>6, TimeOutInv
  <2> QED
    BY <1>2, <2>1, <2>2, <2>3, <2>4, <2>5, <2>6
<1>3. CASE \E k \in Kids : Rotate(k)
  BY <1>3, RotateInv
<1>4. CASE Tick
  BY <1>4, TickInv
<1>5. CASE UNCHANGED vars
  BY <1>5 DEF vars, caches, world, failures, KeysInv, StateOK, LockOK, ClockOK, ReadOK, AgainOK, CooldownOK,
              Waiting, FetchingKeys, Fetching, ReadBy, LastSeen, Missed
<1> QED
  BY <1>1, <1>2, <1>3, <1>4, <1>5 DEF Next

(* KeysInv holds in every state that the program reaches.                   *)
THEOREM KeysInvariant == Spec => []KeysInv
<1>1. Init => KeysInv
  BY InitInv
<1>2. KeysInv /\ [Next]_vars => KeysInv'
  BY NextInv
<1> QED
  BY <1>1, <1>2, PTL DEF Spec

(* A validation has as many places in the lock as it has to.                *)
LEMMA PlacesInLock ==
    ASSUME KeysInv, NEW v \in Validations
    PROVE  Cardinality({i \in DOMAIN lock : lock[i] = v})
              = IF val[v].pc \in {"lock", "fetch", "served"} THEN 1 ELSE 0
<1> DEFINE P == {i \in DOMAIN lock : lock[i] = v}
<1>1. CASE Waiting(v)
  <2>1. PICK i \in DOMAIN lock : lock[i] = v
    BY <1>1 DEF KeysInv, LockOK
  <2>2. \A j \in DOMAIN lock : lock[j] = v => j = i
    BY <2>1 DEF KeysInv, LockOK
  <2>3. P = {i}
    BY <2>1, <2>2
  <2>4. Cardinality(P) = 1
    BY <2>3, FS_Singleton
  <2> QED
    BY <2>4, <1>1 DEF Waiting
<1>2. CASE ~Waiting(v)
  <2>1. P = {}
    BY <1>2 DEF KeysInv, LockOK
  <2>2. Cardinality(P) = 0
    BY <2>1, FS_EmptySet
  <2> QED
    BY <2>2, <1>2 DEF Waiting
<1> QED
  BY <1>1, <1>2

(* The caches, the lock and the validations are of their type: the lock is  *)
(* queued for by running validations only, each of them once, and the one   *)
(* that fetches is the one that holds it.                                   *)
THEOREM KeysTypeCorrect == Spec => []TypeOK
<1>1. KeysInv => TypeOK
  <2> SUFFICES ASSUME KeysInv
               PROVE  TypeOK
    OBVIOUS
  <2>1. /\ metadata \in Metadata \cup {None} /\ {keySet, fetched} \subseteq KeySets \cup {None}
        /\ nextFetch \in [Documents -> Times] /\ verdict \in Results \cup {None}
    BY DEF KeysInv, StateOK
  <2>2. ASSUME NEW v \in Validations
        PROVE  /\ val[v].pc \in {"idle", "ready", "lock", "fetch", "served"} /\ val[v].want \in Wants
               /\ val[v].kid \in Kids \cup {None} /\ val[v].reply \subseteq Kids
    BY DEF KeysInv, StateOK, ValidationStates
  <2>3. \A v \in Validations : val[v].pc \in {"fetch", "served"} => Head(lock) = v
    BY DEF KeysInv, LockOK, Fetching
  <2> QED
    BY <2>1, <2>2, <2>3, PlacesInLock DEF TypeOK
<1> QED
  BY <1>1, KeysInvariant, PTL

(* What a step that ends a validation has gone by.                          *)
LEMMA MovesVerdict ==
    ASSUME KeysInv, NEW w \in Validations, Moves(w)
    PROVE  /\ \A v \in Validations \ {w} : val'[v] = val[v]
           /\ verdict' = "accepted" => Acceptable(val[w].kid)
           /\ verdict' = "refused" => Refusable(val[w].kid)
<1>1. PICK x \in ValidationStates, q \in Seq(Validations) : Outcome(w, x, q) /\ x.kid = val[w].kid
  BY DEF Moves
<1>2. val \in [Validations -> ValidationStates]
  BY DEF KeysInv, StateOK
<1>3. None # "accepted" /\ None # "refused"
  BY NoneAssumption DEF Results
<1>4. CASE Answers(w, x, q)
  <2>1. PICK result \in Results :
          Finish(w, result) /\ (result = "accepted" => Acceptable(x.kid)) /\ (result = "refused" => Refusable(x.kid))
    BY <1>4 DEF Answers
  <2> QED
    BY <2>1, <1>1, <1>2 DEF Finish
<1>5. CASE Queues(w, x, q)
  <2>1. PICK y \in ValidationStates : Suspend(w, y, "lock")
    BY <1>5 DEF Queues, Queue
  <2> QED
    BY <2>1, <1>2, <1>3 DEF Suspend
<1>6. CASE Fetches(w, x, q)
  <2>1. PICK y \in ValidationStates : Suspend(w, y, "fetch")
    BY <1>6 DEF Fetches
  <2> QED
    BY <2>1, <1>2, <1>3 DEF Suspend
<1> QED
  BY <1>1, <1>4, <1>5, <1>6 DEF Outcome

LEMMA EndsWell ==
    ASSUME KeysInv, [Next]_vars, NEW v \in Validations, val[v].pc # "idle", val'[v].pc = "idle"
    PROVE  /\ verdict' = "accepted" => Acceptable(val[v].kid)
           /\ verdict' = "refused" => Refusable(val[v].kid)
<1>1. ASSUME NEW w \in Validations, Moves(w)
      PROVE  /\ verdict' = "accepted" => Acceptable(val[v].kid)
             /\ verdict' = "refused" => Refusable(val[v].kid)
  <2>1. v = w
    BY <1>1, MovesVerdict
  <2> QED
    BY <1>1, <2>1, MovesVerdict
<1>2. CASE verdict' \notin {"accepted", "refused"}
  BY <1>2
<1>3. CASE \E w \in Validations : Begin(w) \/ Enter(w) \/ Fetched(w)
  <2>1. PICK w \in Validations : Begin(w) \/ Enter(w) \/ Fetched(w)
    BY <1>3
  <2>2. Moves(w)
    BY <2>1, BeginMoves, EnterMoves, FetchedInv
  <2> QED
    BY <2>2, <1>1
<1>4. None \notin {"accepted", "refused"}
  BY NoneAssumption DEF Results
<1>5. ASSUME NEW w \in Validations, NEW k \in Kids, Validate(w, k)
      PROVE  verdict' = None
  BY <1>5 DEF Validate, Suspend
<1>6. ASSUME NEW w \in Validations, Serve(w)
      PROVE  verdict' = None
  BY <1>6 DEF Serve, Suspend
<1>7. ASSUME NEW w \in Validations, FetchFails(w) \/ TimeOut(w)
      PROVE  verdict' = "unavailable"
  BY <1>7 DEF FetchFails, TimeOut, Finish
<1>8. ASSUME NEW k \in Kids, Rotate(k)
      PROVE  verdict' = None
  BY <1>8 DEF Rotate
<1>9. Tick => verdict' = None
  BY DEF Tick
<1>10. UNCHANGED vars => val'[v] = val[v]
  BY DEF vars
<1> QED
  BY <1>2, <1>3, <1>4, <1>5, <1>6, <1>7, <1>8, <1>9, <1>10 DEF Next

(* A token is only accepted by a key that the provider published within the *)
(* cache's time to live and one timeout before.                             *)
THEOREM WithdrawnKeys == Spec => WithdrawnKeyRefused
<1> DEFINE Refused ==
      \A v \in Validations : Ends(v, "accepted") =>
          LET h == provider[val[v].kid] IN
          h # Unpublished /\ now <= LastSeen(h) + TTL + Timeout
<1>1. KeysInv /\ [Next]_vars => [Refused]_vars
  BY EndsWell DEF Ends, Acceptable
<1> QED
  BY <1>1, KeysInvariant, PTL DEF Spec, WithdrawnKeyRefused

(* A token is not refused because of a key that has been published for      *)
(* longer than the cooldown and a timeout, unless a fetch has come to       *)
(* nothing within the cooldown.                                             *)
THEOREM RotatedKeys == Spec => RotationNoticed
<1> DEFINE Noticed ==
      \A v \in Validations : Ends(v, "refused") =>
          LET h == provider[val[v].kid] IN
          \/ h.since = None \/ now <= h.since + Cooldown + Timeout
          \/ failedAt # None /\ now < failedAt + Cooldown
<1>1. KeysInv /\ [Next]_vars => [Noticed]_vars
  BY EndsWell DEF Ends, Refusable
<1> QED
  BY <1>1, KeysInvariant, PTL DEF Spec, RotationNoticed
=============================================================================
