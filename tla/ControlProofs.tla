----------------------------- MODULE ControlProofs -----------------------------
(***************************************************************************)
(* Proofs about the machines around the media path, for any number of      *)
(* tokens, supervisors, exit tasks, browsers, requests, model ids and      *)
(* sensor addresses, and any byte width and memory of the sensor's bus.    *)
(* Each machine has a part of its own; the last part puts them side by     *)
(* side, as MCControl does.                                                *)
(***************************************************************************)
EXTENDS MCControl, FoldFacts

(***************************************************************************)
(* SignedInStays for any number of tokens, lifetimes, logins, restarts and *)
(* writes of the file that fail.  What is in the store and what is in the  *)
(* file are kept apart: a step changes the store, and then the file holds  *)
(* what the store holds, or stays as it is and the tokens the step changed *)
(* are stale.  The lock after failed logins plays no part: whether a login *)
(* is let in does not matter to the sessions there are.                    *)
(***************************************************************************)
StoreOK ==
  /\ now \in Nat /\ issued \in 0..MaxTokens /\ restarted \in Nat
  /\ out \subseteq 1..issued /\ stale \subseteq 1..issued /\ undone \subseteq 1..issued
  /\ sessions \in [Tokens -> Nat] /\ sessFile \in [Tokens -> Nat]
  /\ lifetime \in [Tokens -> Nat]

(* Of a token nobody has yet there is no session; one that expires does so *)
(* when it was said to, but for the rounding; a token is in the store as   *)
(* its last change left it.                                                *)
InMemory(t) ==
  /\ t > issued => sessions[t] = 0
  /\ sessions[t] # 0 => OnTime(sessions[t], t, restarted)
  /\ sessions[t] <= now + Ttl
  /\ t <= issued /\ t \notin undone =>
       IF t \in out THEN sessions[t] = 0
       ELSE lifetime[t] > now + 2 * Rounding(restarted) => sessions[t] # 0

(* The same of the file, whose entries are rounded once more.  An entry    *)
(* written when its session had expired may be later than its lifetime but *)
(* is over.                                                                *)
Moment(f) == f * Sec

InFile(t) ==
  /\ t > issued => sessFile[t] = 0
  /\ sessFile[t] # 0 => /\ Moment(sessFile[t]) >= lifetime[t] - 2 * Rounding(restarted + 1)
                        /\ \/ Moment(sessFile[t]) <= lifetime[t] + Rounding(restarted)
                           \/ sessFile[t] <= Unix
  /\ sessFile[t] <= Unix + Ttl \div Sec
  /\ t <= issued /\ t \notin stale \cup undone =>
       IF t \in out THEN sessFile[t] = 0
       ELSE lifetime[t] > now + 2 * Rounding(restarted + 1) => sessFile[t] # 0

MemoryOK == \A t \in Tokens : InMemory(t)
FileOK == \A t \in Tokens : InFile(t)

SessInv == StoreOK /\ MemoryOK /\ FileOK

LEMMA TokenNumbers ==
  /\ Sec \in Nat \ {0} /\ Ttl \in Nat /\ MaxTokens \in Nat
  /\ \A t \in Tokens : t \in Nat /\ t >= 1 /\ t <= MaxTokens
  /\ \A n \in 0..MaxTokens : \A t : t \in 1..n <=> t \in Tokens /\ t <= n
BY SessAssumption DEF Tokens

(* The rounding of one restart more.                                       *)
LEMMA RoundingGrows ==
  ASSUME NEW k \in Nat
  PROVE  /\ Rounding(k) \in Nat /\ Rounding(k + 1) \in Nat
         /\ Rounding(k + 1) = Rounding(k) + (Sec - 1)
<1>1. Sec - 1 \in Nat /\ Sec \in Nat
  BY TokenNumbers
<1> DEFINE s == Sec - 1
<1>2. \A a, b \in Nat : a * b \in Nat
  OBVIOUS
<1>3. s \in Nat
  BY <1>1
<1> HIDE DEF s
<1>4. k * s \in Nat /\ (k + 1) * s \in Nat /\ k + 1 \in Nat
  BY <1>2, <1>3
<1>5. (k + 1) * s = k * s + s
  BY <1>3
<1> QED
  BY <1>4, <1>5 DEF Rounding, s

(* Seconds of a clock: the ticks behind the last full second are lost.     *)
LEMMA FullSeconds ==
  ASSUME NEW n \in Nat
  PROVE  /\ n \div Sec \in Nat /\ Moment(n \div Sec) \in Nat
         /\ Moment(n \div Sec) <= n /\ n <= Moment(n \div Sec) + (Sec - 1)
<1>1. Sec \in Nat \ {0}
  BY TokenNumbers
<1>2. n \div Sec \in Nat /\ n % Sec \in 0..Sec - 1 /\ n = Sec * (n \div Sec) + (n % Sec)
  BY <1>1
<1> DEFINE q == n \div Sec
           m == n % Sec
<1>3. q \in Nat /\ m \in 0..Sec - 1 /\ n = Sec * q + m
  BY <1>2
<1> HIDE DEF q, m
<1>4. q * Sec \in Nat /\ q * Sec = Sec * q
  BY <1>1, <1>3
<1>5. q * Sec <= n /\ n <= q * Sec + (Sec - 1)
  BY <1>1, <1>3, <1>4
<1> QED
  BY <1>3, <1>4, <1>5 DEF q, Moment

LEMMA Moments ==
  ASSUME NEW a \in Nat, NEW b \in Nat
  PROVE  /\ Moment(a) \in Nat /\ Moment(a + b) = Moment(a) + Moment(b)
         /\ a <= b => Moment(a) <= Moment(b)
         /\ a < b => Moment(a) + Sec <= Moment(b)
<1>1. Sec \in Nat \ {0}
  BY TokenNumbers
<1>2. a * Sec \in Nat /\ b * Sec \in Nat /\ (a + b) * Sec = a * Sec + b * Sec
  BY <1>1
<1>3. ASSUME a <= b PROVE a * Sec <= b * Sec
  <2> DEFINE d == b - a
  <2>1. d \in Nat /\ b = a + d
    BY <1>3
  <2> HIDE DEF d
  <2>2. b * Sec = a * Sec + d * Sec /\ d * Sec \in Nat
    BY <1>1, <2>1
  <2> QED
    BY <1>2, <2>2
<1>4. ASSUME a < b PROVE a * Sec + Sec <= b * Sec
  <2> DEFINE d == b - a - 1
  <2>1. d \in Nat /\ b = (a + d) + 1
    BY <1>4
  <2> HIDE DEF d
  <2>2. b * Sec = (a * Sec + d * Sec) + Sec /\ d * Sec \in Nat
    BY <1>1, <2>1
  <2> QED
    BY <1>1, <1>2, <2>2
<1> QED
  BY <1>2, <1>3, <1>4 DEF Moment

(* Later is not earlier in seconds.                                        *)
LEMMA SecondsGrow ==
  ASSUME NEW a \in Nat, NEW b \in Nat, a <= b
  PROVE  a \div Sec <= b \div Sec
<1>1. SUFFICES ASSUME b \div Sec < a \div Sec PROVE FALSE
  BY FullSeconds
<1>2. Moment(b \div Sec) + Sec <= Moment(a \div Sec)
  BY <1>1, FullSeconds, Moments
<1>3. Sec \in Nat /\ Moment(a \div Sec) <= a /\ b <= Moment(b \div Sec) + (Sec - 1)
      /\ Moment(a \div Sec) \in Nat /\ Moment(b \div Sec) \in Nat
  BY FullSeconds, TokenNumbers
<1> QED
  BY <1>2, <1>3

(* What is written of a session that expires at e.                         *)
LEMMA Written ==
  ASSUME NEW n \in Nat, NEW e \in Nat, e <= n + Ttl,
         NEW f, f = n \div Sec + (IF e > n THEN (e - n) \div Sec ELSE 0)
  PROVE  /\ f \in Nat /\ f <= n \div Sec + Ttl \div Sec
         /\ Moment(f) >= e - 2 * (Sec - 1)
         /\ Moment(f) <= e \/ f <= n \div Sec
<1> DEFINE u == n \div Sec
           v == (e - n) \div Sec
           w == Ttl \div Sec
           s == Sec - 1
<1>1. u \in Nat /\ w \in Nat /\ s \in Nat /\ Moment(u) \in Nat /\ Moment(u) <= n
      /\ n <= Moment(u) + s
  <2>1. Ttl \in Nat /\ s \in Nat
    BY TokenNumbers
  <2>2. u \in Nat /\ Moment(u) \in Nat /\ Moment(u) <= n /\ n <= Moment(u) + s
    BY FullSeconds
  <2>3. w \in Nat
    BY <2>1, FullSeconds
  <2> QED
    BY <2>1, <2>2, <2>3
<1>2. CASE e > n
  <2>1. e - n \in Nat /\ e - n <= Ttl /\ f = u + v
    BY <1>2, TokenNumbers
  <2>2. v \in Nat /\ v <= w /\ Moment(v) \in Nat /\ Moment(v) <= e - n
        /\ e - n <= Moment(v) + s
    BY <2>1, FullSeconds, SecondsGrow, TokenNumbers
  <2>3. Moment(u + v) = Moment(u) + Moment(v)
    BY <1>1, <2>2, Moments
  <2> HIDE DEF u, v, w, s
  <2>4. f \in Nat /\ f <= u + w /\ Moment(f) >= e - 2 * s /\ Moment(f) <= e
    BY <1>1, <2>1, <2>2, <2>3
  <2> QED
    BY <2>4 DEF u, w, s
<1>3. CASE ~(e > n)
  <2>1. f = u
    BY <1>1, <1>3
  <2> HIDE DEF u, v, w, s
  <2>2. f \in Nat /\ f <= u + w /\ Moment(f) >= e - 2 * s /\ f <= u
    BY <1>1, <1>3, <2>1
  <2> QED
    BY <2>2 DEF u, w, s
<1> QED
  BY <1>2, <1>3

(* What is read back of an entry f that is not over.                       *)
LEMMA ReadBack ==
  ASSUME NEW n \in Nat, NEW f \in Nat, f > n \div Sec, f <= n \div Sec + Ttl \div Sec,
         NEW e, e = n + (f - n \div Sec) * Sec
  PROVE  /\ e \in Nat /\ e <= n + Ttl /\ e > n
         /\ e >= Moment(f) /\ e <= Moment(f) + (Sec - 1)
<1> DEFINE u == n \div Sec
           d == f - u
           w == Ttl \div Sec
           s == Sec - 1
<1>1. u \in Nat /\ w \in Nat /\ s \in Nat /\ Moment(u) \in Nat /\ Moment(u) <= n
      /\ n <= Moment(u) + s /\ Moment(w) \in Nat /\ Moment(w) <= Ttl /\ Ttl \in Nat
  <2>1. Ttl \in Nat /\ s \in Nat
    BY TokenNumbers
  <2>2. u \in Nat /\ Moment(u) \in Nat /\ Moment(u) <= n /\ n <= Moment(u) + s
    BY FullSeconds
  <2>3. w \in Nat /\ Moment(w) \in Nat /\ Moment(w) <= Ttl
    BY <2>1, FullSeconds
  <2> QED
    BY <2>1, <2>2, <2>3
<1>2. d \in Nat /\ d >= 1 /\ d <= w /\ f = u + d /\ e = n + Moment(d)
  BY <1>1 DEF Moment
<1> HIDE DEF u, d, w, s
<1>3. Moment(f) = Moment(u) + Moment(d) /\ Moment(d) \in Nat /\ Moment(d) <= Moment(w)
  BY <1>1, <1>2, Moments
<1>4. Moment(0) + Sec <= Moment(d) /\ Moment(0) \in Nat /\ Sec \in Nat \ {0}
  BY <1>2, Moments, TokenNumbers
<1>5. /\ e \in Nat /\ e <= n + Ttl /\ e > n
      /\ e >= Moment(f) /\ e <= Moment(f) + s
  BY <1>1, <1>2, <1>3, <1>4
<1> QED
  BY <1>5 DEF s

(* An entry that is over lies in the past, one that is not does not.       *)
LEMMA OverOrNot ==
  ASSUME NEW n \in Nat, NEW f \in Nat
  PROVE  f <= n \div Sec <=> Moment(f) <= n
<1> DEFINE u == n \div Sec
<1>1. u \in Nat /\ Moment(u) \in Nat /\ Moment(u) <= n /\ n <= Moment(u) + (Sec - 1)
  BY FullSeconds
<1> HIDE DEF u
<1>2. Moment(f) \in Nat /\ Sec \in Nat \ {0}
  BY Moments, TokenNumbers
<1>3. ASSUME f <= u PROVE Moment(f) <= n
  BY <1>1, <1>2, <1>3, Moments
<1>4. ASSUME ~(f <= u) PROVE ~(Moment(f) <= n)
  <2>1. Moment(u) + Sec <= Moment(f)
    BY <1>1, <1>4, Moments
  <2> QED
    BY <1>1, <1>2, <2>1
<1> QED
  BY <1>3, <1>4 DEF u

LEMMA SessInitInv == SessInit => SessInv
<1> SUFFICES ASSUME SessInit PROVE SessInv
  OBVIOUS
<1>1. /\ now = 0 /\ sessions = Nothing /\ sessFile = Nothing /\ issued = 0 /\ restarted = 0
      /\ lifetime = Nothing /\ out = {} /\ stale = {} /\ undone = {}
  BY DEF SessInit
<1>2. Nothing \in [Tokens -> Nat] /\ \A t \in Tokens : Nothing[t] = 0
  BY DEF Nothing
<1>3. StoreOK
  BY <1>1, <1>2, TokenNumbers DEF StoreOK
<1>4. Unix \in Nat /\ Ttl \div Sec \in Nat
  BY <1>1, FullSeconds, TokenNumbers DEF Unix
<1>5. ASSUME NEW t \in Tokens PROVE InMemory(t) /\ InFile(t)
  <2>1. sessions[t] = 0 /\ sessFile[t] = 0 /\ ~(t <= 0) /\ Ttl \in Nat
    BY <1>1, <1>2, TokenNumbers
  <2> QED
    BY <1>1, <1>4, <2>1 DEF InMemory, InFile
<1> QED
  BY <1>3, <1>5 DEF SessInv, MemoryOK, FileOK

(* A step that changes the tokens of C in the store leaves the file in     *)
(* order, whether the write succeeds or not.                               *)
LEMMA PersistKeeps ==
  ASSUME StoreOK, FileOK, MemoryOK', NEW C, Persist(C),
         now' = now, restarted' = restarted, issued' \in 0..MaxTokens, issued' >= issued,
         C \subseteq 1..issued', sessions' \in [Tokens -> Nat], lifetime' \in [Tokens -> Nat],
         \A t \in Tokens : lifetime'[t] = lifetime[t] \/ sessFile[t] = 0,
         \A t \in Tokens \ C : /\ lifetime'[t] = lifetime[t]
                               /\ t <= issued' => t <= issued
                               /\ t \in out' <=> t \in out
                               /\ t \in undone' <=> t \in undone
  PROVE  FileOK' /\ stale' \subseteq 1..issued' /\ sessFile' \in [Tokens -> Nat]
<1>1. now \in Nat /\ restarted \in Nat /\ issued \in Nat /\ issued' \in Nat /\ Unix \in Nat
      /\ Ttl \div Sec \in Nat /\ Unix' = Unix /\ stale \subseteq 1..issued
      /\ sessFile \in [Tokens -> Nat]
  <2>1. Ttl \in Nat /\ now \in Nat /\ restarted \in Nat /\ issued \in 0..MaxTokens /\ MaxTokens \in Nat
        /\ stale \subseteq 1..issued /\ sessFile \in [Tokens -> Nat]
    BY TokenNumbers DEF StoreOK
  <2>2. now \div Sec \in Nat /\ Ttl \div Sec \in Nat
    BY <2>1, FullSeconds
  <2>3. Unix' = Unix /\ Unix = now \div Sec
    BY DEF Unix
  <2> QED
    BY <2>1, <2>2, <2>3
<1> DEFINE R == Rounding(restarted)
           Q == Rounding(restarted + 1)
           s == Sec - 1
<1>2. R \in Nat /\ Q \in Nat /\ Q = R + s /\ s \in Nat
  BY <1>1, RoundingGrows, TokenNumbers
<1>3. CASE sessFile' = Record(sessions') /\ stale' = {}
  <2>1. ASSUME NEW t \in Tokens PROVE sessFile'[t] \in Nat /\ InFile(t)'
    <3> DEFINE e == sessions'[t]
               f == sessFile'[t]
               L == lifetime'[t]
               u == Unix
               w == Ttl \div Sec
    <3>1. e \in Nat /\ L \in Nat /\ InMemory(t)' /\ e <= now + Ttl
      BY DEF MemoryOK, InMemory
    <3>2. f = IF e = 0 THEN 0 ELSE u + (IF e > now THEN (e - now) \div Sec ELSE 0)
      BY <1>3 DEF Record
    <3>3. /\ t > issued' => e = 0
          /\ e # 0 => e >= L - 2 * R /\ e <= L + R
          /\ t <= issued' /\ t \notin undone' =>
               IF t \in out' THEN e = 0 ELSE L > now + 2 * R => e # 0
      BY <3>1 DEF InMemory, OnTime
    <3>4. CASE e = 0
      <4>1. f = 0
        BY <3>2, <3>4
      <4>2. ~(L > now + 2 * Q) \/ ~(t <= issued' /\ t \notin undone' /\ t \notin out')
        <5> HIDE DEF e, f, L, R, Q, s
        <5> QED
          BY <1>1, <1>2, <3>1, <3>3, <3>4
      <4> QED
        BY <1>1, <3>3, <3>4, <4>1, <4>2 DEF InFile
    <3>5. CASE e # 0
      <4>1. f = u + (IF e > now THEN (e - now) \div Sec ELSE 0)
        BY <3>2, <3>5
      <4>2. /\ f \in Nat /\ f <= u + w /\ Moment(f) >= e - 2 * s
            /\ Moment(f) <= e \/ f <= u
        BY <1>1, <3>1, <4>1, Written DEF Unix
      <4>3. Moment(f) \in Nat
        BY <4>2, Moments
      <4>4. /\ Moment(f) >= L - 2 * Q
            /\ Moment(f) <= L + R \/ f <= u
        <5> HIDE DEF e, f, L, R, Q, s, u
        <5> QED
          BY <1>2, <3>1, <3>3, <3>5, <4>2, <4>3
      <4>5. ASSUME L > now + 2 * Q PROVE f # 0
        <5>1. ~(e <= now)
          <6> HIDE DEF e, L, R, Q, s
          <6> QED
            BY <1>1, <1>2, <3>1, <3>3, <3>5, <4>5
        <5>2. Moment(f) > now
          <6> HIDE DEF e, f, L, R, Q, s
          <6> QED
            BY <1>1, <1>2, <3>1, <3>3, <3>5, <4>2, <4>3, <4>5
        <5>3. Moment(0) = 0
          BY TokenNumbers DEF Moment
        <5> HIDE DEF f
        <5> QED
          BY <1>1, <5>2, <5>3
      <4>6. ~(t > issued') /\ (t <= issued' /\ t \notin undone' => t \notin out')
        BY <3>3, <3>5
      <4> QED
        BY <1>1, <4>2, <4>4, <4>5, <4>6 DEF InFile
    <3> QED
      BY <3>4, <3>5
  <2>2. sessFile' = [t \in Tokens |-> sessFile'[t]]
    BY <1>3 DEF Record
  <2>3. sessFile' \in [Tokens -> Nat]
    BY <2>1, <2>2
  <2> QED
    BY <1>3, <2>1, <2>3 DEF FileOK
<1>4. CASE sessFile' = sessFile /\ stale' = stale \cup C
  <2>1. ASSUME NEW t \in Tokens PROVE InFile(t)'
    <3>1. InFile(t) /\ t \in Nat
      BY TokenNumbers DEF FileOK
    <3>2. t > issued' => t > issued
      BY <1>1, <3>1
    <3>3. CASE t \in C
      BY <1>1, <1>4, <3>1, <3>2, <3>3 DEF InFile
    <3>4. CASE t \notin C
      <4>1. lifetime'[t] = lifetime[t] /\ (t <= issued' => t <= issued)
            /\ (t \in out' <=> t \in out) /\ (t \in undone' <=> t \in undone)
            /\ (t \in stale' <=> t \in stale)
        BY <1>4, <3>4
      <4> QED
        BY <1>1, <1>4, <3>1, <3>2, <4>1 DEF InFile
    <3> QED
      BY <3>3, <3>4
  <2>2. stale' \subseteq 1..issued'
    BY <1>1, <1>4
  <2> QED
    BY <1>1, <1>4, <2>1, <2>2 DEF FileOK
<1> QED
  BY <1>3, <1>4 DEF Persist

(* A session is created for the next token only.                           *)
LEMMA CreateInv ==
  ASSUME SessInv, CreateSession, now' = now, restarted' = restarted, UNCHANGED <<out, undone>>
  PROVE  SessInv'
<1> DEFINE n == issued + 1
<1>1. now \in Nat /\ restarted \in Nat /\ issued \in 0..MaxTokens /\ Ttl \in Nat
      /\ sessions \in [Tokens -> Nat] /\ lifetime \in [Tokens -> Nat]
      /\ out \subseteq 1..issued /\ undone \subseteq 1..issued
  BY TokenNumbers DEF SessInv, StoreOK
<1>2. /\ issued' = n /\ n \in Tokens /\ n \in 0..MaxTokens
      /\ sessions' = [sessions EXCEPT ![n] = now + Ttl]
      /\ lifetime' = [lifetime EXCEPT ![n] = now + Ttl] /\ Persist({n})
  <2>1. issued < MaxTokens /\ MaxTokens \in Nat
    BY TokenNumbers DEF CreateSession
  <2> QED
    BY <1>1, <2>1 DEF CreateSession, Tokens
<1>3. sessions' \in [Tokens -> Nat] /\ lifetime' \in [Tokens -> Nat] /\ now + Ttl \in Nat
  BY <1>1, <1>2
<1>4. ASSUME NEW t \in Tokens PROVE InMemory(t)'
  <2>1. t \in Nat /\ InMemory(t)
    BY TokenNumbers DEF SessInv, MemoryOK
  <2>2. CASE t = n
    <3>1. sessions'[t] = now + Ttl /\ lifetime'[t] = now + Ttl /\ t \notin out'
      BY <1>1, <1>2, <2>2
    <3>2. Rounding(restarted) \in Nat
      BY <1>1, RoundingGrows
    <3>3. OnTime(sessions[t], t, restarted)'
      <4> DEFINE a == now + Ttl
      <4>1. a \in Nat
        BY <1>1
      <4> HIDE DEF a
      <4> QED
        BY <3>1, <3>2, <4>1 DEF OnTime, a
    <3>4. ~(t > issued')
      BY <1>1, <1>2, <2>2
    <3>5. lifetime'[t] > now + 2 * Rounding(restarted) => sessions'[t] # 0
      BY <1>1, <3>1, <3>2
    <3> QED
      BY <1>1, <3>1, <3>3, <3>4, <3>5 DEF InMemory
  <2>3. CASE t # n
    <3>1. sessions'[t] = sessions[t] /\ lifetime'[t] = lifetime[t]
          /\ (t <= issued' <=> t <= issued) /\ (t > issued' => t > issued)
      BY <1>1, <1>2, <2>1, <2>3
    <3> QED
      BY <2>1, <3>1 DEF InMemory, OnTime
  <2> QED
    BY <2>2, <2>3
<1>5. MemoryOK'
  BY <1>4 DEF MemoryOK
<1>6. FileOK' /\ stale' \subseteq 1..issued' /\ sessFile' \in [Tokens -> Nat]
  <2>1. \A t \in Tokens : lifetime'[t] = lifetime[t] \/ sessFile[t] = 0
    <3>1. sessFile[n] = 0
      BY <1>1, <1>2 DEF SessInv, FileOK, InFile
    <3> QED
      BY <1>2, <3>1
  <2>2. \A t \in Tokens \ {n} : lifetime'[t] = lifetime[t] /\ (t <= issued' => t <= issued)
    BY <1>1, <1>2, TokenNumbers
  <2>3. issued' \in 0..MaxTokens /\ issued' >= issued /\ {n} \subseteq 1..issued'
    BY <1>1, <1>2
  <2> QED
    BY <1>2, <1>3, <1>5, <2>1, <2>2, <2>3, PersistKeeps DEF SessInv
<1>7. StoreOK'
  BY <1>1, <1>2, <1>3, <1>6 DEF StoreOK
<1> QED
  BY <1>5, <1>6, <1>7 DEF SessInv

(* Every session is ended.                                                 *)
LEMMA ClearInv ==
  ASSUME SessInv, ClearStore, UNCHANGED <<now, restarted, issued, lifetime>>
  PROVE  SessInv'
<1>1. now \in Nat /\ restarted \in Nat /\ issued \in 0..MaxTokens /\ Ttl \in Nat
      /\ lifetime \in [Tokens -> Nat] /\ issued \in Nat
  BY TokenNumbers DEF SessInv, StoreOK
<1>2. sessions' = Nothing /\ out' = 1..issued /\ undone' = {} /\ Persist(1..issued)
  BY DEF ClearStore
<1>3. sessions' \in [Tokens -> Nat] /\ \A t \in Tokens : sessions'[t] = 0
  BY <1>2 DEF Nothing
<1>4. ASSUME NEW t \in Tokens PROVE InMemory(t)' /\ (t <= issued => t \in 1..issued)
  <2>1. t <= issued => t \in out'
    BY <1>1, <1>2, TokenNumbers
  <2> QED
    BY <1>1, <1>2, <1>3, <2>1 DEF InMemory
<1>5. MemoryOK'
  BY <1>4 DEF MemoryOK
<1>6. FileOK' /\ stale' \subseteq 1..issued' /\ sessFile' \in [Tokens -> Nat]
  <2>1. \A t \in Tokens \ (1..issued) :
          ~(t <= issued') /\ t \notin out' /\ t \notin out /\ t \notin undone' /\ t \notin undone
    BY <1>2, <1>4 DEF SessInv, StoreOK
  <2> QED
    BY <1>1, <1>2, <1>3, <1>5, <2>1, PersistKeeps DEF SessInv
<1>7. StoreOK'
  BY <1>1, <1>2, <1>3, <1>6 DEF StoreOK
<1> QED
  BY <1>5, <1>6, <1>7 DEF SessInv

(* One session is ended.                                                   *)
LEMMA LogoutInv ==
  ASSUME SessInv, NEW t \in Tokens, Logout(t)
  PROVE  SessInv'
<1>1. now \in Nat /\ restarted \in Nat /\ issued \in 0..MaxTokens /\ Ttl \in Nat
      /\ lifetime \in [Tokens -> Nat] /\ issued \in Nat /\ sessions \in [Tokens -> Nat]
      /\ out \subseteq 1..issued /\ undone \subseteq 1..issued
  BY TokenNumbers DEF SessInv, StoreOK
<1>2. /\ t <= issued /\ sessions' = [sessions EXCEPT ![t] = 0]
      /\ out' = out \cup {t} /\ undone' = undone \ {t} /\ Persist({t})
      /\ UNCHANGED <<now, restarted, issued, lifetime>>
  BY DEF Logout
<1>3. sessions' \in [Tokens -> Nat] /\ t \in 1..issued
  BY <1>1, <1>2, TokenNumbers
<1>4. ASSUME NEW o \in Tokens PROVE InMemory(o)'
  <2>1. InMemory(o)
    BY DEF SessInv, MemoryOK
  <2>2. CASE o = t
    <3>1. sessions'[o] = 0 /\ o \in out' /\ ~(o > issued')
      BY <1>1, <1>2, <1>3, <2>2
    <3> QED
      BY <1>1, <1>2, <3>1 DEF InMemory
  <2>3. CASE o # t
    <3>1. sessions'[o] = sessions[o] /\ (o \in out' <=> o \in out)
          /\ (o \in undone' <=> o \in undone)
      BY <1>1, <1>2, <2>3
    <3> QED
      BY <1>2, <2>1, <3>1 DEF InMemory, OnTime
  <2> QED
    BY <2>2, <2>3
<1>5. MemoryOK'
  BY <1>4 DEF MemoryOK
<1>6. FileOK' /\ stale' \subseteq 1..issued' /\ sessFile' \in [Tokens -> Nat]
  <2>1. \A o \in Tokens \ {t} : (o \in out' <=> o \in out) /\ (o \in undone' <=> o \in undone)
    BY <1>2
  <2> QED
    BY <1>1, <1>2, <1>3, <1>5, <2>1, PersistKeeps DEF SessInv
<1>7. StoreOK'
  BY <1>1, <1>2, <1>3, <1>6 DEF StoreOK
<1> QED
  BY <1>5, <1>6, <1>7 DEF SessInv

(* What has expired may be dropped from the store.                         *)
LEMMA DropInv ==
  ASSUME SessInv, sessions' \in [Tokens -> Nat],
         \A t \in Tokens : sessions'[t] = sessions[t] \/ (sessions'[t] = 0 /\ ~Alive(t)),
         UNCHANGED <<now, sessFile, issued, restarted, lifetime, out, stale, undone>>
  PROVE  SessInv'
<1>1. now \in Nat /\ restarted \in Nat /\ Ttl \in Nat /\ lifetime \in [Tokens -> Nat]
      /\ sessions \in [Tokens -> Nat] /\ Rounding(restarted) \in Nat
  BY TokenNumbers, RoundingGrows DEF SessInv, StoreOK
<1>2. ASSUME NEW t \in Tokens PROVE InMemory(t)'
  <2>1. InMemory(t)
    BY DEF SessInv, MemoryOK
  <2>2. CASE sessions'[t] = sessions[t]
    BY <2>1, <2>2 DEF InMemory, OnTime
  <2>3. CASE sessions'[t] = 0 /\ ~Alive(t)
    <3> DEFINE e == sessions[t]
               L == lifetime[t]
               R == Rounding(restarted)
    <3>1. e \in Nat /\ L \in Nat /\ R \in Nat /\ ~(e > now) /\ (e # 0 => e >= L - 2 * R)
      BY <1>1, <2>1, <2>3 DEF InMemory, OnTime, Alive
    <3>2. ~(L > now + 2 * R) \/ e = 0
      <4> HIDE DEF e, L, R
      <4> QED
        BY <1>1, <3>1
    <3> QED
      BY <1>1, <2>1, <2>3, <3>2 DEF InMemory
  <2> QED
    BY <2>2, <2>3
<1>3. FileOK'
  <2>1. Unix' = Unix
    BY DEF Unix
  <2> QED
    BY <2>1 DEF SessInv, FileOK, InFile
<1>4. StoreOK'
  BY DEF SessInv, StoreOK
<1> QED
  BY <1>2, <1>3, <1>4 DEF SessInv, MemoryOK

(* Nothing but the clock moves.                                            *)
LEMMA TickInv == SessInv /\ SessTick => SessInv'
<1> SUFFICES ASSUME SessInv, SessTick PROVE SessInv'
  OBVIOUS
<1>1. /\ now' = now + 1 /\ UNCHANGED <<sessions, sessFile, issued, restarted, lifetime, out,
                                       stale, undone>>
  BY DEF SessTick, saving
<1>2. /\ now \in Nat /\ now' \in Nat /\ now <= now' /\ restarted \in Nat /\ Ttl \in Nat
      /\ sessions \in [Tokens -> Nat] /\ sessFile \in [Tokens -> Nat]
      /\ lifetime \in [Tokens -> Nat]
  BY <1>1, TokenNumbers DEF SessInv, StoreOK
<1>3. Unix \in Nat /\ Unix' \in Nat /\ Unix <= Unix' /\ Ttl \div Sec \in Nat
  BY <1>2, FullSeconds, SecondsGrow DEF Unix
<1> DEFINE R == Rounding(restarted)
           Q == Rounding(restarted + 1)
<1>4. R \in Nat /\ Q \in Nat
  BY <1>2, RoundingGrows
<1>5. ASSUME NEW t \in Tokens PROVE InMemory(t)' /\ InFile(t)'
  <2> DEFINE e == sessions[t]
             f == sessFile[t]
             L == lifetime[t]
             u == Unix
             v == Unix'
             w == Ttl \div Sec
             m == now
             n == now'
  <2>1. InMemory(t) /\ InFile(t)
    BY DEF SessInv, MemoryOK, FileOK
  <2>2. e \in Nat /\ f \in Nat /\ L \in Nat /\ u \in Nat /\ v \in Nat /\ u <= v /\ w \in Nat
        /\ m \in Nat /\ n \in Nat /\ m <= n /\ e <= m + Ttl /\ f <= u + w
    BY <1>2, <1>3, <2>1 DEF InMemory, InFile
  <2>3. /\ e <= n + Ttl /\ f <= v + w /\ (f <= u => f <= v)
        /\ (L > n + 2 * R => L > m + 2 * R) /\ (L > n + 2 * Q => L > m + 2 * Q)
    <3> HIDE DEF e, f, L, u, v, w, m, n, R, Q
    <3> QED
      BY <1>2, <1>4, <2>2
  <2>4. InMemory(t)'
    BY <1>1, <2>1, <2>3 DEF InMemory, OnTime
  <2>5. InFile(t)'
    BY <1>1, <2>1, <2>3 DEF InFile
  <2> QED
    BY <2>4, <2>5
<1>6. StoreOK'
  BY <1>1, <1>2 DEF SessInv, StoreOK
<1> QED
  BY <1>5, <1>6 DEF SessInv, MemoryOK, FileOK

(* A restart has the sessions the file has, and loses what was not in it.  *)
LEMMA SessRestartInv == SessInv /\ SessRestart => SessInv'
<1> SUFFICES ASSUME SessInv, SessRestart PROVE SessInv'
  OBVIOUS
<1>1. /\ restarted' = restarted + 1 /\ undone' = undone \cup stale /\ stale' = {}
      /\ sessions' = [t \in Tokens |-> IF sessFile[t] > Unix
                                       THEN now + (sessFile[t] - Unix) * Sec ELSE 0]
      /\ UNCHANGED <<now, sessFile, issued, lifetime, out>>
  BY DEF SessRestart
<1>2. /\ now \in Nat /\ restarted \in Nat /\ restarted + 1 \in Nat /\ Ttl \in Nat /\ Sec \in Nat \ {0}
      /\ sessFile \in [Tokens -> Nat] /\ lifetime \in [Tokens -> Nat] /\ issued \in 0..MaxTokens
      /\ stale \subseteq 1..issued /\ undone \subseteq 1..issued
  BY TokenNumbers DEF SessInv, StoreOK
<1>3. Unix \in Nat /\ Unix' = Unix /\ Ttl \div Sec \in Nat
  BY <1>1, <1>2, FullSeconds DEF Unix
<1> DEFINE R == Rounding(restarted)
           Q == Rounding(restarted + 1)
           P == Rounding((restarted + 1) + 1)
           s == Sec - 1
<1>4. R \in Nat /\ Q \in Nat /\ P \in Nat /\ s \in Nat /\ Q = R + s /\ P = Q + s
  BY <1>2, RoundingGrows
<1>5. ASSUME NEW t \in Tokens PROVE sessions'[t] \in Nat /\ InMemory(t)' /\ InFile(t)'
  <2> DEFINE e == sessions'[t]
             f == sessFile[t]
             L == lifetime[t]
             u == Unix
             w == Ttl \div Sec
  <2>1. InFile(t) /\ f \in Nat /\ L \in Nat /\ f <= u + w
    BY <1>2 DEF SessInv, FileOK, InFile
  <2>2. e = IF f > u THEN now + (f - u) * Sec ELSE 0
    BY <1>1
  <2>3. /\ t > issued => f = 0
        /\ f # 0 => /\ Moment(f) >= L - 2 * Q
                    /\ Moment(f) <= L + R \/ f <= u
        /\ t <= issued /\ t \notin stale /\ t \notin undone =>
             IF t \in out THEN f = 0 ELSE L > now + 2 * Q => f # 0
    BY <2>1 DEF InFile
  <2>4. Moment(f) \in Nat /\ (f <= u <=> Moment(f) <= now)
    BY <1>2, <2>1, Moments, OverOrNot DEF Unix
  <2>5. e \in Nat /\ e <= now + Ttl /\ (e # 0 => e >= L - 2 * Q /\ e <= L + Q)
        /\ (e = 0 => f <= u)
    <3>1. CASE f > u
      <4>1. e = now + (f - u) * Sec
        BY <2>2, <3>1
      <4>2. e \in Nat /\ e <= now + Ttl /\ e > now /\ e >= Moment(f) /\ e <= Moment(f) + s
        BY <1>2, <2>1, <3>1, <4>1, ReadBack DEF Unix
      <4> HIDE DEF e, f, L, u, w, R, Q, s
      <4> QED
        BY <1>2, <1>3, <1>4, <2>1, <2>3, <2>4, <3>1, <4>2 DEF u
    <3>2. CASE ~(f > u)
      <4>1. e = 0
        BY <2>2, <3>2
      <4> QED
        BY <1>2, <1>3, <2>1, <3>2, <4>1
    <3> QED
      BY <3>1, <3>2
  <2>6. ASSUME t <= issued, t \notin undone'
        PROVE  IF t \in out THEN e = 0 ELSE L > now + 2 * Q => e # 0
    <3>1. t \notin stale /\ t \notin undone
      BY <1>1, <2>6
    <3>2. CASE t \in out
      <4>1. f = 0
        BY <2>3, <2>6, <3>1, <3>2
      <4> QED
        BY <1>3, <2>2, <3>2, <4>1
    <3>3. CASE t \notin out
      <4>1. SUFFICES ASSUME L > now + 2 * Q, e = 0 PROVE FALSE
        BY <3>3
      <4>2. f # 0 /\ f <= u
        BY <2>3, <2>5, <2>6, <3>1, <3>3, <4>1
      <4>3. Moment(f) <= now /\ Moment(f) >= L - 2 * Q
        BY <2>3, <2>4, <4>2
      <4> HIDE DEF f, L, Q
      <4> QED
        BY <1>2, <1>4, <2>1, <2>4, <4>1, <4>3
    <3> QED
      BY <3>2, <3>3
  <2>7. InMemory(t)'
    <3>1. t > issued => e = 0
      BY <1>3, <2>2, <2>3
    <3> QED
      BY <1>1, <2>5, <2>6, <3>1 DEF InMemory, OnTime
  <2>8. InFile(t)'
    <3>1. /\ f # 0 => /\ Moment(f) >= L - 2 * P
                      /\ Moment(f) <= L + Q \/ f <= u
          /\ L > now + 2 * P => L > now + 2 * Q
      <4> HIDE DEF f, L, u, P, Q, R, s
      <4> QED
        BY <1>2, <1>4, <2>1, <2>3, <2>4
    <3> QED
      BY <1>1, <1>3, <2>1, <2>3, <3>1 DEF InFile
  <2> QED
    BY <2>5, <2>7, <2>8
<1>6. sessions' \in [Tokens -> Nat]
  BY <1>1, <1>5
<1>7. StoreOK'
  BY <1>1, <1>2, <1>6 DEF SessInv, StoreOK
<1> QED
  BY <1>5, <1>7 DEF SessInv, MemoryOK, FileOK

LEMMA SessNextInv == SessInv /\ [SessNext]_sessVars => SessInv'
<1> SUFFICES ASSUME SessInv, [SessNext]_sessVars PROVE SessInv'
  OBVIOUS
<1>1. ASSUME UNCHANGED <<now, sessions, sessFile, issued, restarted, lifetime, out, stale, undone>>
      PROVE  SessInv'
  BY <1>1, DropInv DEF SessInv, StoreOK
<1>2. CASE FirstSetup
  BY <1>2, CreateInv DEF FirstSetup
<1>3. CASE FactoryReset
  BY <1>1, <1>3 DEF FactoryReset, saving
<1>4. CASE ClearSessions
  BY <1>4, ClearInv DEF ClearSessions
<1>5. CASE SweepSessions
  <2>1. sessions' = [t \in Tokens |-> IF Alive(t) THEN sessions[t] ELSE 0]
        /\ UNCHANGED <<now, sessFile, issued, restarted, lifetime, out, stale, undone>>
    BY <1>5 DEF SweepSessions, saving
  <2>2. sessions' \in [Tokens -> Nat]
    BY <2>1 DEF SessInv, StoreOK
  <2> QED
    BY <2>1, <2>2, DropInv
<1>6. CASE SessRestart
  BY <1>6, SessRestartInv
<1>7. CASE SessTick
  BY <1>7, TickInv
<1>8. ASSUME NEW r \in LoginReq, LoginBegins(r) \/ LoginFails(r) PROVE SessInv'
  BY <1>1, <1>8 DEF LoginBegins, LoginFails, saving
<1>9. ASSUME NEW r \in LoginReq, LoginSucceeds(r) PROVE SessInv'
  BY <1>9, CreateInv DEF LoginSucceeds
<1>10. ASSUME NEW t \in Tokens, Validate(t) PROVE SessInv'
  <2>1. sessions' = [sessions EXCEPT ![t] = 0] /\ ~Alive(t)
        /\ UNCHANGED <<now, sessFile, issued, restarted, lifetime, out, stale, undone>>
    BY <1>10 DEF Validate, saving
  <2>2. sessions' \in [Tokens -> Nat]
        /\ \A o \in Tokens : sessions'[o] = sessions[o] \/ (sessions'[o] = 0 /\ ~Alive(o))
    BY <2>1 DEF SessInv, StoreOK
  <2> QED
    BY <2>1, <2>2, DropInv
<1>11. ASSUME NEW t \in Tokens, Logout(t) PROVE SessInv'
  BY <1>11, LogoutInv
<1>12. ASSUME NEW r \in LoginReq, ResetClears(r) PROVE SessInv'
  BY <1>12, ClearInv DEF ResetClears
<1>13. ASSUME NEW r \in LoginReq, ResetCreates(r) PROVE SessInv'
  BY <1>13, CreateInv DEF ResetCreates
<1>14. CASE UNCHANGED sessVars
  BY <1>1, <1>14 DEF sessVars
<1> QED
  BY <1>2, <1>3, <1>4, <1>5, <1>6, <1>7, <1>8, <1>9, <1>10, <1>11, <1>12, <1>13, <1>14
     DEF SessNext

LEMMA SessInvStays == SessInv => SignedInStays
<1> SUFFICES ASSUME SessInv, NEW t \in 1..issued
             PROVE  /\ sessions[t] # 0 => OnTime(sessions[t], t, restarted)
                    /\ t \notin undone =>
                         IF t \in out THEN sessions[t] = 0
                         ELSE lifetime[t] > now + 2 * Rounding(restarted) => sessions[t] # 0
                    /\ t \notin stale \cup undone =>
                         IF t \in out THEN sessFile[t] = 0
                         ELSE lifetime[t] > now + 2 * Rounding(restarted + 1) => sessFile[t] # 0
  BY DEF SignedInStays
<1>1. t \in Tokens /\ t <= issued
  BY TokenNumbers DEF SessInv, StoreOK
<1>2. InMemory(t) /\ InFile(t)
  BY <1>1 DEF SessInv, MemoryOK, FileOK
<1> QED
  BY <1>1, <1>2 DEF InMemory, InFile

(* A session that was ended stays ended over any number of restarts, and   *)
(* one that was not is there, in memory and on disk, until its lifetime is *)
(* over, to within the rounding of the restarts, unless the write of its   *)
(* last change failed and a restart came before the next write             *)
(* (src/src/web/auth.rs, persist, with_persistence and their callers).     *)
THEOREM SignedInStaysAlways == SessSpec => []SignedInStays
BY SessInitInv, SessNextInv, SessInvStays, PTL DEF SessSpec

(***************************************************************************)
(* NotCutShort for any number of supervisors and exit tasks.  It holds     *)
(* because an ack is the last thing a supervisor does before it leaves the *)
(* exit alone, and an exit task passes a supervisor only with its ack or   *)
(* having given up on it; both are parts of the invariant.                 *)
(***************************************************************************)

(* A deregistration and an ack answer a request, and whoever gave the ack  *)
(* has attempted its deregistration or will never start another server.    *)
AckIsLast ==
  \A s \in Enabled :
    /\ pc[s] = "deregistering" => exitWant[s]
    /\ done[s] => exitWant[s] /\ (asked[s] \/ pc[s] = "finished")

(* A supervisor that was awaited has acked or was given up.                *)
Passed(s) == done[s] \/ s \in gaveUp

AwaitedPassed ==
  /\ \A t \in Task : \A i \in DOMAIN Sups : i < turn[t] => Passed(Sups[i])
  /\ process = "exited" => \A s \in Sup : Passed(s)

ExitInv == ExitTypeOK /\ AckIsLast /\ AwaitedPassed

LEMMA SupsFacts ==
  /\ Len(Sups) \in Nat \ {0} /\ DOMAIN Sups = 1..Len(Sups)
  /\ Enabled \subseteq Sup
  /\ \A i \in DOMAIN Sups : i >= 1 /\ Sups[i] \in Sup
  /\ \A s \in Sup : \E i \in DOMAIN Sups : s = Sups[i]
<1>1. Len(Sups) \in Nat /\ DOMAIN Sups = 1..Len(Sups)
  BY SupsAssumption
<1>2. Len(Sups) # 0
  BY SupsAssumption
<1> QED
  BY <1>1, <1>2, EnabledAssumption DEF Sup

LEMMA ExitInitInv == ExitInit => ExitInv
<1> SUFFICES ASSUME ExitInit PROVE ExitInv
  OBVIOUS
<1>1. ExitTypeOK
  BY SupsFacts DEF ExitInit, ExitTypeOK
<1>2. AckIsLast
  BY SupsFacts DEF ExitInit, AckIsLast
<1>3. \A i \in DOMAIN Sups : ~(i < 0)
  <2> TAKE i \in DOMAIN Sups
  <2>1. i \in Nat /\ i >= 1
    BY SupsFacts
  <2> QED
    BY <2>1
<1>4. AwaitedPassed
  BY <1>3 DEF ExitInit, AwaitedPassed
<1> QED
  BY <1>1, <1>2, <1>4 DEF ExitInv

(* A supervisor's step: its ack follows a request and a deregistration.    *)
LEMMA SupStepInv ==
  ASSUME NEW s \in Enabled, ExitInv, SupStep(s)
  PROVE  ExitInv'
<1> USE SupsFacts DEF ExitInv, ExitTypeOK, watches, tasks, sups, Running, Become
<1>1. ExitTypeOK'
  <2>1. CASE GbStartFails(s) \/ BackoffOver(s) \/ WantSeen(s)
    BY <2>1 DEF GbStartFails, BackoffOver, WantSeen
  <2>2. CASE StartSucceeds(s)
    BY <2>2 DEF StartSucceeds
  <2>3. CASE ServerStops(s)
    BY <2>3 DEF ServerStops
  <2>4. CASE Deregistered(s)
    BY <2>4 DEF Deregistered
  <2> QED
    BY <2>1, <2>2, <2>3, <2>4 DEF SupStep
<1>2. /\ UNCHANGED <<exitWant, turn, gaveUp, process>>
      /\ \A u \in Sup : done[u] => done'[u]
  BY DEF SupStep, GbStartFails, BackoffOver, WantSeen, StartSucceeds, ServerStops, Deregistered
<1>3. AwaitedPassed'
  BY <1>2 DEF AwaitedPassed, Passed
<1>4. AckIsLast'
  <2>1. CASE GbStartFails(s) \/ BackoffOver(s) \/ WantSeen(s)
    BY <2>1 DEF GbStartFails, BackoffOver, WantSeen, AckIsLast
  <2>2. CASE StartSucceeds(s)
    BY <2>2 DEF StartSucceeds, AckIsLast
  <2>3. CASE ServerStops(s)
    BY <2>3 DEF ServerStops, AckIsLast
  <2>4. CASE Deregistered(s)
    BY <2>4 DEF Deregistered, AckIsLast
  <2> QED
    BY <2>1, <2>2, <2>3, <2>4 DEF SupStep
<1> QED
  BY <1>1, <1>3, <1>4

(* An exit task's step, or a signal: a supervisor is passed with its ack   *)
(* or is given up.                                                         *)
LEMMA AdvanceInv ==
  ASSUME NEW t \in Task, ExitInv, turn[t] > 0, Advance(t), UNCHANGED <<watches, sups, signal>>,
         gaveUp' \in {gaveUp, gaveUp \cup {Sups[turn[t]]}},
         done[Sups[turn[t]]] \/ Sups[turn[t]] \in gaveUp'
  PROVE  ExitInv'
<1> USE SupsFacts DEF ExitInv, watches, sups
<1>1. turn[t] \in DOMAIN Sups /\ turn[t] \in Nat
  BY DEF ExitTypeOK
<1>2. AckIsLast'
  BY DEF AckIsLast
<1>3. \A s \in Sup : Passed(s) => Passed(s)'
  BY DEF Passed
<1>4. \A s \in Sup : s = Sups[turn[t]] => Passed(s)'
  BY DEF Passed
<1>5. CASE turn[t] = Len(Sups)
  <2>1. process' = "exited" /\ turn' = turn
    BY <1>5 DEF Advance
  <2>2. \A i \in DOMAIN Sups : Passed(Sups[i])'
    <3> TAKE i \in DOMAIN Sups
    <3>1. CASE i = turn[t]
      BY <3>1, <1>4
    <3>2. CASE i # turn[t]
      BY <3>2, <1>3, <1>5 DEF AwaitedPassed
    <3> QED
      BY <3>1, <3>2
  <2>3. AwaitedPassed'
    BY <2>1, <2>2 DEF AwaitedPassed
  <2>4. ExitTypeOK'
    BY <1>1, <2>1 DEF ExitTypeOK
  <2> QED
    BY <1>2, <2>3, <2>4
<1>6. CASE turn[t] # Len(Sups)
  <2>1. process' = process /\ turn' = [turn EXCEPT ![t] = @ + 1]
    BY <1>6 DEF Advance
  <2>2. ExitTypeOK'
    BY <1>1, <1>6, <2>1 DEF ExitTypeOK
  <2>3. ASSUME NEW u \in Task, NEW i \in DOMAIN Sups, i < turn'[u]
        PROVE  Passed(Sups[i])'
    <3>1. CASE u = t /\ i = turn[t]
      BY <3>1, <1>4
    <3>2. CASE ~(u = t /\ i = turn[t])
      <4>1. i < turn[u]
        BY <1>1, <2>1, <2>3, <3>2 DEF ExitTypeOK
      <4> QED
        BY <4>1, <1>3 DEF AwaitedPassed
    <3> QED
      BY <3>1, <3>2
  <2>4. AwaitedPassed'
    BY <2>1, <2>3, <1>3 DEF AwaitedPassed
  <2> QED
    BY <1>2, <2>2, <2>4
<1> QED
  BY <1>5, <1>6

LEMMA ExitNextInv == ExitInv /\ [ExitNext]_exitVars => ExitInv'
<1> SUFFICES ASSUME ExitInv, [ExitNext]_exitVars PROVE ExitInv'
  OBVIOUS
<1>1. ASSUME NEW s \in Enabled, SupStep(s) PROVE ExitInv'
  BY <1>1, SupStepInv
<1>2. ASSUME NEW kind \in {"TERM", "INT"}, SignalArrives(kind) PROVE ExitInv'
  BY <1>2 DEF SignalArrives, ExitInv, ExitTypeOK, AckIsLast, AwaitedPassed, Passed,
              watches, sups
<1>3. ASSUME NEW t \in Task, Request(t) PROVE ExitInv'
  <2>1. ExitTypeOK' /\ AckIsLast'
    BY <1>3, SupsFacts DEF Request, ExitInv, ExitTypeOK, AckIsLast, sups, Running
  <2>2. AwaitedPassed'
    <3>1. \A u \in Task : turn'[u] = turn[u] \/ turn'[u] = 1
      BY <1>3 DEF Request, ExitInv, ExitTypeOK
    <3>2. \A i \in DOMAIN Sups : ~(i < 1)
      BY SupsFacts
    <3> QED
      BY <1>3, <3>1, <3>2 DEF Request, ExitInv, AwaitedPassed, Passed, sups, Running
  <2> QED
    BY <2>1, <2>2 DEF ExitInv
<1>4. ASSUME NEW t \in Task, ExitAcked(t) PROVE ExitInv'
  BY <1>4, AdvanceInv DEF ExitAcked, watches, sups
<1>5. ASSUME NEW t \in Task, WaitTimesOut(t) PROVE ExitInv'
  BY <1>5, AdvanceInv DEF WaitTimesOut, watches, sups
<1>6. CASE WebReturns
  BY <1>6 DEF WebReturns, ExitInv, ExitTypeOK, AckIsLast, AwaitedPassed, Passed,
              watches, sups
<1>7. CASE UNCHANGED exitVars
  BY <1>7 DEF exitVars, ExitInv, ExitTypeOK, AckIsLast, AwaitedPassed, Passed,
              watches, sups, tasks
<1> QED
  BY <1>1, <1>2, <1>3, <1>4, <1>5, <1>6, <1>7 DEF ExitNext, TaskStep

(* The exit waits for what it says it does: no supervisor acks an exit     *)
(* nobody asked for, and unless it was given up none is cut off in the     *)
(* middle of its first deregistration (src/src/main.rs, graceful_exit and  *)
(* the supervisors).                                                       *)
THEOREM NotCutShortAlways == ExitSpec => []NotCutShort
<1>1. ExitInv => NotCutShort
  BY SupsFacts DEF ExitInv, AckIsLast, AwaitedPassed, Passed, NotCutShort
<1> QED
  BY ExitInitInv, ExitNextInv, <1>1, PTL DEF ExitSpec

(***************************************************************************)
(* BrowserSeesAll, for any number of browsers and events.  It needs that   *)
(* the hub never loses a client whose browser is still there, whether or   *)
(* not its response was polled yet, and that a browser joined the          *)
(* broadcasts where it says it did.                                        *)
(***************************************************************************)
Events == 0..MaxAiEvents

StreamsOK ==
  /\ broadcasts \in Seq(Events)
  /\ channel \in [SseClient -> Seq(Events)] /\ shown \in [SseClient -> Seq(Events)]
  /\ joinedAt \in [SseClient -> Nat]

(* What a browser is at any moment, connected or not.                      *)
Listens(c) ==
  /\ joinedAt[c] <= Len(broadcasts)
  /\ stream[c] = "none" => channel[c] = <<>> /\ shown[c] = <<>>
  /\ Connected(c) => c \in hubClients

FanoutInv == FanoutTypeOK /\ StreamsOK /\ (\A c \in SseClient : Listens(c)) /\ BrowserSeesAll

LEMMA FanoutInitInv == FanoutInit => FanoutInv
<1> SUFFICES ASSUME FanoutInit PROVE FanoutInv
  OBVIOUS
<1>1. <<>> \in Seq(Events) /\ Len(<<>>) = 0
  OBVIOUS
<1>2. StreamsOK /\ \A c \in SseClient : Listens(c)
  BY <1>1 DEF FanoutInit, StreamsOK, Listens, Connected
<1>3. FanoutTypeOK
  <2>1. \A c \in SseClient : channel[c] = <<>> /\ shown[c] = <<>>
    BY DEF FanoutInit
  <2>2. joinedAt \in [SseClient -> 0..Len(broadcasts)]
    BY <1>1 DEF FanoutInit
  <2>3. published \in 0..MaxAiEvents /\ bridgePos \in 1..published + 1
    BY FanoutAssumption DEF FanoutInit
  <2>4. /\ hubClients \subseteq {c \in SseClient : stream[c] # "none"}
        /\ stream \in [SseClient -> {"none", "unpolled", "streaming", "gone"}]
    BY DEF FanoutInit
  <2>5. {channel[c] : c \in SseClient} \cup {shown[c] : c \in SseClient} \subseteq Seq(Events)
    BY <1>1, <2>1
  <2> QED
    BY <2>2, <2>3, <2>4, <2>5 DEF FanoutTypeOK, Events
<1>4. BrowserSeesAll
  BY DEF FanoutInit, BrowserSeesAll, Connected
<1> QED
  BY <1>2, <1>3, <1>4 DEF FanoutInv

(* One more event at the end of what was broadcast since a browser joined. *)
LEMMA SubSeqGrows ==
  ASSUME NEW S, NEW s \in Seq(S), NEW e \in S, NEW a \in Nat, a <= Len(s)
  PROVE  SubSeq(Append(s, e), a + 1, Len(s) + 1)
           = Append(SubSeq(s, a + 1, Len(s)), e)
<1> DEFINE n == Len(s)
           t == Append(s, e)
           u == SubSeq(s, a + 1, n)
           v == SubSeq(t, a + 1, n + 1)
<1>1. n \in Nat /\ t \in Seq(S) /\ Len(t) = n + 1 /\ t[n + 1] = e
      /\ \A i \in 1..n : t[i] = s[i] /\ s[i] \in S
  BY AppendProperties
<1> HIDE DEF t, n
<1>2. \A i \in (a + 1)..n : s[i] \in S
  BY <1>1
<1>3. /\ u \in Seq(S) /\ Len(u) = (IF a + 1 <= n THEN n - (a + 1) + 1 ELSE 0)
      /\ \A i \in 1..(n - (a + 1) + 1) : u[i] = s[a + 1 + i - 1]
  BY <1>1, <1>2, SubSeqProperties
<1>4. \A i \in (a + 1)..(n + 1) : t[i] \in S
  BY <1>1
<1>5. /\ v \in Seq(S) /\ Len(v) = (IF a + 1 <= n + 1 THEN n + 1 - (a + 1) + 1 ELSE 0)
      /\ \A i \in 1..(n + 1 - (a + 1) + 1) : v[i] = t[a + 1 + i - 1]
  BY <1>1, <1>4, SubSeqProperties
<1>6. a <= n
  BY DEF n
<1> HIDE DEF u, v
<1>7. Len(u) = n - a /\ Len(v) = n - a + 1
  BY <1>1, <1>3, <1>5, <1>6
<1>8. /\ Append(u, e) \in Seq(S) /\ Len(Append(u, e)) = n - a + 1
      /\ \A i \in 1..(n - a) : Append(u, e)[i] = u[i]
      /\ Append(u, e)[n - a + 1] = e
  BY <1>3, <1>7, AppendProperties
<1>9. ASSUME NEW i \in 1..(n - a + 1) PROVE v[i] = Append(u, e)[i]
  <2>1. CASE i \in 1..(n - a)
    <3>1. v[i] = t[a + i] /\ u[i] = s[a + i] /\ a + i \in 1..n
      BY <1>1, <1>3, <1>5, <1>6, <2>1
    <3> QED
      BY <1>1, <1>8, <2>1, <3>1
  <2>2. CASE i = n - a + 1
    <3>1. v[i] = t[n + 1]
      BY <1>1, <1>5, <1>6, <2>2
    <3> QED
      BY <1>1, <1>8, <2>2, <3>1
  <2>3. i \in 1..(n - a) \/ i = n - a + 1
    <3>1. PICK m \in Nat : m = n - a
      BY <1>1, <1>6
    <3>2. \A j \in 1..(m + 1) : j \in 1..m \/ j = m + 1
      OBVIOUS
    <3> QED
      BY <3>1, <3>2, <1>9
  <2> QED
    BY <2>1, <2>2, <2>3
<1>10. v = Append(u, e)
  BY <1>5, <1>7, <1>8, <1>9, SeqEqual
<1> QED
  BY <1>10 DEF u, v, t, n

LEMMA ConcatGrows ==
  ASSUME NEW S, NEW s \in Seq(S), NEW t \in Seq(S), NEW e \in S
  PROVE  s \o Append(t, e) = Append(s \o t, e)
<1>1. <<e>> \in Seq(S) /\ s \o t \in Seq(S)
  OBVIOUS
<1>2. Append(t, e) = t \o <<e>> /\ Append(s \o t, e) = (s \o t) \o <<e>>
  BY <1>1, AppendIsConcat
<1> QED
  BY <1>1, <1>2, ConcatAssociative

LEMMA ConcatMoves ==
  ASSUME NEW S, NEW s \in Seq(S), NEW t \in Seq(S), t # <<>>
  PROVE  Append(s, Head(t)) \o Tail(t) = s \o t
<1> DEFINE p == Append(s, Head(t))
           l == p \o Tail(t)
           r == s \o t
<1>1. Head(t) = t[1] /\ t[1] \in S /\ Tail(t) \in Seq(S) /\ Len(Tail(t)) = Len(t) - 1
      /\ \A i \in 1..(Len(t) - 1) : Tail(t)[i] = t[i + 1]
  OBVIOUS
<1>2. /\ p \in Seq(S) /\ Len(p) = Len(s) + 1 /\ p[Len(s) + 1] = t[1]
      /\ \A i \in 1..Len(s) : p[i] = s[i]
  BY <1>1, AppendProperties
<1> HIDE DEF p
<1>3. /\ l \in Seq(S) /\ Len(l) = Len(p) + Len(Tail(t))
      /\ \A i \in 1..(Len(p) + Len(Tail(t))) :
           l[i] = IF i <= Len(p) THEN p[i] ELSE Tail(t)[i - Len(p)]
  BY <1>1, <1>2, ConcatProperties
<1>4. /\ r \in Seq(S) /\ Len(r) = Len(s) + Len(t)
      /\ \A i \in 1..(Len(s) + Len(t)) : r[i] = IF i <= Len(s) THEN s[i] ELSE t[i - Len(s)]
  BY ConcatProperties
<1> HIDE DEF l, r
<1>5. Len(s) \in Nat /\ Len(t) \in Nat /\ Len(t) >= 1
  OBVIOUS
<1>6. ASSUME NEW i \in 1..(Len(s) + Len(t)) PROVE l[i] = r[i]
  <2>1. CASE i <= Len(s)
    BY SMTT(30), <1>1, <1>2, <1>3, <1>4, <1>5, <2>1
  <2>2. CASE i = Len(s) + 1
    BY <1>1, <1>2, <1>3, <1>4, <1>5, <2>2
  <2>3. CASE i > Len(s) + 1
    <3>1. l[i] = Tail(t)[i - Len(p)]
      BY <1>1, <1>2, <1>3, <1>5, <2>3
    <3>2. r[i] = t[i - Len(s)]
      BY <1>4, <1>5, <2>3
    <3>3. i - Len(p) \in 1..(Len(t) - 1) /\ i - Len(p) + 1 = i - Len(s)
      BY <1>2, <1>5, <2>3
    <3> QED
      BY <1>1, <3>1, <3>2, <3>3
  <2> QED
    BY <1>5, <2>1, <2>2, <2>3
<1>7. l = r
  BY <1>1, <1>2, <1>3, <1>4, <1>5, <1>6, SeqEqual
<1> QED
  BY <1>7 DEF l, r, p

(* Every browser that is there gets the event and none of them leaves.     *)
LEMMA BroadcastInv ==
  ASSUME FanoutInv, NEW e \in Events, Broadcast(e), UNCHANGED <<stream, shown, joinedAt>>,
         published' \in 0..MaxAiEvents, bridgePos' \in 1..published' + 1
  PROVE  FanoutInv'
<1> USE DEF FanoutInv
<1>1. /\ broadcasts \in Seq(Events) /\ broadcasts' = Append(broadcasts, e)
      /\ channel \in [SseClient -> Seq(Events)] /\ shown \in [SseClient -> Seq(Events)]
      /\ joinedAt \in [SseClient -> Nat]
      /\ channel' = [c \in SseClient |->
                       IF c \in hubClients /\ Connected(c) THEN Append(channel[c], e)
                       ELSE channel[c]]
      /\ hubClients' = {c \in hubClients : Connected(c)}
  BY DEF StreamsOK, Broadcast
<1>2. /\ broadcasts' \in Seq(Events) /\ Len(broadcasts') = Len(broadcasts) + 1
      /\ Len(broadcasts) \in Nat
  BY <1>1
<1>3. \A c \in SseClient : Append(channel[c], e) \in Seq(Events)
  BY <1>1
<1>4. channel' \in [SseClient -> Seq(Events)]
  BY <1>1, <1>3
<1>5. StreamsOK'
  BY <1>1, <1>2, <1>4 DEF StreamsOK
<1>6. ASSUME NEW c \in SseClient PROVE Listens(c)'
  BY <1>1, <1>2 DEF Listens, Connected
<1>7. FanoutTypeOK'
  <2>1. {channel'[c] : c \in SseClient} \cup {shown'[c] : c \in SseClient} \subseteq Seq(Events)
    BY <1>1, <1>4
  <2>2. joinedAt' \in [SseClient -> 0..Len(broadcasts')]
    BY <1>1, <1>2 DEF FanoutTypeOK
  <2>3. hubClients' \subseteq {c \in SseClient : stream'[c] # "none"}
    BY <1>1 DEF FanoutTypeOK
  <2> QED
    BY <2>1, <2>2, <2>3 DEF FanoutTypeOK, Events
<1>8. ASSUME NEW c \in SseClient, Connected(c)
      PROVE  shown[c] \o channel'[c]
               = SubSeq(broadcasts', joinedAt[c] + 1, Len(broadcasts'))
  <2>1. channel'[c] = Append(channel[c], e)
    BY <1>1, <1>8 DEF Listens
  <2>2. shown[c] \o Append(channel[c], e) = Append(shown[c] \o channel[c], e)
    BY <1>1, ConcatGrows
  <2>3. Append(SubSeq(broadcasts, joinedAt[c] + 1, Len(broadcasts)), e)
          = SubSeq(broadcasts', joinedAt[c] + 1, Len(broadcasts) + 1)
    <3>1. joinedAt[c] \in Nat /\ joinedAt[c] <= Len(broadcasts)
      BY <1>1 DEF Listens
    <3> QED
      BY <1>1, <3>1, SubSeqGrows
  <2> QED
    BY <1>2, <1>8, <2>1, <2>2, <2>3 DEF BrowserSeesAll
<1>9. BrowserSeesAll'
  BY <1>8 DEF BrowserSeesAll, Connected
<1> QED
  BY <1>5, <1>6, <1>7, <1>9

(* Nothing is broadcast: one browser changes, or none.                     *)
LEMMA BrowserInv ==
  ASSUME FanoutInv, NEW c \in SseClient, UNCHANGED <<published, bridgePos, broadcasts>>,
         Subscribe(c) \/ FirstPoll(c) \/ Deliver(c) \/ Disconnect(c)
  PROVE  FanoutInv'
<1> USE DEF FanoutInv
<1>1. /\ broadcasts \in Seq(Events) /\ Len(broadcasts) \in Nat
      /\ channel \in [SseClient -> Seq(Events)] /\ shown \in [SseClient -> Seq(Events)]
      /\ joinedAt \in [SseClient -> Nat]
      /\ stream \in [SseClient -> {"none", "unpolled", "streaming", "gone"}]
  BY DEF StreamsOK, FanoutTypeOK
<1>2. \A d \in SseClient : d # c =>
        /\ stream'[d] = stream[d] /\ channel'[d] = channel[d] /\ shown'[d] = shown[d]
        /\ joinedAt'[d] = joinedAt[d] /\ (d \in hubClients' <=> d \in hubClients)
  BY <1>1 DEF Subscribe, FirstPoll, Deliver, Disconnect
<1>3. \A d \in SseClient : d # c =>
        /\ Listens(d)'
        /\ Connected(d)' => shown'[d] \o channel'[d]
                              = SubSeq(broadcasts', joinedAt'[d] + 1, Len(broadcasts'))
  BY <1>2 DEF Listens, Connected, BrowserSeesAll
<1>4. SUFFICES /\ StreamsOK' /\ FanoutTypeOK' /\ Listens(c)'
               /\ Connected(c)' => shown'[c] \o channel'[c]
                                     = SubSeq(broadcasts', joinedAt'[c] + 1, Len(broadcasts'))
  BY <1>3 DEF BrowserSeesAll
<1>5. ASSUME StreamsOK' PROVE {channel'[d] : d \in SseClient} \cup {shown'[d] : d \in SseClient}
                                \subseteq Seq(Events)
  BY <1>5 DEF StreamsOK
<1>6. CASE Subscribe(c)
  <2>1. /\ stream[c] = "none" /\ stream'[c] = "unpolled" /\ c \in hubClients'
        /\ joinedAt' = [joinedAt EXCEPT ![c] = Len(broadcasts)]
        /\ channel' = channel /\ shown' = shown
    BY <1>1, <1>6 DEF Subscribe
  <2>2. StreamsOK'
    BY <1>1, <2>1 DEF StreamsOK
  <2>3. FanoutTypeOK'
    <3>1. hubClients' \subseteq {d \in SseClient : stream'[d] # "none"}
      BY <1>1, <1>6 DEF Subscribe, FanoutTypeOK
    <3>2. joinedAt' \in [SseClient -> 0..Len(broadcasts')]
      BY <1>1, <2>1 DEF FanoutTypeOK
    <3> QED
      BY <1>1, <1>5, <1>6, <2>2, <3>1, <3>2 DEF Subscribe, FanoutTypeOK, Events
  <2>4. Listens(c)'
    BY <1>1, <2>1 DEF Listens, Connected
  <2>5. shown'[c] \o channel'[c] = <<>>
    BY <2>1 DEF Listens
  <2>6. SubSeq(broadcasts', joinedAt'[c] + 1, Len(broadcasts')) = <<>>
    BY <1>1, <2>1, SubSeqEmpty
  <2> QED
    BY <2>2, <2>3, <2>4, <2>5, <2>6
<1>7. CASE FirstPoll(c)
  <2>1. /\ stream[c] = "unpolled" /\ stream' = [stream EXCEPT ![c] = "streaming"]
        /\ UNCHANGED <<hubClients, joinedAt, channel, shown>>
    BY <1>7 DEF FirstPoll
  <2>2. StreamsOK' /\ FanoutTypeOK'
    BY <1>1, <2>1 DEF StreamsOK, FanoutTypeOK
  <2> QED
    BY <1>1, <2>1, <2>2 DEF Listens, Connected, BrowserSeesAll
<1>8. CASE Deliver(c)
  <2>1. /\ stream[c] = "streaming" /\ channel[c] # <<>>
        /\ shown' = [shown EXCEPT ![c] = Append(shown[c], Head(channel[c]))]
        /\ channel' = [channel EXCEPT ![c] = Tail(channel[c])]
        /\ UNCHANGED <<hubClients, stream, joinedAt>>
    BY <1>8 DEF Deliver
  <2>2. /\ channel[c] \in Seq(Events) /\ shown[c] \in Seq(Events)
        /\ Append(shown[c], Head(channel[c])) \in Seq(Events) /\ Tail(channel[c]) \in Seq(Events)
    BY <1>1, <2>1
  <2>3. StreamsOK'
    BY <1>1, <2>1, <2>2 DEF StreamsOK
  <2>4. FanoutTypeOK'
    BY <1>5, <2>1, <2>3 DEF FanoutTypeOK, Events
  <2>5. shown'[c] \o channel'[c] = shown[c] \o channel[c]
    BY <1>1, <2>1, <2>2, ConcatMoves
  <2> QED
    BY <2>1, <2>3, <2>4, <2>5 DEF Listens, Connected, BrowserSeesAll
<1>9. CASE Disconnect(c)
  <2>1. /\ stream' = [stream EXCEPT ![c] = "gone"] /\ stream'[c] = "gone"
        /\ channel' = [channel EXCEPT ![c] = <<>>] /\ hubClients' \subseteq hubClients
        /\ UNCHANGED <<shown, joinedAt>>
    BY <1>1, <1>9 DEF Disconnect
  <2>2. StreamsOK'
    BY <1>1, <2>1 DEF StreamsOK
  <2>3. FanoutTypeOK'
    BY <1>1, <1>5, <2>1, <2>2 DEF FanoutTypeOK, Events
  <2> QED
    BY <2>1, <2>2, <2>3 DEF Listens, Connected
<1> QED
  BY <1>6, <1>7, <1>8, <1>9

LEMMA FanoutNextInv == FanoutInv /\ [FanoutNext]_fanoutVars => FanoutInv'
<1> SUFFICES ASSUME FanoutInv, [FanoutNext]_fanoutVars PROVE FanoutInv'
  OBVIOUS
<1>1. published \in 0..MaxAiEvents /\ bridgePos \in 1..published + 1
  BY DEF FanoutInv, FanoutTypeOK
<1>2. ASSUME UNCHANGED <<hubClients, stream, channel, shown, broadcasts, joinedAt>>,
             published' \in 0..MaxAiEvents, bridgePos' \in 1..published' + 1
      PROVE  FanoutInv'
  BY <1>2 DEF FanoutInv, FanoutTypeOK, StreamsOK, Listens, BrowserSeesAll, Connected
<1>3. CASE Publish
  BY <1>1, <1>2, <1>3, FanoutAssumption DEF Publish
<1>4. CASE BridgeReceives
  BY <1>1, <1>4, BroadcastInv, FanoutAssumption DEF BridgeReceives, Events
<1>5. CASE BridgeLagged
  <2>1. Oldest \in 1..published + 1
    BY <1>1, FanoutAssumption DEF Oldest
  <2> QED
    BY <1>1, <1>2, <1>5, <2>1 DEF BridgeLagged
<1>6. CASE HandlerBroadcasts
  BY <1>1, <1>6, BroadcastInv, FanoutAssumption DEF HandlerBroadcasts, Events
<1>7. ASSUME NEW c \in SseClient, Subscribe(c) \/ FirstPoll(c) \/ Deliver(c) \/ Disconnect(c)
      PROVE  FanoutInv'
  <2>1. UNCHANGED <<published, bridgePos, broadcasts>>
    BY <1>7 DEF Subscribe, FirstPoll, Deliver, Disconnect
  <2> QED
    BY <1>7, <2>1, BrowserInv
<1>8. CASE UNCHANGED fanoutVars
  BY <1>1, <1>2, <1>8 DEF fanoutVars
<1> QED
  BY <1>3, <1>4, <1>5, <1>6, <1>7, <1>8 DEF FanoutNext

(* A connected browser gets exactly what was broadcast since it asked, in  *)
(* order (src/src/web/events.rs, EventHub and events_handler).             *)
THEOREM BrowserSeesAllAlways == FanoutSpec => []BrowserSeesAll
<1>1. FanoutInv => BrowserSeesAll
  BY DEF FanoutInv
<1> QED
  BY FanoutInitInv, FanoutNextInv, <1>1, PTL DEF FanoutSpec

(***************************************************************************)
(* SavedIsRunning, for any requests, passwords and environment.  As long   *)
(* as the process is not shaky at most one request is under way, and the   *)
(* invariant says for each step of it what the file holds and what memory  *)
(* will hold: the file is what memory will be told, or memory is what the  *)
(* file will be told.                                                      *)
(***************************************************************************)
Handlers == [at : {"idle", "open", "write", "store"}, op : Ops, doc : Document,
             mixed : BOOLEAN]

(* What GET /api/config shows of a document.                               *)
Masked(doc) == [doc EXCEPT !.password = IF @ = Unset THEN @ ELSE Mask]

ConfTypes ==
  /\ conf \in Document /\ fileDoc \in Document \cup {Torn}
  /\ creq \in [WebReq -> Handlers] /\ lock \in WebReq \cup {"free"}
  /\ held = NoDoc \/ \E doc \in Document : held = Masked(doc)
  /\ webOps \in 0..MaxWebOps /\ webRestarts \in 0..MaxWebRestarts
  /\ shaky \in BOOLEAN

Agrees == fileDoc # Torn /\ WithEnv(fileDoc) = WithEnv(conf)

(* Where the only request under way stands.                                *)
OneAtATime ==
  ~shaky =>
    /\ \A q, r \in WebReq : AtStep(q, "idle") \/ AtStep(r, "idle") \/ q = r
    /\ Quiet => Agrees
    /\ \A r \in WebReq :
         /\ ~AtStep(r, "idle") => ~creq[r].mixed
         /\ AtStep(r, "store") => fileDoc = creq[r].doc
         /\ AtStep(r, "open") \/ AtStep(r, "write")
              => creq[r].op \in StoresAfter \/ creq[r].doc = conf

ConfInv == ConfTypes /\ OneAtATime

(* Documents.                                                              *)
LEMMA FieldValues ==
  /\ Values["password"] = Passwords \cup {Unset} /\ Values["recording"] = {"on", "off"}
  /\ Values["segments"] = {"60s", "30s"} /\ Values["misc"] = {"in range", "out of range"}
BY DEF Values

LEMMA DocumentFields ==
  ASSUME NEW doc \in Document
  PROVE  DOMAIN doc = Field /\ \A f \in Field : doc[f] \in Values[f]
<1>1. /\ doc.password \in Values.password /\ doc.recording \in Values.recording
      /\ doc.segments \in Values.segments /\ doc.misc \in Values.misc
      /\ DOMAIN doc = {"password", "recording", "segments", "misc"}
  BY DEF Document
<1> QED
  BY <1>1 DEF Field

LEMMA DocumentOf ==
  ASSUME NEW doc, doc = [f \in Field |-> doc[f]], \A f \in Field : doc[f] \in Values[f]
  PROVE  doc \in Document
<1>1. /\ doc.password \in Values.password /\ doc.recording \in Values.recording
      /\ doc.segments \in Values.segments /\ doc.misc \in Values.misc
  BY DEF Field
<1>2. doc = [password |-> doc.password, recording |-> doc.recording,
             segments |-> doc.segments, misc |-> doc.misc]
  BY DEF Field
<1> QED
  BY <1>1, <1>2 DEF Document

LEMMA DefaultsDocument == Defaults \in Document
BY DEF Defaults, Document, Values, Unset

LEMMA DocumentParses == ASSUME NEW doc \in Document PROVE doc # Torn
BY DEF Document, Torn, Values, Field

LEMMA OverrideDocument ==
  ASSUME NEW doc \in Document, NEW patch,
         \A f \in DOMAIN patch : f \in Field => patch[f] \in Values[f]
  PROVE  Override(doc, patch) \in Document
<1> DEFINE new == [f \in Field |-> IF f \in DOMAIN patch THEN patch[f] ELSE doc[f]]
<1>1. \A f \in Field : new[f] \in Values[f]
  BY DocumentFields
<1>2. new = [f \in Field |-> new[f]]
  OBVIOUS
<1> HIDE DEF new
<1>3. new \in Document
  BY <1>1, <1>2, DocumentOf
<1> QED
  BY <1>3 DEF Override, new

LEMMA EnvDocument ==
  ASSUME NEW doc \in Document
  PROVE  WithEnv(doc) \in Document /\ WithEnv(WithEnv(doc)) = WithEnv(doc)
<1>1. WithEnv(doc) \in Document
  BY OverrideDocument, ConfAssumption DEF WithEnv
<1>2. WithEnv(WithEnv(doc)) = WithEnv(doc)
  BY DEF WithEnv, Override
<1> QED
  BY <1>1, <1>2

LEMMA PatchDocument ==
  ASSUME ConfTypes, NEW body \in Bodies
  PROVE  Override(conf, Unmask(body, conf)) \in Document
<1> DEFINE patch == Unmask(body, conf)
<1>1. conf \in Document /\ conf["password"] \in Values["password"]
  BY DocumentFields DEF ConfTypes, Field
<1>2. SUFFICES \A f \in DOMAIN patch : f \in Field => patch[f] \in Values[f]
  BY <1>1, OverrideDocument
<1>3. CASE \E f \in Field : body \in [{f} -> Values[f]]
  BY <1>1, <1>3 DEF Unmask
<1>4. CASE body = held /\ held # NoDoc
  <2>1. PICK doc \in Document : body = Masked(doc)
    BY <1>4 DEF ConfTypes
  <2>2. DOMAIN doc = Field /\ \A f \in Field : doc[f] \in Values[f]
    BY DocumentFields
  <2>3. /\ DOMAIN body = Field /\ \A f \in Field : f # "password" => body[f] = doc[f]
        /\ body["password"] = (IF doc["password"] = Unset THEN Unset ELSE Mask)
    BY <2>1, <2>2 DEF Masked, Field
  <2>4. body["password"] = Mask \/ body["password"] \in Values["password"]
    BY <2>3, FieldValues
  <2> QED
    BY <1>1, <2>2, <2>3, <2>4 DEF Unmask
<1>5. (\E f \in Field : body \in [{f} -> Values[f]]) \/ (body = held /\ held # NoDoc)
  <2>1. CASE body \in UNION {[{f} -> Values[f]] : f \in Field}
    BY <2>1
  <2>2. CASE body \in (IF held = NoDoc THEN {} ELSE {held})
    BY <2>2
  <2> QED
    BY <2>1, <2>2 DEF Bodies
<1> QED
  BY <1>3, <1>4, <1>5

LEMMA ConfInitInv == ConfInit => ConfInv
<1> SUFFICES ASSUME ConfInit PROVE ConfInv
  OBVIOUS
<1> DEFINE chosen == CHOOSE p \in Passwords : TRUE
<1>1. chosen \in Passwords
  BY ConfAssumption
<1> HIDE DEF chosen
<1>2. [Defaults EXCEPT !.password = chosen] \in Document
  BY <1>1 DEF Defaults, Document, Values
<1>3. conf \in Document /\ fileDoc = conf
  BY <1>2, EnvDocument DEF ConfInit, chosen
<1>4. IdleHandler \in Handlers /\ IdleHandler.at = "idle"
  BY DefaultsDocument DEF IdleHandler, Handlers, Ops
<1>5. creq = [r \in WebReq |-> IdleHandler]
  BY DEF ConfInit
<1>6. ConfTypes
  <2>1. creq \in [WebReq -> Handlers]
    BY <1>4, <1>5
  <2>2. webOps \in 0..MaxWebOps /\ webRestarts \in 0..MaxWebRestarts
    BY ConfAssumption DEF ConfInit
  <2>3. held = NoDoc /\ lock = "free" /\ shaky = FALSE
    BY DEF ConfInit
  <2> QED
    BY <1>3, <2>1, <2>2, <2>3 DEF ConfTypes
<1>7. \A r \in WebReq : AtStep(r, "idle")
  BY <1>4, <1>5 DEF AtStep
<1>8. Agrees
  BY <1>3, DocumentParses DEF Agrees
<1>9. OneAtATime
  BY <1>7, <1>8 DEF OneAtATime, AtStep
<1> QED
  BY <1>6, <1>9 DEF ConfInv

(* A handler that starts is the only one, or the process is shaky.         *)
LEMMA HandleInv ==
  ASSUME ConfInv, NEW r \in WebReq, NEW op \in Ops, NEW doc \in Document,
         Handle(r, op, doc), conf' \in Document, lock' \in WebReq \cup {"free"},
         op \in StoresAfter \/ doc = conf'
  PROVE  ConfInv'
<1> DEFINE h == [at |-> "open", op |-> op, doc |-> doc, mixed |-> FALSE]
<1>1. /\ creq \in [WebReq -> Handlers] /\ creq' = [creq EXCEPT ![r] = h]
      /\ fileDoc' = fileDoc /\ held' = held /\ webRestarts' = webRestarts
      /\ shaky' = (shaky \/ \E q \in WebReq \ {r} : ~AtStep(q, "idle"))
      /\ webOps < MaxWebOps /\ webOps' = webOps + 1 /\ AtStep(r, "idle")
  BY DEF ConfInv, ConfTypes, Handle
<1>2. h \in Handlers /\ h.at = "open" /\ h.op = op /\ h.doc = doc /\ h.mixed = FALSE
  BY DEF Handlers
<1> HIDE DEF h
<1>3. creq' \in [WebReq -> Handlers] /\ creq'[r] = h /\ \A q \in WebReq \ {r} : creq'[q] = creq[q]
  BY <1>1, <1>2
<1>4. shaky' \in BOOLEAN
  BY <1>1 DEF ConfInv, ConfTypes
<1>5. webOps' \in 0..MaxWebOps
  BY <1>1, ConfAssumption DEF ConfInv, ConfTypes
<1>6. ConfTypes'
  BY <1>1, <1>3, <1>4, <1>5 DEF ConfInv, ConfTypes
<1>7. OneAtATime'
  <2> SUFFICES ASSUME ~shaky' PROVE /\ \A q \in WebReq \ {r} : creq'[q].at = "idle"
                                    /\ creq'[r] = h
    BY <1>2 DEF OneAtATime, AtStep, Quiet
  <2>1. \A q \in WebReq \ {r} : AtStep(q, "idle")
    BY <1>1
  <2> QED
    BY <1>3, <2>1 DEF AtStep
<1> QED
  BY <1>6, <1>7 DEF ConfInv

(* A step of the handler that is under way.                                *)
LEMMA PersistInv ==
  ASSUME ConfInv, NEW r \in WebReq, Open(r) \/ WriteFile(r) \/ StoreConf(r)
  PROVE  ConfInv'
<1>1. /\ conf \in Document /\ fileDoc \in Document \cup {Torn}
      /\ creq \in [WebReq -> Handlers] /\ lock \in WebReq \cup {"free"}
      /\ shaky \in BOOLEAN /\ creq[r] \in Handlers /\ ~AtStep(r, "idle")
      /\ creq[r].doc \in Document /\ creq[r].op \in Ops
      /\ UNCHANGED <<held, webOps, webRestarts>>
  BY DEF ConfInv, ConfTypes, Open, WriteFile, StoreConf, AtStep, Handlers
<1>2. IdleHandler \in Handlers /\ IdleHandler.at = "idle"
  BY DefaultsDocument DEF IdleHandler, Handlers, Ops
<1>3. \A q \in WebReq : creq[q] \in Handlers
  BY <1>1
<1>4. ~shaky => \A q \in WebReq : q # r => AtStep(q, "idle")
  BY <1>1 DEF ConfInv, OneAtATime
<1>5. CASE Open(r)
  <2>1. CASE fileDoc' = Torn /\ creq' = [creq EXCEPT ![r].at = "write"] /\ UNCHANGED <<lock, shaky>>
    <3>1. creq'[r] \in Handlers /\ creq'[r] = [creq[r] EXCEPT !.at = "write"]
      BY <1>1, <2>1 DEF Handlers
    <3>2. /\ creq' \in [WebReq -> Handlers]
          /\ \A q \in WebReq : q # r => creq'[q] = creq[q]
      BY <1>1, <2>1, <3>1
    <3>3. ConfTypes'
      BY <1>1, <1>5, <2>1, <3>2 DEF ConfInv, ConfTypes, Open
    <3>4. AtStep(r, "open") /\ conf' = conf
      BY <1>5 DEF Open
    <3>5. creq'[r].at = "write" /\ creq'[r].op = creq[r].op /\ creq'[r].doc = creq[r].doc
          /\ creq'[r].mixed = creq[r].mixed
      BY <1>1, <3>1 DEF Handlers
    <3>6. OneAtATime'
      BY <1>1, <1>4, <2>1, <3>2, <3>4, <3>5 DEF ConfInv, OneAtATime, AtStep, Quiet
    <3> QED
      BY <3>3, <3>6 DEF ConfInv
  <2>2. CASE /\ Finish(r) /\ lock' = (IF lock = r THEN "free" ELSE lock)
             /\ shaky' = TRUE /\ UNCHANGED fileDoc
    <3>1. creq' \in [WebReq -> Handlers]
      BY <1>1, <1>2, <2>2 DEF Finish
    <3>2. lock' \in WebReq \cup {"free"}
      BY <1>1, <2>2
    <3>3. ConfTypes'
      BY <1>1, <1>5, <2>2, <3>1, <3>2 DEF ConfInv, ConfTypes, Open
    <3>4. OneAtATime'
      BY <2>2 DEF OneAtATime
    <3> QED
      BY <3>3, <3>4 DEF ConfInv
  <2> QED
    BY <1>5, <2>1, <2>2 DEF Open
<1>6. CASE WriteFile(r)
  <2> DEFINE written(ok) == IF ok /\ creq[r].op \in StoresAfter
                           THEN [creq EXCEPT ![r].at = "store"]
                           ELSE [creq EXCEPT ![r] = IdleHandler]
  <2>1. PICK ok \in BOOLEAN, torn \in {FALSE, creq[r].mixed} :
          /\ fileDoc' = IF ok /\ ~torn THEN creq[r].doc ELSE Torn
          /\ shaky' = (shaky \/ ~ok)
          /\ creq' = [q \in WebReq |->
                        IF q # r /\ AtStep(q, "write") THEN [written(ok)[q] EXCEPT !.mixed = TRUE]
                        ELSE written(ok)[q]]
    BY <1>6 DEF WriteFile, Outcomes
  <2>2. /\ conf' = conf /\ lock' = (IF lock = r THEN "free" ELSE lock) /\ AtStep(r, "write")
    BY <1>6 DEF WriteFile
  <2>3. creq'[r] = IF ok /\ creq[r].op \in StoresAfter
                     THEN [creq[r] EXCEPT !.at = "store"] ELSE IdleHandler
    BY <1>1, <2>1
  <2>4. \A q \in WebReq : q # r => creq'[q] = IF AtStep(q, "write")
                                                THEN [creq[q] EXCEPT !.mixed = TRUE]
                                                ELSE creq[q]
    BY <1>1, <2>1
  <2> HIDE DEF written
  <2>5. [creq[r] EXCEPT !.at = "store"] \in Handlers
    BY <1>1 DEF Handlers
  <2>6. \A q \in WebReq : [creq[q] EXCEPT !.mixed = TRUE] \in Handlers
    BY <1>3 DEF Handlers
  <2>7. \A q \in WebReq : creq'[q] \in Handlers
    BY <1>2, <1>3, <2>3, <2>4, <2>5, <2>6
  <2>8. creq' = [q \in WebReq |-> creq'[q]]
    BY <2>1
  <2>9. creq' \in [WebReq -> Handlers]
    BY <2>7, <2>8
  <2>10. /\ fileDoc' \in Document \cup {Torn} /\ lock' \in WebReq \cup {"free"}
         /\ shaky' \in BOOLEAN
    BY <1>1, <2>1, <2>2
  <2>11. ConfTypes'
    BY <1>1, <2>2, <2>9, <2>10 DEF ConfInv, ConfTypes
  <2>12. ASSUME ~shaky' PROVE OneAtATime'
    <3>1. ~shaky /\ ok /\ ~torn /\ fileDoc' = creq[r].doc
      BY <1>1, <2>1, <2>12 DEF ConfInv, OneAtATime
    <3>2. \A q \in WebReq : q # r => creq'[q] = creq[q] /\ creq'[q].at = "idle"
      BY <1>4, <2>4, <3>1 DEF AtStep
    <3>3. CASE creq[r].op \in StoresAfter
      <4>1. creq'[r] = [creq[r] EXCEPT !.at = "store"]
        BY <2>3, <3>1, <3>3
      <4>2. creq'[r].at = "store" /\ creq'[r].doc = creq[r].doc /\ creq'[r].mixed = creq[r].mixed
        BY <1>1, <4>1 DEF Handlers
      <4>3. ~creq[r].mixed
        BY <1>1, <3>1 DEF ConfInv, OneAtATime
      <4> QED
        BY <3>1, <3>2, <4>2, <4>3 DEF OneAtATime, AtStep, Quiet
    <3>4. CASE creq[r].op \notin StoresAfter
      <4>1. creq'[r].at = "idle" /\ creq[r].doc = conf
        BY <1>2, <2>2, <2>3, <3>1, <3>4 DEF ConfInv, OneAtATime
      <4>2. Agrees'
        BY <1>1, <2>2, <3>1, <4>1, DocumentParses DEF Agrees
      <4> QED
        BY <3>2, <4>1, <4>2 DEF OneAtATime, AtStep, Quiet
    <3> QED
      BY <3>3, <3>4
  <2> QED
    BY <2>11, <2>12 DEF ConfInv, OneAtATime
<1>7. CASE StoreConf(r)
  <2>1. /\ AtStep(r, "store") /\ conf' = creq[r].doc /\ Finish(r)
        /\ UNCHANGED <<fileDoc, lock, shaky>>
    BY <1>7 DEF StoreConf
  <2>2. /\ creq' \in [WebReq -> Handlers] /\ creq'[r] = IdleHandler
        /\ \A q \in WebReq : q # r => creq'[q] = creq[q]
    BY <1>1, <1>2, <2>1 DEF Finish
  <2>3. ConfTypes'
    BY <1>1, <2>1, <2>2 DEF ConfInv, ConfTypes
  <2>4. ASSUME ~shaky PROVE OneAtATime'
    <3>1. fileDoc = creq[r].doc
      BY <2>1, <2>4 DEF ConfInv, OneAtATime
    <3>2. Agrees'
      BY <1>1, <2>1, <3>1, DocumentParses DEF Agrees
    <3>3. \A q \in WebReq : creq'[q].at = "idle"
      BY <1>2, <1>4, <2>2, <2>4 DEF AtStep
    <3> QED
      BY <3>2, <3>3 DEF OneAtATime, AtStep
  <2> QED
    BY <2>1, <2>3, <2>4 DEF ConfInv, OneAtATime
<1> QED
  BY <1>5, <1>6, <1>7

LEMMA ConfNextInv == ConfInv /\ [ConfNext]_confVars => ConfInv'
<1> SUFFICES ASSUME ConfInv, [ConfNext]_confVars PROVE ConfInv'
  OBVIOUS
<1>1. conf \in Document /\ lock \in WebReq \cup {"free"}
  BY DEF ConfInv, ConfTypes
<1>2. ASSUME UNCHANGED <<conf, fileDoc, lock, creq, webOps, webRestarts, shaky>>,
             held' = held \/ held' = Masked(conf)
      PROVE  ConfInv'
  BY <1>1, <1>2 DEF ConfInv, ConfTypes, OneAtATime, AtStep, Quiet, Agrees
<1>3. CASE GetConfig
  BY <1>2, <1>3 DEF GetConfig, Masked
<1>4. ASSUME NEW r \in WebReq, RecordingSet(r) PROVE ConfInv'
  <2>1. PICK active \in Values.recording :
          Handle(r, "toggle", [conf EXCEPT !.recording = active])
    BY <1>4 DEF RecordingSet
  <2>2. [conf EXCEPT !.recording = active] \in Document
    BY <1>1 DEF Document, Values
  <2> QED
    BY <1>1, <1>4, <2>1, <2>2, HandleInv DEF RecordingSet, Ops, StoresAfter
<1>5. ASSUME NEW r \in WebReq, PutConfig(r) PROVE ConfInv'
  <2>1. PICK body \in Bodies : Handle(r, "put", Override(conf, Unmask(body, conf)))
    BY <1>5 DEF PutConfig
  <2>2. Override(conf, Unmask(body, conf)) \in Document
    BY PatchDocument DEF ConfInv
  <2> QED
    BY <1>1, <1>5, <2>1, <2>2, HandleInv DEF PutConfig, Ops, StoresAfter
<1>6. ASSUME NEW r \in WebReq, ResetConfig(r) PROVE ConfInv'
  BY <1>1, <1>6, DefaultsDocument, HandleInv DEF ResetConfig, Ops, StoresAfter
<1>7. ASSUME NEW p \in Passwords PROVE [conf EXCEPT !.password = p] \in Document
  BY <1>1, <1>7 DEF Document, Values
<1>8. ASSUME NEW r \in WebReq, Setup(r) PROVE ConfInv'
  BY <1>1, <1>7, <1>8, HandleInv DEF Setup, Ops
<1>9. ASSUME NEW r \in WebReq, ResetPassword(r) PROVE ConfInv'
  BY <1>1, <1>7, <1>9, HandleInv DEF ResetPassword, Ops
<1>10. ASSUME NEW r \in WebReq, Activate(r) PROVE ConfInv'
  BY <1>1, <1>10, HandleInv DEF Activate, Ops
<1>11. ASSUME NEW r \in WebReq, Open(r) \/ WriteFile(r) \/ StoreConf(r) PROVE ConfInv'
  BY <1>11, PersistInv
<1>12. CASE ProcessRestart
  <2>1. /\ webRestarts < MaxWebRestarts /\ webRestarts' = webRestarts + 1
        /\ conf' = Loaded(fileDoc) /\ lock' = "free" /\ creq' = [r \in WebReq |-> IdleHandler]
        /\ shaky' = ~Accepts(fileDoc) /\ UNCHANGED <<fileDoc, held, webOps>>
    BY <1>12 DEF ProcessRestart
  <2>2. IdleHandler \in Handlers /\ IdleHandler.at = "idle"
    BY DefaultsDocument DEF IdleHandler, Handlers, Ops
  <2>3. Accepts(fileDoc) => fileDoc \in Document /\ fileDoc # Torn
    BY DEF ConfInv, ConfTypes, Accepts
  <2>4. conf' \in Document
    BY <2>1, <2>3, EnvDocument, DefaultsDocument DEF Loaded
  <2>5. ConfTypes'
    <3>1. creq' \in [WebReq -> Handlers]
      BY <2>1, <2>2
    <3>2. shaky' \in BOOLEAN
      BY <2>1 DEF Accepts
    <3>3. webRestarts' \in 0..MaxWebRestarts
      BY <2>1, ConfAssumption DEF ConfInv, ConfTypes
    <3> QED
      BY <2>1, <2>4, <3>1, <3>2, <3>3 DEF ConfInv, ConfTypes
  <2>6. \A r \in WebReq : creq'[r].at = "idle"
    BY <2>1, <2>2
  <2>7. ~shaky' => Agrees'
    <3> SUFFICES ASSUME Accepts(fileDoc) PROVE Agrees'
      BY <2>1
    <3>1. conf' = WithEnv(fileDoc) /\ fileDoc' = fileDoc
      BY <2>1 DEF Loaded
    <3> QED
      BY <2>3, <3>1, EnvDocument DEF Agrees
  <2> QED
    BY <2>5, <2>6, <2>7 DEF ConfInv, OneAtATime, AtStep
<1>13. CASE UNCHANGED confVars
  BY <1>2, <1>13 DEF confVars
<1> QED
  BY <1>3, <1>4, <1>5, <1>6, <1>8, <1>9, <1>10, <1>11, <1>12, <1>13 DEF ConfNext

(* What runs is what was saved, whichever handlers ran in whatever order,  *)
(* as long as none overlapped another and no write failed (persist_config  *)
(* and its callers in src/src/web/api.rs and web/auth.rs).                 *)
THEOREM SavedIsRunningAlways == ConfSpec => []SavedIsRunning
<1>1. ConfInv => SavedIsRunning
  BY DEF ConfInv, OneAtATime, Agrees, SavedIsRunning
<1> QED
  BY ConfInitInv, ConfNextInv, <1>1, PTL DEF ConfSpec

(***************************************************************************)
(* CalibrationFits, for any sensors, targets, scans and restarts.  While   *)
(* the sensors stay at their own addresses a cached calibration is that of *)
(* the address last aimed at, and the address a pass reads is the one its  *)
(* target names; both have to be known for the pass in the middle of which *)
(* somebody puts another target.  The pins belong to one pass or one sweep *)
(* at a time.                                                              *)
(***************************************************************************)

(* The pass lock is held by the pass or the sweep in progress, never both; *)
(* a pass that reads has a sensor to read.                                 *)
PassLocked ==
  /\ passLock = IF poll.at \in {"open", "read"} THEN "poll"
                ELSE IF scan.at = "sweep" THEN "scan" ELSE "free"
  /\ ~(poll.at \in {"open", "read"} /\ scan.at = "sweep")
  /\ scan.running <=> scan.at # "off"
  /\ poll.at = "read" => poll.spot \in Addr

(* Records, as far as they matter here.                                    *)
SensorOK ==
  /\ plugged \in [Addr -> Addr \cup {Nobody}]
  /\ target \in Target /\ overlay \in Target
  /\ poll \in [at : {"sleep", "open", "read"}, target : Target, last : Target,
               eeprom : Addr \cup {Nobody}, spot : Addr \cup {Nobody}]
  /\ scan \in [at : {"off", "wait", "sweep"}, running : BOOLEAN, hits : SUBSET Addr]
  /\ reading \in [trusted : BOOLEAN, from : Addr \cup {Nobody}, cal : Addr \cup {Nobody},
                  over : {"twi", "gpio", "auto"}]
  /\ put \in [PutReq -> {"none", "applied", "done"} \X Target]

(* A sensor is at home or away.                                            *)
AtHome == \A a \in Addr : plugged[a] \in {a, Nobody}

(* What a pass holds belongs to what it was aimed at.                      *)
AimedAt ==
  /\ poll.target = poll.last
  /\ poll.at = "read" /\ poll.target.bus # "auto" => poll.spot = poll.target.addr
  /\ poll.eeprom # Nobody /\ poll.last.bus # "auto" => poll.eeprom = poll.last.addr

ThermalInv ==
  PassLocked /\ SensorOK /\ (~Remount => AtHome /\ AimedAt) /\ CalibrationFits

(* The lowest of some addresses is one of them.                            *)
LEMMA LowestAddress ==
  ASSUME NEW S, S \subseteq Addr, S # {}
  PROVE  First(S) \in S
<1>1. S \subseteq Nat
  BY ThermalAssumption
<1>2. PICK a \in S : \A b \in S : ~(<<b, a>> \in OpToRel(<, Nat))
  BY <1>1, NatLessThanWellFounded, WFMin, Zenon
<1>3. ASSUME NEW b \in S PROVE a <= b
  <2>1. ~(b < a)
    BY <1>1, <1>2 DEF OpToRel
  <2> QED
    BY <1>1, <2>1
<1> QED
  BY <1>3 DEF First

LEMMA BootOK == Boot \in Target
<1>1. First(Addr) \in Addr
  BY LowestAddress, ThermalAssumption
<1> QED
  BY <1>1 DEF Boot, Target, First

LEMMA ThermalInitInv == ThermalInit => ThermalInv
<1> SUFFICES ASSUME ThermalInit PROVE ThermalInv
  OBVIOUS
<1>1. /\ poll = Rest(Boot) /\ scan = NoScan /\ passLock = "free" /\ reading = Warmup
      /\ plugged = [a \in Addr |-> a] /\ target = Boot /\ overlay = Boot
      /\ put = [p \in PutReq |-> <<"none", Boot>>]
  BY DEF ThermalInit
<1>2. PassLocked
  BY <1>1 DEF PassLocked, Rest, NoScan
<1>3. SensorOK
  BY <1>1, BootOK DEF SensorOK, Rest, NoScan, Warmup, Nobody
<1>4. AtHome /\ AimedAt
  BY <1>1 DEF AtHome, AimedAt, Rest
<1>5. CalibrationFits
  BY <1>1 DEF CalibrationFits, Warmup
<1> QED
  BY <1>2, <1>3, <1>4, <1>5 DEF ThermalInv

(* A pass: it takes the lock with the target of that moment and gives the  *)
(* lock back with what it read.                                            *)
LEMMA PassInv == ASSUME ThermalInv, PollStep PROVE ThermalInv'
<1> USE DEF ThermalInv
<1>1. /\ SensorOK /\ PassLocked /\ poll.at \in {"sleep", "open", "read"}
      /\ poll.target \in Target /\ poll.last \in Target /\ target \in Target
      /\ poll.eeprom \in Addr \cup {Nobody} /\ poll.spot \in Addr \cup {Nobody}
      /\ \A t \in Target : t.bus \in {"twi", "gpio", "auto"} /\ t.addr \in Addr
  BY ThermalAssumption DEF SensorOK, Target
<1>2. UNCHANGED <<plugged, target, overlay, scan, put>>
  BY DEF PollStep, TakePass, OpenBus, OpenFails, ReadSensor, ReadFails
<1>3. CASE TakePass
  <2> DEFINE e == IF target # poll.last THEN Nobody ELSE poll.eeprom
  <2>1. /\ passLock = "free" /\ passLock' = "poll" /\ reading' = reading
        /\ poll' = [poll EXCEPT !.at = "open", !.target = target, !.last = target, !.eeprom = e]
    BY <1>3 DEF TakePass
  <2>2. e \in Addr \cup {Nobody}
    BY <1>1
  <2> HIDE DEF e
  <2>3. /\ poll'.at = "open" /\ poll'.target = target /\ poll'.last = target
        /\ poll'.eeprom = e /\ poll'.spot = poll.spot
        /\ poll' \in [at : {"sleep", "open", "read"}, target : Target, last : Target,
                      eeprom : Addr \cup {Nobody}, spot : Addr \cup {Nobody}]
    BY <1>1, <2>1, <2>2 DEF SensorOK
  <2>4. PassLocked'
    BY <1>1, <1>2, <2>1, <2>3 DEF PassLocked
  <2>5. SensorOK'
    BY <1>1, <1>2, <2>1, <2>3 DEF SensorOK
  <2>6. ~Remount => AimedAt'
    BY <2>3 DEF AimedAt, e
  <2> QED
    BY <1>2, <2>1, <2>4, <2>5, <2>6 DEF AtHome, CalibrationFits
<1>4. CASE OpenBus
  <2>1. PICK a \in Addr :
          /\ poll' = [poll EXCEPT !.at = "read", !.spot = a]
          /\ poll.target.bus # "auto" => a = poll.target.addr
    <3>1. Answering \subseteq Addr
      BY DEF Answering
    <3> QED
      BY <1>1, <1>4, <3>1, LowestAddress DEF OpenBus
  <2>2. poll.at = "open" /\ passLock' = passLock /\ reading' = reading
    BY <1>4 DEF OpenBus
  <2>3. /\ poll'.at = "read" /\ poll'.target = poll.target /\ poll'.last = poll.last
        /\ poll'.eeprom = poll.eeprom /\ poll'.spot = a
        /\ poll' \in [at : {"sleep", "open", "read"}, target : Target, last : Target,
                      eeprom : Addr \cup {Nobody}, spot : Addr \cup {Nobody}]
    BY <1>1, <2>1 DEF SensorOK
  <2>4. PassLocked'
    BY <1>1, <1>2, <2>2, <2>3 DEF PassLocked
  <2>5. SensorOK'
    BY <1>1, <1>2, <2>2, <2>3 DEF SensorOK
  <2>6. ~Remount => AimedAt'
    BY <2>1, <2>3 DEF AimedAt
  <2> QED
    BY <1>2, <2>2, <2>4, <2>5, <2>6 DEF AtHome, CalibrationFits
<1>5. CASE OpenFails \/ ReadFails
  <2>1. /\ poll' = [poll EXCEPT !.at = "sleep"] /\ passLock' = "free"
        /\ reading' = [reading EXCEPT !.trusted = FALSE] /\ poll.at \in {"open", "read"}
    BY <1>5 DEF OpenFails, ReadFails, Lost
  <2>2. /\ poll'.at = "sleep" /\ poll'.target = poll.target /\ poll'.last = poll.last
        /\ poll'.eeprom = poll.eeprom /\ reading'.trusted = FALSE
        /\ poll' \in [at : {"sleep", "open", "read"}, target : Target, last : Target,
                      eeprom : Addr \cup {Nobody}, spot : Addr \cup {Nobody}]
    BY <1>1, <2>1 DEF SensorOK
  <2>3. reading' \in [trusted : BOOLEAN, from : Addr \cup {Nobody},
                      cal : Addr \cup {Nobody}, over : {"twi", "gpio", "auto"}]
    BY <1>1, <2>1 DEF SensorOK
  <2>4. PassLocked'
    BY <1>1, <1>2, <2>1, <2>2 DEF PassLocked
  <2>5. SensorOK'
    BY <1>1, <1>2, <2>2, <2>3 DEF SensorOK
  <2>6. ~Remount => AimedAt'
    BY <2>2 DEF AimedAt
  <2> QED
    BY <1>2, <2>2, <2>4, <2>5, <2>6 DEF AtHome, CalibrationFits
<1>6. CASE ReadSensor
  <2> DEFINE cal == IF poll.eeprom # Nobody THEN poll.eeprom ELSE plugged[poll.spot]
             r == [trusted |-> TRUE, from |-> plugged[poll.spot], cal |-> cal,
                   over |-> poll.target.bus]
  <2>1. /\ poll.at = "read" /\ plugged[poll.spot] # Nobody /\ passLock' = "free"
        /\ poll' = [poll EXCEPT !.at = "sleep", !.eeprom = cal] /\ reading' = r
    BY <1>6 DEF ReadSensor
  <2>2. poll.spot \in Addr => plugged[poll.spot] \in Addr
    BY <1>1, <2>1 DEF SensorOK
  <2>3. poll.spot \in Addr
    BY <1>1, <2>1 DEF PassLocked
  <2>4. cal \in Addr /\ plugged[poll.spot] \in Addr
    BY <1>1, <2>2, <2>3
  <2>5. ~Remount /\ poll.target.bus # "auto" => plugged[poll.spot] = poll.target.addr /\ cal = poll.target.addr
    <3> SUFFICES ASSUME ~Remount, poll.target.bus # "auto"
                 PROVE  plugged[poll.spot] = poll.target.addr /\ cal = poll.target.addr
      OBVIOUS
    <3>1. poll.spot = poll.target.addr /\ plugged[poll.spot] = poll.spot
      BY <2>1, <2>3 DEF AimedAt, AtHome
    <3>2. poll.eeprom # Nobody => poll.eeprom = poll.target.addr
      BY DEF AimedAt
    <3> QED
      BY <3>1, <3>2
  <2>6. r.trusted /\ r.from = plugged[poll.spot] /\ r.cal = cal /\ r.over = poll.target.bus
        /\ r \in [trusted : BOOLEAN, from : Addr \cup {Nobody},
                  cal : Addr \cup {Nobody}, over : {"twi", "gpio", "auto"}]
    BY <1>1, <2>4
  <2> HIDE DEF cal, r
  <2>7. /\ poll'.at = "sleep" /\ poll'.target = poll.target /\ poll'.last = poll.last
        /\ poll'.eeprom = cal
        /\ poll' \in [at : {"sleep", "open", "read"}, target : Target, last : Target,
                      eeprom : Addr \cup {Nobody}, spot : Addr \cup {Nobody}]
    BY <1>1, <2>1, <2>4 DEF SensorOK
  <2>8. PassLocked'
    BY <1>1, <1>2, <2>1, <2>7 DEF PassLocked
  <2>9. SensorOK'
    BY <1>1, <1>2, <2>1, <2>6, <2>7 DEF SensorOK
  <2>10. ~Remount => AimedAt'
    BY <2>5, <2>7 DEF AimedAt
  <2>11. CalibrationFits'
    BY <2>1, <2>5, <2>6 DEF CalibrationFits
  <2> QED
    BY <1>2, <2>8, <2>9, <2>10, <2>11 DEF AtHome
<1> QED
  BY <1>3, <1>4, <1>5, <1>6 DEF PollStep

(* A step beside the pass.                                                 *)
LEMMA BesideInv ==
  ASSUME ThermalInv, UNCHANGED <<poll, reading>>, SensorOK', PassLocked', ~Remount => AtHome'
  PROVE  ThermalInv'
BY DEF ThermalInv, AimedAt, CalibrationFits

LEMMA ThermalNextInv == ThermalInv /\ [ThermalNext]_thermalVars => ThermalInv'
<1> SUFFICES ASSUME ThermalInv, [ThermalNext]_thermalVars PROVE ThermalInv'
  OBVIOUS
<1>1. SensorOK /\ PassLocked /\ (~Remount => AtHome)
  BY DEF ThermalInv
<1>2. CASE PollStep
  BY <1>2, PassInv
<1>3. CASE PostScan
  BY <1>1, <1>3, BesideInv DEF PostScan, SensorOK, PassLocked, AtHome
<1>4. CASE BeginScan \/ SweepStarts \/ SweepGivesUp \/ Sweep
  <2>1. UNCHANGED <<plugged, target, overlay, poll, reading, put>>
    BY <1>4 DEF BeginScan, SweepStarts, SweepGivesUp, Sweep
  <2>2. scan' \in [at : {"off", "wait", "sweep"}, running : BOOLEAN, hits : SUBSET Addr]
    <3>1. CASE BeginScan
      BY <1>1, <3>1 DEF BeginScan, SensorOK
    <3>2. CASE SweepStarts
      BY <1>1, <3>2 DEF SweepStarts, SensorOK
    <3>3. CASE SweepGivesUp
      BY <3>3 DEF SweepGivesUp, NoScan
    <3>4. CASE Sweep
      <4>1. Answering \in SUBSET Addr
        BY DEF Answering
      <4> QED
        BY <3>4, <4>1 DEF Sweep, NoScan
    <3> QED
      BY <1>4, <3>1, <3>2, <3>3, <3>4
  <2>3. CASE BeginScan
    <3>1. passLock' = passLock
      BY <2>3 DEF BeginScan
    <3>2. scan' = scan \/ (scan.at = "off" /\ scan'.at = "wait" /\ scan'.running)
      BY <1>1, <2>3 DEF BeginScan, PassLocked
    <3>3. PassLocked'
      BY <1>1, <2>1, <3>1, <3>2 DEF PassLocked
    <3> QED
      BY <1>1, <2>1, <2>2, <3>3, BesideInv DEF SensorOK, AtHome
  <2>4. CASE SweepStarts \/ SweepGivesUp \/ Sweep
    <3>1. PassLocked'
      <4>1. scan.at \in {"off", "wait", "sweep"}
        BY <1>1 DEF SensorOK
      <4>2. CASE SweepStarts
        <5>1. /\ scan.at = "wait" /\ scan'.at = "sweep" /\ scan'.running = scan.running
              /\ passLock = "free" /\ passLock' = "scan"
          BY <1>1, <4>2 DEF SweepStarts, SensorOK
        <5>2. scan.running
          BY <1>1, <5>1 DEF PassLocked
        <5>3. poll.at \notin {"open", "read"}
          BY <1>1, <5>1 DEF PassLocked
        <5> QED
          BY <2>1, <5>1, <5>2, <5>3 DEF PassLocked
      <4>3. CASE SweepGivesUp
        BY <1>1, <2>1, <4>3 DEF SweepGivesUp, PassLocked, NoScan
      <4>4. CASE Sweep
        <5>1. scan'.at = "off" /\ ~scan'.running /\ scan.at = "sweep" /\ passLock' = "free"
          BY <4>4 DEF Sweep, NoScan
        <5>2. poll.at \notin {"open", "read"}
          BY <1>1, <5>1 DEF PassLocked
        <5> QED
          BY <2>1, <5>1, <5>2 DEF PassLocked
      <4> QED
        BY <2>4, <4>2, <4>3, <4>4
    <3> QED
      BY <1>1, <2>1, <2>2, <3>1, BesideInv DEF SensorOK, AtHome
  <2> QED
    BY <1>4, <2>3, <2>4
<1>5. CASE ThermalRestart
  <2>1. /\ target' = overlay /\ overlay' = overlay /\ plugged' = plugged
        /\ poll' = Rest(overlay) /\ reading' = Warmup /\ scan' = NoScan /\ passLock' = "free"
        /\ put' = [p \in PutReq |-> IF put[p][1] = "applied" THEN <<"done", put[p][2]>> ELSE put[p]]
    BY <1>5 DEF ThermalRestart
  <2>2. put' \in [PutReq -> {"none", "applied", "done"} \X Target]
    BY <1>1, <2>1 DEF SensorOK
  <2>3. SensorOK'
    BY <1>1, <2>1, <2>2 DEF SensorOK, Rest, NoScan, Warmup
  <2>4. PassLocked'
    BY <2>1 DEF PassLocked, Rest, NoScan
  <2>5. AimedAt' /\ CalibrationFits'
    BY <2>1 DEF AimedAt, CalibrationFits, Rest, Warmup
  <2> QED
    BY <1>1, <2>1, <2>3, <2>4, <2>5 DEF ThermalInv, AtHome
<1>6. ASSUME NEW p \in PutReq, PutTarget(p) PROVE ThermalInv'
  <2>1. PICK b \in Buses, a \in Addr :
          /\ target' = [bus |-> b, addr |-> a]
          /\ put' = [put EXCEPT ![p] = <<"applied", target'>>]
    BY <1>6 DEF PutTarget
  <2>2. target' \in Target
    BY <2>1 DEF Target
  <2>3. put' \in [PutReq -> {"none", "applied", "done"} \X Target]
    BY <1>1, <2>1, <2>2 DEF SensorOK
  <2> QED
    BY <1>1, <1>6, <2>2, <2>3, BesideInv DEF PutTarget, SensorOK, PassLocked, AtHome
<1>7. ASSUME NEW p \in PutReq, PutOverlay(p) PROVE ThermalInv'
  <2>1. put[p] \in {"none", "applied", "done"} \X Target
    BY <1>1 DEF SensorOK
  <2>2. [put[p] EXCEPT ![1] = "done"] \in {"none", "applied", "done"} \X Target
        /\ put[p][2] \in Target
    BY <2>1
  <2>3. put' \in [PutReq -> {"none", "applied", "done"} \X Target] /\ overlay' \in Target
    BY <1>1, <1>7, <2>2 DEF PutOverlay, SensorOK
  <2> QED
    BY <1>1, <1>7, <2>3, BesideInv DEF PutOverlay, SensorOK, PassLocked, AtHome
<1>8. ASSUME NEW a \in Addr, Unplug(a) PROVE ThermalInv'
  BY <1>1, <1>8, BesideInv DEF Unplug, SensorOK, PassLocked, AtHome
<1>9. ASSUME NEW a \in Addr, NEW s \in Addr, Plug(a, s) PROVE ThermalInv'
  BY <1>1, <1>9, BesideInv DEF Plug, SensorOK, PassLocked, AtHome
<1>10. CASE UNCHANGED thermalVars
  BY <1>1, <1>10, BesideInv DEF thermalVars, SensorOK, PassLocked, AtHome
<1> QED
  BY <1>2, <1>3, <1>4, <1>5, <1>6, <1>7, <1>8, <1>9, <1>10 DEF ThermalNext, ScanStep

(* A trusted temperature was computed with the calibration of the sensor   *)
(* the frame came from, and a pass and a sweep never have the pins         *)
(* together (src/src/thermal/mod.rs, poll_loop; scan.rs, run_scan).        *)
THEOREM CalibrationAlwaysFits == ThermalSpec => [](CalibrationFits /\ PassLocked)
<1>1. ThermalInv => CalibrationFits /\ PassLocked
  BY DEF ThermalInv
<1> QED
  BY ThermalInitInv, ThermalNextInv, <1>1, PTL DEF ThermalSpec

-----------------------------------------------------------------------------
(***************************************************************************)
(* ListedLoads for any ids, any number of requests and restarts, and a     *)
(* disk that may fail at any write.  What is listed is what an insertion   *)
(* or a restart made so; the invariant therefore also speaks of the        *)
(* manifest a restart reads, which may still name a model that was         *)
(* deleted, and of what an upload in progress has done so far.  A deletion *)
(* takes the entry before the file, an upload brings the file before the   *)
(* entry, and the file an upload brings was validated under the temporary  *)
(* name that nobody else has written to: that needs that nobody overlaps.  *)
(***************************************************************************)

UploadSteps == {"write", "validate", "rename", "insert"}
DeleteSteps == {"remove", "unlink"}
ActivateSteps == {"load", "name", "swap", "clear", "config"}

(* The type invariant of the module, with requests as records.             *)
AiRequests ==
  [at : {"idle"} \cup UploadSteps \cup DeleteSteps \cup ActivateSteps,
   op : {None, "upload", "delete", "activate"},
   id : ModelIds \cup {None}, body : {None, "good", "bad"}]

AiTypes == AiTypeOK /\ req \in [AiReq -> AiRequests]

(* An idle request has no id, and what is uploaded or unlinked is no       *)
(* built-in model.                                                         *)
RequestsOK ==
  \A r \in AiReq :
    /\ req[r].at = "idle" <=> req[r].id = None
    /\ req[r].at \in UploadSteps \cup {"unlink"} => req[r].id \in Uploadable
    /\ req[r].at = "write" => req[r].body # None

(* What a request that is alone with its id has done so far.               *)
Progress(u, r) ==
  req[r].id = u =>
    /\ req[r].at \in UploadSteps \cup {"unlink"} => uploaded[u] = 0
    /\ req[r].at = "rename" => tmp[u] = "good"
    /\ req[r].at = "insert" => file[u] = "good"

Alone(u) ==
  /\ \A q, r \in AiReq : req[q].id = u /\ req[r].id = u => q = r
  /\ \A r \in AiReq : Progress(u, r)

(* The entry of an id, its line of the manifest and its file.              *)
EntrySound(u) ==
  /\ {uploaded[u], manifest[u]} \subseteq {0, 1} /\ file[u] # "bad"
  /\ uploaded[u] = 1 => file[u] = "good"

AiFilesOK == \A u \in Uploadable \ overlapped : Alone(u) /\ EntrySound(u)

AiInv == AiTypes /\ RequestsOK /\ AiFilesOK

LEMMA AiInitInv == AiInit => AiInv
<1> SUFFICES ASSUME AiInit PROVE AiInv
  OBVIOUS
<1> USE AiAssumption DEF AiInit
<1>1. AiTypes
  BY DEF AiTypes, AiTypeOK, AiRequests, IdleReq, ModelIds, NoEntries
<1>2. RequestsOK
  BY DEF RequestsOK, IdleReq, UploadSteps
<1>3. ASSUME NEW u \in Uploadable PROVE Alone(u) /\ EntrySound(u)
  <2>1. \A r \in AiReq : req[r].id # u
    BY DEF IdleReq
  <2>2. uploaded[u] = 0 /\ manifest[u] = 0 /\ file[u] = None
    BY DEF NoEntries
  <2> QED
    BY <2>1, <2>2 DEF Alone, Progress, EntrySound, None
<1> QED
  BY <1>1, <1>2, <1>3 DEF AiInv, AiFilesOK

(* What a request that ends, or goes on, leaves of the table of requests.  *)
LEMMA AiMoves ==
  ASSUME AiTypes, NEW r \in AiReq,
         NEW there \in {"idle"} \cup UploadSteps \cup DeleteSteps \cup ActivateSteps,
         Moves(r, there)
  PROVE  /\ req' \in [AiReq -> AiRequests]
         /\ req'[r].at = there /\ req'[r].id = req[r].id /\ req'[r].op = req[r].op
         /\ req'[r].body = req[r].body
         /\ \A q \in AiReq \ {r} : req'[q] = req[q]
BY DEF AiTypes, Moves, AiRequests

LEMMA AiAnswers ==
  ASSUME AiTypes, NEW r \in AiReq, Answers(r)
  PROVE  /\ req' \in [AiReq -> AiRequests]
         /\ req'[r].at = "idle" /\ req'[r].id = None
         /\ \A q \in AiReq \ {r} : req'[q] = req[q]
BY DEF AiTypes, Answers, AiRequests, IdleReq

(* A step of a request that touches no other id leaves the others sound.   *)
LEMMA AiElsewhere ==
  ASSUME AiInv, NEW r \in AiReq, NEW u \in Uploadable \ overlapped,
         req[r].id # u, req'[r].id # u,
         \A q \in AiReq \ {r} : req'[q] = req[q],
         uploaded'[u] = uploaded[u], file'[u] = file[u], tmp'[u] = tmp[u],
         manifest'[u] \in {manifest[u], uploaded[u]}
  PROVE  Alone(u)' /\ EntrySound(u)'
<1>1. Alone(u) /\ EntrySound(u)
  BY DEF AiInv, AiFilesOK
<1>2. Alone(u)'
  BY <1>1 DEF Alone, Progress
<1>3. EntrySound(u)'
  BY <1>1 DEF EntrySound
<1> QED
  BY <1>2, <1>3

(* The start of a request.                                                 *)
LEMMA AiBeginInv ==
  ASSUME AiInv, NEW r \in AiReq, NEW op \in {"upload", "delete", "activate"},
         NEW id \in ModelIds, NEW body \in {None, "good", "bad"},
         NEW there \in {"write", "remove", "load"},
         there = "write" => id \in Uploadable /\ uploaded[id] = 0 /\ body # None,
         Begin(r, op, id, body, there)
  PROVE  AiInv'
<1> USE AiAssumption
<1>1. /\ req' \in [AiReq -> AiRequests]
      /\ req'[r] = [at |-> there, op |-> op, id |-> id, body |-> body]
      /\ \A q \in AiReq \ {r} : req'[q] = req[q]
  BY DEF AiInv, AiTypes, Begin, AiRequests, UploadSteps, DeleteSteps, ActivateSteps
<1>2. req[r].id = None
  BY DEF AiInv, RequestsOK, Begin, At
<1>3. overlapped \subseteq overlapped' /\ overlapped' \subseteq ModelIds
      /\ (id \notin overlapped' => \A q \in AiReq \ {r} : req[q].id # id)
  BY DEF Begin, AiInv, AiTypes, AiTypeOK
<1>4. UNCHANGED <<registryVars, modelVars, restarts, loopVars>> /\ aiOps' \in 0..MaxAiOps
  BY DEF Begin, AiInv, AiTypes, AiTypeOK
<1>5. AiTypes'
  <2>1. \A q \in AiReq :
          /\ req'[q].at \in {"idle", "write", "validate", "rename", "insert",
               "remove", "unlink", "load", "name", "swap", "clear", "config"}
          /\ req'[q].id \in ModelIds \cup {None}
    BY <1>1 DEF AiRequests, UploadSteps, DeleteSteps, ActivateSteps
  <2> QED
    BY <1>1, <1>3, <1>4, <2>1 DEF AiInv, AiTypes, AiTypeOK, registryVars, modelVars, loopVars
<1>6. RequestsOK'
  <2>1. id # None
    BY DEF ModelIds
  <2> QED
    BY <1>1, <2>1 DEF AiInv, RequestsOK, UploadSteps
<1>7. ASSUME NEW u \in Uploadable \ overlapped' PROVE Alone(u)' /\ EntrySound(u)'
  <2>1. Alone(u) /\ EntrySound(u)
    BY <1>3 DEF AiInv, AiFilesOK
  <2>2. EntrySound(u)'
    BY <2>1, <1>4 DEF EntrySound, registryVars
  <2>3. CASE u = id
    <3>1. \A q \in AiReq : req'[q].id = u => q = r
      BY <1>1, <1>3, <2>3
    <3>2. req'[r].at = there /\ uploaded'[u] = uploaded[u]
      BY <1>1, <1>4 DEF registryVars
    <3>3. there = "write" => uploaded[u] = 0
      BY <2>3
    <3>4. Progress(u, r)'
      BY <2>3, <3>2, <3>3 DEF Progress, UploadSteps
    <3>5. ASSUME NEW q \in AiReq PROVE Progress(u, q)'
      BY <3>1, <3>4 DEF Progress
    <3> QED
      BY <2>2, <3>1, <3>5 DEF Alone
  <2>4. CASE u # id
    <3>1. req'[r].id # u
      BY <1>1, <2>4
    <3>2. \A q \in AiReq : req'[q].id = u => q # r /\ req'[q] = req[q]
      BY <1>1, <3>1
    <3>3. uploaded'[u] = uploaded[u] /\ tmp'[u] = tmp[u] /\ file'[u] = file[u]
      BY <1>4 DEF registryVars
    <3>4. ASSUME NEW q \in AiReq PROVE Progress(u, q)'
      BY <2>1, <3>2, <3>3 DEF Alone, Progress
    <3>5. \A p, q \in AiReq : req'[p].id = u /\ req'[q].id = u => p = q
      BY <2>1, <3>2 DEF Alone
    <3> QED
      BY <2>2, <3>4, <3>5 DEF Alone
  <2> QED
    BY <2>2, <2>3, <2>4
<1> QED
  BY <1>5, <1>6, <1>7 DEF AiInv, AiFilesOK

(* A step of a request under way that is not a start: what it must show of *)
(* its own id.                                                             *)
LEMMA AiStepInv ==
  ASSUME AiInv, NEW r \in AiReq, NEW id, id = req[r].id, req[r].at # "idle",
         req' \in [AiReq -> AiRequests],
         \A q \in AiReq \ {r} : req'[q] = req[q],
         \/ req'[r].at = "idle" /\ req'[r].id = None
         \/ /\ req'[r].at \in UploadSteps \cup DeleteSteps \cup ActivateSteps
            /\ req'[r].id = id
            /\ req'[r].at \in UploadSteps \cup {"unlink"} => id \in Uploadable
            /\ req'[r].at # "write",
         {uploaded', manifest'} \subseteq [Uploadable -> Nat],
         {file', tmp'} \subseteq [Uploadable -> {None, "good", "bad"}],
         \A u \in Uploadable : u # id =>
           /\ uploaded'[u] = uploaded[u] /\ file'[u] = file[u] /\ tmp'[u] = tmp[u]
           /\ manifest'[u] \in {manifest[u], uploaded[u]},
         id \in Uploadable \ overlapped => EntrySound(id)' /\ Progress(id, r)',
         {activeModel', cfgModel', diskModel'} \subseteq ModelIds,
         {detector', pass', detections'} \subseteq ModelIds \cup {None},
         UNCHANGED <<aiOps, restarts, frameCount, overlapped>>
  PROVE  AiInv'
<1>1. id \in ModelIds
  <2>1. req[r].id \in ModelIds \cup {None} /\ req[r].id # None
    BY DEF AiInv, RequestsOK, AiTypes, AiTypeOK
  <2> QED
    BY <2>1
<1>2. AiTypes'
  <2>1. \A q \in AiReq :
          /\ req'[q].at \in {"idle", "write", "validate", "rename", "insert",
               "remove", "unlink", "load", "name", "swap", "clear", "config"}
          /\ req'[q].id \in ModelIds \cup {None}
    BY DEF AiRequests, UploadSteps, DeleteSteps, ActivateSteps
  <2> QED
    BY <2>1 DEF AiInv, AiTypes, AiTypeOK
<1>3. RequestsOK'
  <2>1. id # None
    BY <1>1, AiAssumption DEF ModelIds
  <2>2. "idle" \notin UploadSteps \cup DeleteSteps \cup ActivateSteps \cup {"unlink"}
    BY DEF UploadSteps, DeleteSteps, ActivateSteps
  <2>3. "write" \in UploadSteps
    BY DEF UploadSteps
  <2> QED
    BY <2>1, <2>2, <2>3 DEF AiInv, RequestsOK
<1>4. ASSUME NEW u \in Uploadable \ overlapped, u # id PROVE Alone(u)' /\ EntrySound(u)'
  BY <1>4, AiElsewhere, AiAssumption
<1>5. ASSUME id \in Uploadable \ overlapped PROVE Alone(id)' /\ EntrySound(id)'
  <2>1. \A q \in AiReq : req[q].id = id => q = r
    BY <1>5 DEF AiInv, AiFilesOK, Alone
  <2>2. \A q \in AiReq : req'[q].id = id => q = r
    BY <2>1
  <2>3. EntrySound(id)' /\ Progress(id, r)'
    BY <1>5
  <2>4. ASSUME NEW q \in AiReq PROVE Progress(id, q)'
    BY <2>2, <2>3 DEF Progress
  <2> QED
    BY <2>2, <2>3, <2>4 DEF Alone
<1>6. ASSUME NEW u \in Uploadable \ overlapped PROVE Alone(u)' /\ EntrySound(u)'
  BY <1>4, <1>5
<1> QED
  BY <1>2, <1>3, <1>6 DEF AiInv, AiFilesOK

(* A request that goes on, or is answered, after it changed what.          *)
AiKeeps(id) ==
  /\ {uploaded', manifest'} \subseteq [Uploadable -> Nat]
  /\ {file', tmp'} \subseteq [Uploadable -> {None, "good", "bad"}]
  /\ \A u \in Uploadable : u # id =>
       /\ uploaded'[u] = uploaded[u] /\ file'[u] = file[u] /\ tmp'[u] = tmp[u]
       /\ manifest'[u] \in {manifest[u], uploaded[u]}
  /\ {activeModel', cfgModel', diskModel'} \subseteq ModelIds
  /\ {detector', pass', detections'} \subseteq ModelIds \cup {None}
  /\ UNCHANGED <<aiOps, restarts, frameCount, overlapped>>

LEMMA AiMoveInv ==
  ASSUME AiInv, NEW r \in AiReq, NEW id, id = req[r].id, req[r].at # "idle",
         NEW there \in UploadSteps \cup DeleteSteps \cup ActivateSteps, there # "write",
         there \in UploadSteps \cup {"unlink"} => id \in Uploadable,
         Moves(r, there), AiKeeps(id),
         id \in Uploadable \ overlapped =>
           /\ EntrySound(id)'
           /\ there \in UploadSteps \cup {"unlink"} => uploaded'[id] = 0
           /\ there = "rename" => tmp'[id] = "good"
           /\ there = "insert" => file'[id] = "good"
  PROVE  AiInv'
<1>1. /\ req' \in [AiReq -> AiRequests]
      /\ req'[r].at = there /\ req'[r].id = id
      /\ \A q \in AiReq \ {r} : req'[q] = req[q]
  BY AiMoves DEF AiInv
<1>2. id \in Uploadable \ overlapped => EntrySound(id)' /\ Progress(id, r)'
  BY <1>1 DEF Progress
<1> QED
  BY <1>1, <1>2, AiStepInv DEF AiKeeps

LEMMA AiAnswerInv ==
  ASSUME AiInv, NEW r \in AiReq, NEW id, id = req[r].id, req[r].at # "idle",
         Answers(r), AiKeeps(id), id \in Uploadable \ overlapped => EntrySound(id)'
  PROVE  AiInv'
<1>1. /\ req' \in [AiReq -> AiRequests]
      /\ req'[r].at = "idle" /\ req'[r].id = None
      /\ \A q \in AiReq \ {r} : req'[q] = req[q]
  BY AiAnswers DEF AiInv
<1>2. id \in Uploadable \ overlapped => EntrySound(id)' /\ Progress(id, r)'
  BY <1>1, AiAssumption DEF Progress
<1> QED
  BY <1>1, <1>2, AiStepInv DEF AiKeeps

(* What is known of a request under way.                                   *)
LEMMA AiUnderWay ==
  ASSUME AiInv, NEW r \in AiReq, req[r].at # "idle"
  PROVE  /\ {uploaded, manifest} \subseteq [Uploadable -> Nat]
         /\ {file, tmp} \subseteq [Uploadable -> {None, "good", "bad"}]
         /\ {activeModel, cfgModel, diskModel} \subseteq ModelIds
         /\ {detector, pass, detections} \subseteq ModelIds \cup {None}
         /\ req[r] \in AiRequests /\ req[r].id \in ModelIds
         /\ req[r].at \in UploadSteps \cup {"unlink"} => req[r].id \in Uploadable
         /\ req[r].id \in Uploadable \ overlapped =>
              EntrySound(req[r].id) /\ Progress(req[r].id, r)
<1>1. req[r].id # None /\ req[r] \in AiRequests
  BY DEF AiInv, RequestsOK, AiTypes
<1>2. req[r].id \in ModelIds
  BY <1>1 DEF AiRequests
<1>3. req[r].id \in Uploadable \ overlapped => EntrySound(req[r].id) /\ Progress(req[r].id, r)
  BY DEF AiInv, AiFilesOK, Alone
<1> QED
  BY <1>1, <1>2, <1>3 DEF AiInv, AiTypes, AiTypeOK, RequestsOK

LEMMA AiUploadInv ==
  ASSUME AiInv, NEW r \in AiReq,
         UploadWrites(r) \/ UploadValidates(r) \/ UploadRenames(r) \/ UploadInserts(r)
  PROVE  AiInv'
<1>1. PICK id : id = req[r].id
  OBVIOUS
<1>2. req[r].at \in UploadSteps /\ req[r].at # "idle"
  BY DEF UploadWrites, UploadValidates, UploadRenames, UploadInserts, At, UploadSteps
<1>3. /\ {uploaded, manifest} \subseteq [Uploadable -> Nat]
      /\ {file, tmp} \subseteq [Uploadable -> {None, "good", "bad"}]
      /\ {activeModel, cfgModel, diskModel} \subseteq ModelIds
      /\ {detector, pass, detections} \subseteq ModelIds \cup {None}
      /\ req[r] \in AiRequests /\ id \in Uploadable
      /\ id \notin overlapped => EntrySound(id) /\ Progress(id, r)
  BY <1>1, <1>2, AiUnderWay
<1>4. uploaded[id] \in Nat /\ tmp[id] \in {None, "good", "bad"}
  BY <1>3
<1>5. CASE UploadWrites(r)
  <2>1. PICK ok \in Disk :
          /\ tmp' = [tmp EXCEPT ![id] = IF ok THEN req[r].body ELSE "bad"]
          /\ IF ok THEN Moves(r, "validate") ELSE Answers(r)
    BY <1>1, <1>5 DEF UploadWrites
  <2>2. UNCHANGED <<uploaded, manifest, file, modelVars, aiOps, restarts, loopVars,
                    overlapped>>
    BY <1>5 DEF UploadWrites
  <2>3. req[r].body \in {None, "good", "bad"} /\ req[r].at = "write"
    BY <1>3, <1>5 DEF AiRequests, UploadWrites, At
  <2>4. AiKeeps(id)
    BY <1>3, <2>1, <2>2, <2>3 DEF AiKeeps, modelVars, loopVars
  <2>5. id \notin overlapped => EntrySound(id)' /\ uploaded'[id] = 0
    BY <1>1, <1>3, <2>2, <2>3 DEF EntrySound, Progress, UploadSteps
  <2>6. CASE Moves(r, "validate")
    BY <1>1, <1>2, <1>3, <2>4, <2>5, <2>6, AiMoveInv DEF UploadSteps
  <2>7. CASE Answers(r)
    BY <1>1, <1>2, <2>4, <2>5, <2>7, AiAnswerInv
  <2> QED
    BY <2>1, <2>6, <2>7
<1>6. CASE UploadValidates(r)
  <2>1. /\ UNCHANGED <<uploaded, manifest, file, modelVars, aiOps, restarts, loopVars,
                       overlapped>>
        /\ req[r].at = "validate"
    BY <1>6 DEF UploadValidates, At
  <2>2. id \notin overlapped => EntrySound(id)' /\ uploaded'[id] = 0
    BY <1>1, <1>3, <2>1 DEF EntrySound, Progress, UploadSteps
  <2>3. CASE tmp[id] = "good"
    <3>1. Moves(r, "rename") /\ tmp' = tmp
      BY <1>1, <1>6, <2>3 DEF UploadValidates
    <3>2. AiKeeps(id)
      BY <1>3, <2>1, <3>1 DEF AiKeeps, modelVars, loopVars
    <3> QED
      BY <1>1, <1>2, <1>3, <2>2, <2>3, <3>1, <3>2, AiMoveInv DEF UploadSteps
  <2>4. CASE tmp[id] # "good"
    <3>1. Answers(r) /\ tmp' = [tmp EXCEPT ![id] = None]
      BY <1>1, <1>6, <2>4 DEF UploadValidates
    <3>2. AiKeeps(id)
      BY <1>3, <2>1, <3>1 DEF AiKeeps, modelVars, loopVars
    <3> QED
      BY <1>1, <1>2, <2>2, <3>1, <3>2, AiAnswerInv
  <2> QED
    BY <2>3, <2>4
<1>7. CASE UploadRenames(r)
  <2>1. /\ UNCHANGED <<uploaded, manifest, modelVars, aiOps, restarts, loopVars, overlapped>>
        /\ req[r].at = "rename"
    BY <1>7 DEF UploadRenames, At
  <2>2. id \notin overlapped => uploaded'[id] = 0 /\ tmp[id] = "good"
    BY <1>1, <1>3, <2>1 DEF Progress, UploadSteps
  <2>3. CASE tmp[id] # None
    <3>1. /\ file' = [file EXCEPT ![id] = tmp[id]] /\ tmp' = [tmp EXCEPT ![id] = None]
          /\ Moves(r, "insert")
      BY <1>1, <1>7, <2>3 DEF UploadRenames
    <3>2. AiKeeps(id)
      BY <1>3, <1>4, <2>1, <3>1 DEF AiKeeps, modelVars, loopVars
    <3>3. file'[id] = tmp[id]
      BY <1>3, <3>1
    <3>4. id \notin overlapped => EntrySound(id)'
      BY <1>3, <2>1, <2>2, <3>3 DEF EntrySound
    <3> QED
      BY <1>1, <1>2, <1>3, <2>2, <3>1, <3>2, <3>3, <3>4, AiMoveInv DEF UploadSteps
  <2>4. CASE tmp[id] = None
    <3>1. Answers(r) /\ UNCHANGED <<file, tmp>>
      BY <1>1, <1>7, <2>4 DEF UploadRenames
    <3>2. AiKeeps(id)
      BY <1>3, <2>1, <3>1 DEF AiKeeps, modelVars, loopVars
    <3>3. id \notin overlapped => EntrySound(id)'
      BY <1>3, <2>1, <3>1 DEF EntrySound
    <3> QED
      BY <1>1, <1>2, <3>1, <3>2, <3>3, AiAnswerInv
  <2> QED
    BY <2>3, <2>4
<1>8. CASE UploadInserts(r)
  <2>1. /\ UNCHANGED <<file, tmp, modelVars, aiOps, restarts, loopVars, overlapped>>
        /\ req[r].at = "insert" /\ Answers(r)
    BY <1>8 DEF UploadInserts, At
  <2>2. \/ uploaded' = [uploaded EXCEPT ![id] = @ + 1] /\ manifest' = uploaded'
        \/ UNCHANGED <<uploaded, manifest>>
    BY <1>1, <1>8 DEF UploadInserts
  <2>3. uploaded' \in [Uploadable -> Nat] /\ manifest' \in [Uploadable -> Nat]
    BY <1>3, <1>4, <2>2
  <2>4. AiKeeps(id)
    BY <1>3, <2>1, <2>2, <2>3 DEF AiKeeps, modelVars, loopVars
  <2>5. id \notin overlapped => uploaded[id] = 0 /\ file[id] = "good"
    BY <1>1, <1>3, <2>1 DEF Progress, UploadSteps
  <2>6. id \notin overlapped => EntrySound(id)'
    BY <1>3, <2>1, <2>2, <2>5 DEF EntrySound
  <2> QED
    BY <1>1, <1>2, <2>1, <2>4, <2>6, AiAnswerInv
<1> QED
  BY <1>5, <1>6, <1>7, <1>8

LEMMA AiDeleteInv ==
  ASSUME AiInv, NEW r \in AiReq, DeleteRemoves(r) \/ DeleteUnlinks(r)
  PROVE  AiInv'
<1>1. PICK id : id = req[r].id
  OBVIOUS
<1>2. req[r].at # "idle"
  BY DEF DeleteRemoves, DeleteUnlinks, At
<1>3. /\ {uploaded, manifest} \subseteq [Uploadable -> Nat]
      /\ {file, tmp} \subseteq [Uploadable -> {None, "good", "bad"}]
      /\ {activeModel, cfgModel, diskModel} \subseteq ModelIds
      /\ {detector, pass, detections} \subseteq ModelIds \cup {None}
      /\ req[r].at = "unlink" => id \in Uploadable
      /\ id \in Uploadable \ overlapped => EntrySound(id) /\ Progress(id, r)
  BY <1>1, <1>2, AiUnderWay
<1>4. CASE DeleteRemoves(r)
  <2>1. UNCHANGED <<file, tmp, modelVars, aiOps, restarts, loopVars, overlapped>>
    BY <1>4 DEF DeleteRemoves
  <2>2. CASE id \in Uploadable /\ uploaded[id] > 0
    <3>1. /\ uploaded' = [uploaded EXCEPT ![id] = @ - 1]
          /\ manifest' = uploaded' \/ manifest' = manifest
          /\ Moves(r, "unlink")
      BY <1>1, <1>4, <2>2 DEF DeleteRemoves
    <3>2. uploaded[id] \in Nat /\ uploaded[id] - 1 \in Nat
      BY <1>3, <2>2
    <3>3. uploaded' \in [Uploadable -> Nat] /\ manifest' \in [Uploadable -> Nat]
      BY <1>3, <3>1, <3>2
    <3>4. AiKeeps(id)
      BY <1>3, <2>1, <3>1, <3>3 DEF AiKeeps, modelVars, loopVars
    <3>5. uploaded'[id] = uploaded[id] - 1
      BY <1>3, <2>2, <3>1
    <3>6. id \notin overlapped => uploaded'[id] = 0 /\ EntrySound(id)'
      BY <1>3, <2>1, <2>2, <3>1, <3>2, <3>5 DEF EntrySound
    <3> QED
      BY <1>1, <1>2, <2>2, <3>1, <3>4, <3>6, AiMoveInv DEF UploadSteps, DeleteSteps
  <2>3. CASE ~(id \in Uploadable /\ uploaded[id] > 0)
    <3>1. Answers(r) /\ UNCHANGED <<uploaded, manifest>>
      BY <1>1, <1>4, <2>3 DEF DeleteRemoves
    <3>2. AiKeeps(id)
      BY <1>3, <2>1, <3>1 DEF AiKeeps, modelVars, loopVars
    <3>3. id \in Uploadable \ overlapped => EntrySound(id)'
      BY <1>3, <2>1, <3>1 DEF EntrySound
    <3> QED
      BY <1>1, <1>2, <3>1, <3>2, <3>3, AiAnswerInv
  <2> QED
    BY <2>2, <2>3
<1>5. CASE DeleteUnlinks(r)
  <2>1. /\ UNCHANGED <<uploaded, manifest, tmp, modelVars, aiOps, restarts, loopVars,
                       overlapped>>
        /\ Answers(r) /\ req[r].at = "unlink"
        /\ file' = [file EXCEPT ![id] = None] \/ file' = file
    BY <1>1, <1>5 DEF DeleteUnlinks, At
  <2>2. AiKeeps(id)
    BY <1>3, <2>1 DEF AiKeeps, modelVars, loopVars
  <2>3. id \in Uploadable
    BY <1>3, <2>1
  <2>4. file'[id] \in {None, file[id]}
    BY <1>3, <2>1, <2>3
  <2>5. id \notin overlapped => uploaded[id] = 0
    BY <1>1, <1>3, <2>1, <2>3 DEF Progress
  <2>6. id \notin overlapped => EntrySound(id)'
    BY <1>3, <2>1, <2>3, <2>4, <2>5 DEF EntrySound, None
  <2> QED
    BY <1>1, <1>2, <2>1, <2>2, <2>6, AiAnswerInv
<1> QED
  BY <1>4, <1>5

LEMMA AiActivateInv ==
  ASSUME AiInv, NEW r \in AiReq,
         \/ ActivateLoads(r) \/ SetName(r) \/ SetSlot(r) \/ ClearDetections(r)
         \/ ActivatePersists(r)
  PROVE  AiInv'
<1>1. PICK id : id = req[r].id
  OBVIOUS
<1>2. req[r].at # "idle"
  BY DEF ActivateLoads, SetName, SetSlot, ClearDetections, ActivatePersists, At
<1>3. /\ {uploaded, manifest} \subseteq [Uploadable -> Nat]
      /\ {file, tmp} \subseteq [Uploadable -> {None, "good", "bad"}]
      /\ {activeModel, cfgModel, diskModel} \subseteq ModelIds
      /\ {detector, pass, detections} \subseteq ModelIds \cup {None}
      /\ id \in ModelIds
      /\ id \in Uploadable \ overlapped => EntrySound(id)
  BY <1>1, <1>2, AiUnderWay
<1>4. UNCHANGED registryVars /\ UNCHANGED <<aiOps, restarts, frameCount, pass, overlapped>>
  BY DEF ActivateLoads, SetName, SetSlot, ClearDetections, ActivatePersists, loopVars
<1>5. /\ activeModel' \in {activeModel, id} /\ cfgModel' \in {cfgModel, id}
      /\ diskModel' \in {diskModel, id} /\ detector' \in {detector, id}
      /\ detections' \in {detections, None}
  BY <1>1 DEF ActivateLoads, SetName, SetSlot, ClearDetections, ActivatePersists,
              modelVars, loopVars
<1>6. AiKeeps(id)
  BY <1>3, <1>4, <1>5 DEF AiKeeps, registryVars
<1>7. id \in Uploadable \ overlapped => EntrySound(id)'
  BY <1>3, <1>4 DEF EntrySound, registryVars
<1>8. \/ \E there \in {"name", "swap", "clear", "config"} : Moves(r, there)
      \/ Answers(r)
  BY DEF ActivateLoads, SetName, SetSlot, ClearDetections, ActivatePersists
<1>9. ASSUME NEW there \in {"name", "swap", "clear", "config"}, Moves(r, there)
      PROVE  AiInv'
  BY <1>1, <1>2, <1>6, <1>7, <1>9, AiMoveInv DEF ActivateSteps, UploadSteps
<1>10. CASE Answers(r)
  BY <1>1, <1>2, <1>6, <1>7, <1>10, AiAnswerInv
<1> QED
  BY <1>8, <1>9, <1>10

LEMMA AiRestartInv == ASSUME AiInv, AiRestart PROVE AiInv'
<1> USE AiAssumption
<1>1. PICK read \in ManifestsRead, ok \in Disk :
        /\ uploaded' = Kept(read)
        /\ manifest' = IF ok THEN uploaded' ELSE read
  BY DEF AiRestart
<1>2. /\ {uploaded, manifest} \subseteq [Uploadable -> Nat]
      /\ {file, tmp} \subseteq [Uploadable -> {None, "good", "bad"}]
      /\ {activeModel, cfgModel, diskModel} \subseteq ModelIds
  BY DEF AiInv, AiTypes, AiTypeOK
<1>3. read \in [Uploadable -> Nat] /\ \A u \in Uploadable : read[u] \in {manifest[u], 0}
  BY <1>2 DEF ManifestsRead, NoEntries
<1>4. UNCHANGED <<file, tmp, diskModel, aiOps, overlapped>>
      /\ req' = [r \in AiReq |-> IdleReq]
  BY DEF AiRestart
<1>5. \A u \in Uploadable : uploaded'[u] = IF file[u] # None THEN read[u] ELSE 0
  BY <1>1 DEF Kept
<1>6. uploaded' \in [Uploadable -> Nat] /\ manifest' \in [Uploadable -> Nat]
  BY <1>1, <1>3 DEF Kept
<1>7. req' \in [AiReq -> AiRequests] /\ \A r \in AiReq : req'[r] = IdleReq
  BY <1>4 DEF AiRequests, IdleReq
<1>8. AiTypes'
  <2>1. restarts' \in 0..MaxRestarts
    BY DEF AiRestart, AiInv, AiTypes, AiTypeOK
  <2>2. frameCount' \in 0..Interval - 1
    BY DEF AiRestart
  <2>3. /\ {activeModel', cfgModel', diskModel'} \subseteq ModelIds
        /\ {detector', pass', detections'} \subseteq ModelIds \cup {None}
    BY <1>2 DEF AiRestart
  <2>4. \A r \in AiReq : req'[r].at = "idle" /\ req'[r].id = None
    BY <1>7 DEF IdleReq
  <2>5. aiOps' \in 0..MaxAiOps /\ overlapped' \subseteq ModelIds
    BY <1>4 DEF AiInv, AiTypes, AiTypeOK
  <2> QED
    BY <1>2, <1>4, <1>6, <1>7, <2>1, <2>2, <2>3, <2>4, <2>5 DEF AiTypes, AiTypeOK
<1>9. RequestsOK'
  BY <1>7 DEF RequestsOK, IdleReq, UploadSteps
<1>10. ASSUME NEW u \in Uploadable \ overlapped PROVE Alone(u)' /\ EntrySound(u)'
  <2>1. EntrySound(u)
    BY DEF AiInv, AiFilesOK
  <2>2. \A r \in AiReq : req'[r].id # u
    BY <1>7 DEF IdleReq
  <2>3. Alone(u)'
    BY <2>2 DEF Alone, Progress
  <2>4. read[u] \in {0, 1} /\ file[u] \in {None, "good"}
    BY <1>2, <1>3, <2>1 DEF EntrySound
  <2>5. manifest'[u] \in {read[u], uploaded'[u]}
    BY <1>1
  <2>6. EntrySound(u)'
    BY <1>4, <1>5, <2>4, <2>5 DEF EntrySound, None
  <2> QED
    BY <2>3, <2>6
<1> QED
  BY <1>4, <1>8, <1>9, <1>10 DEF AiInv, AiFilesOK

LEMMA AiLoopInv == ASSUME AiInv, PassStarts \/ PassEnds \/ UNCHANGED aiVars PROVE AiInv'
<1>1. UNCHANGED <<registryVars, modelVars, req, aiOps, restarts, overlapped>>
  BY DEF PassStarts, PassEnds, aiVars
<1>2. frameCount' \in 0..Interval - 1 /\ {pass', detections'} \subseteq ModelIds \cup {None}
  <2>1. frameCount \in 0..Interval - 1 /\ {detector, pass, detections} \subseteq ModelIds \cup {None}
    BY DEF AiInv, AiTypes, AiTypeOK
  <2>2. (frameCount + 1) % Interval \in 0..Interval - 1
    BY <2>1, AiAssumption
  <2> QED
    BY <2>1, <2>2 DEF PassStarts, PassEnds, aiVars, loopVars
<1>3. AiTypes'
  BY <1>1, <1>2 DEF AiInv, AiTypes, AiTypeOK, registryVars, modelVars
<1>4. RequestsOK'
  BY <1>1 DEF AiInv, RequestsOK
<1>5. AiFilesOK'
  BY <1>1 DEF AiInv, AiFilesOK, Alone, Progress, EntrySound, registryVars
<1> QED
  BY <1>3, <1>4, <1>5 DEF AiInv

LEMMA AiNextInv == AiInv /\ [AiNext]_aiVars => AiInv'
<1> SUFFICES ASSUME AiInv, [AiNext]_aiVars PROVE AiInv'
  OBVIOUS
<1>1. ASSUME NEW r \in AiReq, UploadBegins(r) PROVE AiInv'
  <2>1. PICK id \in ModelIds, body \in {"good", "bad"} :
          ~Listed(id) /\ Begin(r, "upload", id, body, "write")
    BY <1>1 DEF UploadBegins
  <2>2. id \in Uploadable /\ uploaded[id] = 0
    <3>1. uploaded \in [Uploadable -> Nat]
      BY DEF AiInv, AiTypes, AiTypeOK
    <3> QED
      BY <2>1, <3>1 DEF Listed, ModelIds
  <2> QED
    BY <2>1, <2>2, AiBeginInv DEF None
<1>2. ASSUME NEW r \in AiReq, DeleteBegins(r) PROVE AiInv'
  BY <1>2, AiBeginInv DEF DeleteBegins
<1>3. ASSUME NEW r \in AiReq, ActivateBegins(r) PROVE AiInv'
  BY <1>3, AiBeginInv DEF ActivateBegins
<1>4. ASSUME NEW r \in AiReq, ReqStep(r) PROVE AiInv'
  BY <1>4, AiUploadInv, AiDeleteInv, AiActivateInv DEF ReqStep
<1>5. CASE AiRestart
  BY <1>5, AiRestartInv
<1>6. CASE PassStarts \/ PassEnds \/ UNCHANGED aiVars
  BY <1>6, AiLoopInv
<1> QED
  BY <1>1, <1>2, <1>3, <1>4, <1>5, <1>6 DEF AiNext

(* What the registry offers can be loaded: an uploaded model whose id no   *)
(* two requests used at once has one entry and a validated file, whatever  *)
(* write failed and whenever the process restarted                         *)
(* (src/src/ai/registry.rs; src/src/web/api.rs, ai_model_upload, _delete). *)
THEOREM ListedLoadsAlways == AiSpec => []ListedLoads
<1>1. AiInv => ListedLoads
  BY DEF AiInv, AiFilesOK, EntrySound, ListedLoads
<1> QED
  BY AiInitInv, AiNextInv, <1>1, PTL DEF AiSpec

LEMMA I2cSizes ==
  /\ Bits \in Nat /\ Bits >= 1 /\ Clocks \in Nat /\ Clocks >= 1 /\ Count \in Nat /\ Count >= 1
  /\ MaxDeaths \in Nat
BY I2cAssumption

\* There are such powers.
LEMMA PowersOfTwo ==
  /\ \A n \in 0 .. Bits : Power[n] \in Nat \ {0}
  /\ Power[0] = 1
  /\ \A n \in 1 .. Bits : Power[n] = 2 * Power[n - 1]
<1> DEFINE Is(f) == f = [n \in 0 .. Bits |-> IF n = 0 THEN 1 ELSE 2 * f[n - 1]]
           P == Nat \ {0}
           double == [p \in P \X (1 .. Bits) |-> 2 * p[1]]
<1>1. double \in [P \X (1 .. Bits) -> P]
  OBVIOUS
<1>2. \A v \in P, k \in 1 .. Bits : double[<<v, k>>] = 2 * v
  OBVIOUS
<1>3. Bits \in Nat /\ 1 \in P
  BY I2cSizes
<1> HIDE DEF double, P
<1>4. PICK g \in [SUBSET (1 .. Bits) -> P] : FoldsOver(g, Bits, 1, double)
  BY ONLY <1>1, <1>3, FoldExists
<1> DEFINE h == [n \in 0 .. Bits |-> g[1 .. n]]
<1>5. h[0] = 1
  <2>1. 1 .. 0 = {}
    OBVIOUS
  <2>2. g[{}] = 1
    BY <1>4 DEF FoldsOver
  <2> QED
    BY <1>3, <2>1, <2>2
<1>6. ASSUME NEW n \in 1 .. Bits PROVE h[n] = 2 * h[n - 1]
  <2> DEFINE T == 1 .. n
  <2>0. n \in Nat \ {0} /\ n \in 0 .. Bits /\ n - 1 \in 0 .. Bits
    BY <1>3
  <2>1. Max(T) = n /\ T \ {n} = 1 .. (n - 1) /\ T # {}
    BY <2>0, MaxOfRange
  <2>2. T \in SUBSET (1 .. Bits) /\ 1 .. (n - 1) \in SUBSET (1 .. Bits)
    BY <1>3
  <2>3. h[n] = g[T] /\ h[n - 1] = g[1 .. (n - 1)]
    BY <2>0
  <2> HIDE DEF T
  <2>4. g[T] = double[<<g[T \ {Max(T)}], Max(T)>>]
    BY <1>4, <2>1, <2>2 DEF FoldsOver
  <2>5. g[1 .. (n - 1)] \in P
    BY <1>4, <2>2
  <2> QED
    BY <1>2, <2>1, <2>3, <2>4, <2>5
<1>7. \A n \in 0 .. Bits : h[n] \in P
  <2> TAKE n \in 0 .. Bits
  <2>1. 1 .. n \in SUBSET (1 .. Bits)
    BY <1>3
  <2> QED
    BY <1>4, <2>1
<1>8. h = [n \in 0 .. Bits |-> h[n]]
  OBVIOUS
<1> HIDE DEF h
<1>9. Is(h)
  <2>1. \A n \in 0 .. Bits : n # 0 => n \in 1 .. Bits
    BY <1>3
  <2>2. \A n \in 0 .. Bits : h[n] = IF n = 0 THEN 1 ELSE 2 * h[n - 1]
    BY <1>5, <1>6, <2>1
  <2> QED
    BY <1>8, <2>2
<1>10. Power = CHOOSE f : Is(f)
  BY DEF Power
<1> HIDE DEF Is
<1>11. Is(Power)
  BY <1>9, <1>10
<1>12. \A n \in 0 .. Bits : Power[n] = IF n = 0 THEN 1 ELSE 2 * Power[n - 1]
  BY <1>11 DEF Is
<1>13. Power[0] = 1 /\ \A n \in 1 .. Bits : Power[n] = 2 * Power[n - 1]
  BY <1>3, <1>12
<1>14. \A n \in 0 .. Bits : Power[n] \in P
  <2> DEFINE Good == {n \in 0 .. Bits : Power[n] \in P}
  <2>1. 0 \in Good
    BY <1>3, <1>13
  <2>2. \A n \in 1 .. Bits : n - 1 \in Good => n \in Good
    BY <1>3, <1>13 DEF P
  <2> HIDE DEF Good
  <2>3. \A n \in 0 .. Bits : n \in Good
    BY <1>3, <2>1, <2>2, UpTo
  <2> QED
    BY <2>3 DEF Good
<1> QED
  BY <1>13, <1>14 DEF P

-----------------------------------------------------------------------------
(* A byte bit by bit: the first n of them, the highest first.              *)
Top(v, n) == v \div Power[Bits - n]

LEMMA TopBits ==
  ASSUME NEW v \in Bytes
  PROVE  /\ Top(v, 0) = 0 /\ Top(v, Bits) = v
         /\ \A n \in 0 .. Bits : Top(v, n) \in Bytes
         /\ \A n \in 1 .. Bits :
              BitOf(v, n) \in 0 .. 1 /\ Top(v, n) = 2 * Top(v, n - 1) + BitOf(v, n)
<1>0. v \in Nat /\ v < Power[Bits] /\ Power[Bits] \in Nat \ {0} /\ Power[0] = 1
      /\ Bits \in Nat
  BY I2cSizes, PowersOfTwo DEF Bytes
<1>1. Top(v, 0) = 0
  <2>1. v \in 0 .. Power[Bits] - 1
    BY <1>0
  <2>2. (0 * Power[Bits] + v) \div Power[Bits] = 0
    BY ONLY <1>0, <2>1, QuotientIs
  <2>3. 0 * Power[Bits] + v = v
    BY <1>0
  <2> QED
    BY <1>0, <2>2, <2>3 DEF Top
<1>2. Top(v, Bits) = v
  <2>1. Bits - Bits = 0 /\ v \div 1 = v
    BY <1>0
  <2> QED
    BY <1>0, <2>1 DEF Top
<1>3. ASSUME NEW n \in 0 .. Bits PROVE Top(v, n) \in Bytes
  <2> DEFINE d == Power[Bits - n]
             q == v \div d
  <2>1. Bits - n \in 0 .. Bits
    BY <1>0
  <2>2. d \in Nat \ {0}
    BY <2>1, PowersOfTwo
  <2> HIDE DEF d
  <2>3. q \in Nat /\ v = (v % d) + q * d /\ v % d \in 0 .. d - 1
    BY <1>0, <2>2, Division
  <2> HIDE DEF q
  <2>4. q <= q * d
    <3>1. q * (d - 1) \in Nat
      BY <2>2, <2>3
    <3>2. q * d = q * (d - 1) + q
      BY <2>2, <2>3
    <3> QED
      BY <2>3, <3>1, <3>2
  <2>5. q <= v
    <3>1. q * d \in Nat /\ v % d \in Nat
      BY <2>2, <2>3
    <3> QED
      BY <1>0, <2>3, <2>4, <3>1
  <2> QED
    BY <1>0, <2>3, <2>5 DEF Top, Bytes, d, q
<1>4. ASSUME NEW n \in 1 .. Bits
      PROVE  BitOf(v, n) \in 0 .. 1 /\ Top(v, n) = 2 * Top(v, n - 1) + BitOf(v, n)
  <2> DEFINE d == Power[Bits - n]
             q == v \div d
             h == q \div 2
             b == q % 2
  <2>1. Bits - n \in 0 .. Bits /\ Bits - (n - 1) \in 1 .. Bits
        /\ (Bits - (n - 1)) - 1 = Bits - n
    BY <1>0
  <2>2. d \in Nat \ {0} /\ Power[Bits - (n - 1)] = 2 * d
    BY <2>1, PowersOfTwo
  <2> HIDE DEF d
  <2>3. q \in Nat /\ v = (v % d) + q * d /\ v % d \in 0 .. d - 1
    BY <1>0, <2>2, Division
  <2> HIDE DEF q
  <2>4. h \in Nat /\ b \in 0 .. 1 /\ q = 2 * h + b
    BY <2>3
  <2> HIDE DEF h, b
  <2> DEFINE r == (v % d) + b * d
             e == 2 * d
  <2>5. r \in 0 .. e - 1 /\ v = h * e + r /\ e \in Nat \ {0}
    <3>1. q * d = h * e + b * d
      <4>1. q * d = (2 * h + b) * d /\ (2 * h + b) * d = h * (2 * d) + b * d
        BY <2>2, <2>4
      <4> QED
        BY <4>1
    <3>2. b * d \in 0 .. d
      BY <2>2, <2>4
    <3>3. h * e \in Nat /\ e = 2 * d /\ e \in Nat \ {0}
      BY <2>2, <2>4
    <3> DEFINE hh == h * e
               bb == b * d
               m == v % d
    <3>4. v = hh + (m + bb) /\ r = m + bb /\ m \in 0 .. d - 1 /\ bb \in 0 .. d
      BY <2>3, <3>1, <3>2, <3>3
    <3> HIDE DEF hh, bb, m, e, r
    <3>5. r \in 0 .. e - 1
      BY <2>2, <3>3, <3>4
    <3> QED
      BY <3>3, <3>4, <3>5 DEF hh
  <2> HIDE DEF r, e
  <2>6. (h * e + r) \div e = h
    BY ONLY <2>4, <2>5, QuotientIs
  <2>7. Top(v, n - 1) = h
    BY <2>2, <2>5, <2>6 DEF Top, e
  <2>8. Top(v, n) = q /\ BitOf(v, n) = b
    BY DEF Top, BitOf, q, b, d
  <2> QED
    BY <2>4, <2>7, <2>8
<1> QED
  BY <1>1, <1>2, <1>3, <1>4

-----------------------------------------------------------------------------
(* What a line operation makes of the lines; the sensor holds what Holds   *)
(* says, always.                                                           *)
LineOps == {"D0", "D1", "C0", "C1", "R"}
States == {"idle", "addr", "reg", "ack", "send", "mack"}
Sensors == [st : States, n : 0 .. Bits, sh : Bytes, next : States, ptr : Bytes]
Wire == [scl : 0 .. 1, pull : 0 .. 1, sensor : Sensors, seen : 0 .. 1]

Level(p, s) == IF p = 1 /\ Holds(s) = 1 THEN 1 ELSE 0
AfterOf(c0, p0, s0, y0, op) ==
  LET c == IF op = "C0" THEN 0 ELSE IF op = "C1" THEN 1 ELSE c0
      p == IF op = "D0" THEN 0 ELSE IF op = "D1" THEN 1 ELSE p0
      d == Level(p0, s0)
  IN [scl |-> c, pull |-> p,
      sensor |-> Follows(s0, c0, c, d, IF p = 1 /\ Holds(s0) = 1 THEN 1 ELSE 0),
      seen |-> IF op = "R" THEN d ELSE y0]
After(l, op) == AfterOf(l.scl, l.pull, l.sensor, l.seen, op)

\* The rest of a script, which has eight operations at the most.
Does(l, ops, k) == IF k <= Len(ops) THEN After(l, ops[k]) ELSE l
Run(l, ops) ==
  Does(Does(Does(Does(Does(Does(Does(Does(l, ops, 1), ops, 2), ops, 3), ops, 4),
                      ops, 5), ops, 6), ops, 7), ops, 8)
Now == [scl |-> scl, pull |-> pull, sensor |-> sensor, seen |-> seen]

SensorFits(s) ==
  /\ s \in Sensors
  /\ s.st = "send" => s.n # 0
  /\ s.st = "ack" => s.next \in {"reg", "send"}

LEMMA MemoryTyped == \A r \in Nat : Memory(r) \in Bytes
<1> TAKE r \in Nat
<1>1. r * r \in Nat
  OBVIOUS
<1>2. r * r + r + 1 \in Nat /\ Power[Bits] \in Nat \ {0}
  BY <1>1, PowersOfTwo, I2cSizes
<1>3. (r * r + r + 1) % Power[Bits] \in 0 .. Power[Bits] - 1
  BY ONLY <1>2, Division
<1> QED
  BY <1>3 DEF Memory, Bytes

LEMMA HoldsTyped ==
  ASSUME NEW s, SensorFits(s)
  PROVE  Holds(s) \in 0 .. 1 /\ (Holds(s) = 0 => s.st \in {"ack", "send"})
<1>1. s.ptr \in Bytes /\ s.ptr \in Nat /\ s.n \in 0 .. Bits
  BY PowersOfTwo, I2cSizes DEF SensorFits, Sensors, Bytes
<1>2. CASE s.st = "send"
  <2>1. s.n \in 1 .. Bits
    BY <1>1, <1>2 DEF SensorFits
  <2>2. BitOf(Memory(s.ptr), s.n) \in 0 .. 1
    BY <1>1, <2>1, MemoryTyped, TopBits
  <2> QED
    BY <1>2, <2>2 DEF Holds
<1>3. CASE s.st # "send"
  BY <1>3 DEF Holds
<1> QED
  BY <1>2, <1>3

LEMMA ParkedFits ==
  /\ Parked \in Sensors /\ 0 \in Bytes
  /\ \A p \in Bytes : /\ [Parked EXCEPT !.ptr = p] \in Sensors
                      /\ [Parked EXCEPT !.st = "addr", !.ptr = p] \in Sensors
<1>1. 0 \in Bytes /\ 0 \in 0 .. Bits
  BY PowersOfTwo, I2cSizes DEF Bytes
<1> QED
  BY <1>1 DEF Parked, Sensors, States

LEMMA SensorFollows ==
  ASSUME NEW s, SensorFits(s), NEW c, NEW c2, NEW d \in 0 .. 1, NEW d2 \in 0 .. 1
  PROVE  SensorFits(Follows(s, c, c2, d, d2))
<1>0. /\ s \in Sensors /\ Bits \in Nat /\ Power[Bits] \in Nat \ {0} /\ s.sh \in Nat
      /\ s.ptr \in Nat /\ s.n \in 0 .. Bits
  BY PowersOfTwo, I2cSizes DEF SensorFits, Sensors, Bytes
<1>1. ASSUME NEW e \in 0 .. 1 PROVE SensorFits(Rise(s, e))
  <2>1. CASE s.st \in {"addr", "reg"} /\ s.n < Bits
    <3> DEFINE b == (2 * s.sh + e) % Power[Bits]
               r == [s EXCEPT !.sh = b, !.n = s.n + 1]
    <3>1. Rise(s, e) = r
      BY <2>1 DEF Rise
    <3>2. 2 * s.sh + e \in Nat
      BY <1>0
    <3>3. b \in Bytes
      BY <1>0, <3>2, Division DEF Bytes
    <3> HIDE DEF b
    <3>4. s.n + 1 \in 0 .. Bits
      BY <1>0, <2>1
    <3>5. r \in Sensors /\ r.st = s.st
      BY <1>0, <3>3, <3>4 DEF Sensors
    <3> HIDE DEF r
    <3> QED
      BY <2>1, <3>1, <3>5 DEF SensorFits
  <2>2. CASE s.st = "mack"
    <3>1. e \in Bytes
      <4>1. Power[Bits] = 2 * Power[Bits - 1] /\ Power[Bits - 1] \in Nat \ {0}
        BY PowersOfTwo, I2cSizes
      <4> QED
        BY <4>1 DEF Bytes
    <3> DEFINE r == [s EXCEPT !.sh = e]
    <3>2. r \in Sensors /\ r.st = s.st
      BY <1>0, <3>1 DEF Sensors
    <3>3. Rise(s, e) = r
      BY <2>2 DEF Rise
    <3> HIDE DEF r
    <3> QED
      BY <2>2, <3>2, <3>3 DEF SensorFits
  <2>3. CASE ~(s.st \in {"addr", "reg"} /\ s.n < Bits) /\ s.st # "mack"
    BY <2>3 DEF Rise
  <2> QED
    BY <2>1, <2>2, <2>3
<1>2. ASSUME NEW t \in Sensors PROVE SensorFits(Sending(t))
  <2>1. 1 \in 0 .. Bits
    BY I2cSizes
  <2> DEFINE a == [t EXCEPT !.st = "send"]
             r == [a EXCEPT !.n = 1]
  <2>2. a \in Sensors /\ a.st = "send" /\ Sending(t) = r
    BY DEF Sending, Sensors, States
  <2> HIDE DEF a
  <2>3. r \in Sensors /\ r.st = "send" /\ r.n = 1
    BY <2>1, <2>2 DEF Sensors
  <2> HIDE DEF r
  <2> QED
    BY <2>2, <2>3 DEF SensorFits
<1>3. SensorFits(Parked)
  BY ParkedFits DEF SensorFits, Parked
<1>4. SensorFits(Fall(s))
  <2>1. CASE s.st = "addr" /\ s.n = Bits
    <3> DEFINE x == IF s.sh % 2 = 1 THEN "send" ELSE "reg"
               a == [s EXCEPT !.st = "ack"]
               r == [a EXCEPT !.next = x]
    <3>1. Fall(s) = IF s.sh \div 2 = Sensor THEN [s EXCEPT !.st = "ack", !.next = x] ELSE Parked
      BY <2>1 DEF Fall
    <3>2. x \in {"reg", "send"}
      OBVIOUS
    <3> HIDE DEF x
    <3>3. a \in Sensors /\ r = [s EXCEPT !.st = "ack", !.next = x] /\ a.st = "ack"
      BY <1>0 DEF Sensors, States
    <3> HIDE DEF a
    <3>4. r \in Sensors /\ r.st = "ack" /\ r.next = x
      BY <3>2, <3>3 DEF Sensors, States
    <3>5. SensorFits(r)
      <4> HIDE DEF r
      <4> QED
        BY <3>2, <3>4 DEF SensorFits
    <3> QED
      BY <1>3, <3>1, <3>3, <3>5
  <2>2. CASE s.st = "reg" /\ s.n = Bits
    <3> DEFINE a == [s EXCEPT !.st = "ack", !.next = "reg"]
               r == [a EXCEPT !.ptr = s.sh]
    <3>1. Fall(s) = r
      BY <2>2 DEF Fall
    <3>2. a \in Sensors /\ a.st = "ack" /\ a.next = "reg"
      BY <1>0 DEF Sensors, States
    <3>3. s.sh \in Bytes
      BY <1>0 DEF Sensors
    <3> HIDE DEF a
    <3>4. r \in Sensors /\ r.st = "ack" /\ r.next = "reg"
      BY <3>2, <3>3 DEF Sensors
    <3> HIDE DEF r
    <3> QED
      BY <3>1, <3>4 DEF SensorFits
  <2>3. CASE s.st = "ack"
    <3>1. Fall(s) = IF s.next = "send" THEN Sending(s) ELSE [s EXCEPT !.st = s.next, !.n = 0, !.sh = 0]
      BY <2>3 DEF Fall
    <3>2. CASE s.next = "send"
      BY <1>0, <1>2, <3>1, <3>2
    <3>3. CASE s.next # "send"
      <4>1. s.next = "reg"
        BY <2>3, <3>3 DEF SensorFits
      <4> DEFINE a == [s EXCEPT !.st = "reg"]
                 r == [[a EXCEPT !.n = 0] EXCEPT !.sh = 0]
      <4>2. Fall(s) = r
        BY <3>1, <3>3, <4>1
      <4>3. a \in Sensors /\ a.st = "reg"
        BY <1>0 DEF Sensors, States
      <4> HIDE DEF a
      <4>4. 0 \in 0 .. Bits /\ 0 \in Bytes
        <5>1. 0 \in 0 .. Bits
          BY I2cSizes
        <5> QED
          BY <5>1, ParkedFits
      <4>5. r \in Sensors /\ r.st = "reg"
        BY <4>3, <4>4 DEF Sensors
      <4> HIDE DEF r
      <4> QED
        BY <4>2, <4>5 DEF SensorFits
    <3> QED
      BY <3>2, <3>3
  <2>4. CASE s.st = "send"
    <3>1. CASE s.n = Bits
      <4> DEFINE r == [s EXCEPT !.st = "mack"]
      <4>1. Fall(s) = r
        BY <2>4, <3>1 DEF Fall
      <4>2. r \in Sensors /\ r.st = "mack"
        BY <1>0 DEF Sensors, States
      <4> HIDE DEF r
      <4> QED
        BY <4>1, <4>2 DEF SensorFits
    <3>2. CASE s.n # Bits
      <4> DEFINE r == [s EXCEPT !.n = s.n + 1]
      <4>1. Fall(s) = r
        BY <2>4, <3>2 DEF Fall
      <4>2. s.n + 1 \in 0 .. Bits /\ s.n + 1 # 0
        BY <1>0, <3>2
      <4>3. r \in Sensors /\ r.st = "send" /\ r.n = s.n + 1
        BY <1>0, <2>4, <4>2 DEF Sensors
      <4> HIDE DEF r
      <4> QED
        BY <4>1, <4>2, <4>3 DEF SensorFits
    <3> QED
      BY <3>1, <3>2
  <2>5. CASE s.st = "mack"
    <3> DEFINE q == (s.ptr + 1) % Power[Bits]
               t == [s EXCEPT !.ptr = q]
    <3>1. Fall(s) = IF s.sh = 0 THEN Sending(t) ELSE Parked
      BY <2>5 DEF Fall
    <3>2. s.ptr + 1 \in Nat
      BY <1>0
    <3>3. q \in Bytes
      BY <1>0, <3>2, Division DEF Bytes
    <3> HIDE DEF q
    <3>4. t \in Sensors
      BY <1>0, <3>3 DEF Sensors
    <3> HIDE DEF t
    <3> QED
      BY <1>2, <1>3, <3>1, <3>4
  <2>6. CASE /\ ~(s.st \in {"addr", "reg"} /\ s.n = Bits) /\ s.st # "ack" /\ s.st # "send"
             /\ s.st # "mack"
    BY <2>6 DEF Fall
  <2> QED
    BY <2>1, <2>2, <2>3, <2>4, <2>5, <2>6
<1>5. /\ SensorFits([Parked EXCEPT !.st = "addr", !.ptr = s.ptr])
      /\ SensorFits([Parked EXCEPT !.ptr = s.ptr])
  <2>1. s.ptr \in Bytes
    BY <1>0 DEF Sensors
  <2> QED
    BY <2>1, ParkedFits DEF SensorFits, Parked
<1> QED
  BY <1>1, <1>4, <1>5 DEF Follows

LEMMA AfterFits ==
  ASSUME NEW l \in Wire, SensorFits(l.sensor), NEW op \in LineOps
  PROVE  After(l, op) \in Wire /\ SensorFits(After(l, op).sensor)
<1> DEFINE c == IF op = "C0" THEN 0 ELSE IF op = "C1" THEN 1 ELSE l.scl
           p == IF op = "D0" THEN 0 ELSE IF op = "D1" THEN 1 ELSE l.pull
           d == Level(l.pull, l.sensor)
           e == IF p = 1 /\ Holds(l.sensor) = 1 THEN 1 ELSE 0
           s == Follows(l.sensor, l.scl, c, d, e)
           y == IF op = "R" THEN d ELSE l.seen
<1>1. c \in 0 .. 1 /\ p \in 0 .. 1 /\ d \in 0 .. 1 /\ e \in 0 .. 1 /\ y \in 0 .. 1
  BY DEF Wire, Level
<1>2. After(l, op) = [scl |-> c, pull |-> p, sensor |-> s, seen |-> y]
  BY DEF After, AfterOf
<1> HIDE DEF c, p, d, e, y
<1>3. SensorFits(s)
  BY <1>1, SensorFollows
<1> HIDE DEF s
<1> QED
  BY <1>1, <1>2, <1>3 DEF Wire, SensorFits

\* One operation less to do.
LEMMA RunTail ==
  ASSUME NEW l, NEW ops \in Seq(LineOps), ops # <<>>, Len(ops) <= 8
  PROVE  Run(l, ops) = Run(After(l, Head(ops)), Tail(ops))
<1>1. Len(Tail(ops)) = Len(ops) - 1 /\ \A k \in 1 .. Len(ops) - 1 : Tail(ops)[k] = ops[k + 1]
  OBVIOUS
<1>2. Len(ops) \in 1 .. 8
  <2>1. Len(ops) \in Nat
    OBVIOUS
  <2>2. Len(ops) # 0
    BY EmptySeq
  <2> DEFINE n == Len(ops)
  <2>3. n <= 8 /\ n \in Nat /\ n # 0
    BY <2>1, <2>2
  <2> HIDE DEF n
  <2>4. n \in 1 .. 8
    BY ONLY <2>3
  <2> QED
    BY <2>4 DEF n
<1>3. Does(l, ops, 1) = After(l, Head(ops))
  BY <1>2 DEF Does
<1>4. \A x : \A k \in 1 .. 7 : Does(x, Tail(ops), k) = Does(x, ops, k + 1)
  BY <1>1, <1>2 DEF Does
<1>5. \A x : Does(x, Tail(ops), 8) = x
  BY <1>1, <1>2 DEF Does
<1> QED
  BY <1>3, <1>4, <1>5 DEF Run

LEMMA RunNothing == \A l : Run(l, <<>>) = l
BY DEF Run, Does

-----------------------------------------------------------------------------
(* What the master's scripts make of the lines.                            *)
L(c, p, s, y) == [scl |-> c, pull |-> p, sensor |-> s, seen |-> y]
Started(s) == [Parked EXCEPT !.st = "addr", !.ptr = s.ptr]

LEMMA Operation ==
  ASSUME NEW s, NEW p \in 0 .. 1, NEW y
  PROVE  /\ After(L(0, p, s, y), "D0") = L(0, 0, s, y)
         /\ After(L(0, p, s, y), "D1") = L(0, 1, s, y)
         /\ After(L(0, p, s, y), "C1") = L(1, p, Rise(s, Level(p, s)), y)
         /\ After(L(1, p, s, y), "C0") = L(0, p, Fall(s), y)
         /\ \A c \in 0 .. 1 : After(L(c, p, s, y), "R") = L(c, p, s, Level(p, s))
         /\ After(L(1, 1, s, y), "D1") = L(1, 1, s, y)
         /\ After(L(1, p, s, y), "C1") = L(1, p, s, y)
         /\ Holds(s) = 1 => After(L(1, 1, s, y), "D0") = L(1, 0, Started(s), y)
<1> USE DEF After, AfterOf, L, Follows, Level
<1>1. After(L(0, p, s, y), "D0") = L(0, 0, s, y)
  OBVIOUS
<1>2. After(L(0, p, s, y), "D1") = L(0, 1, s, y)
  OBVIOUS
<1>3. After(L(0, p, s, y), "C1") = L(1, p, Rise(s, Level(p, s)), y)
  OBVIOUS
<1>4. After(L(1, p, s, y), "C0") = L(0, p, Fall(s), y)
  OBVIOUS
<1>5. \A c \in 0 .. 1 : After(L(c, p, s, y), "R") = L(c, p, s, Level(p, s))
  OBVIOUS
<1>6. After(L(1, 1, s, y), "D1") = L(1, 1, s, y)
  OBVIOUS
<1>7. After(L(1, p, s, y), "C1") = L(1, p, s, y)
  OBVIOUS
<1>8. Holds(s) = 1 => After(L(1, 1, s, y), "D0") = L(1, 0, Started(s), y)
  BY DEF Started
<1> QED
  BY <1>1, <1>2, <1>3, <1>4, <1>5, <1>6, <1>7, <1>8

LEMMA Run1 ==
  ASSUME NEW l, NEW a
  PROVE  Run(l, <<a>>)
           = After(l, a)
<1> DEFINE ops == <<a>>
<1>1. Len(ops) = 1 /\ ops[1] = a
  OBVIOUS
<1> HIDE DEF ops
<1>2. Run(l, ops)
           = After(l, a)
  BY <1>1 DEF Run, Does
<1> QED
  BY <1>2 DEF ops

LEMMA Run3 ==
  ASSUME NEW l, NEW a, NEW b, NEW c
  PROVE  Run(l, <<a, b, c>>)
           = After(After(After(l, a), b), c)
<1> DEFINE ops == <<a, b, c>>
<1>1. Len(ops) = 3 /\ ops[1] = a /\ ops[2] = b /\ ops[3] = c
  OBVIOUS
<1> HIDE DEF ops
<1>2. Run(l, ops)
           = After(After(After(l, a), b), c)
  BY <1>1 DEF Run, Does
<1> QED
  BY <1>2 DEF ops

LEMMA Run4 ==
  ASSUME NEW l, NEW a, NEW b, NEW c, NEW d
  PROVE  Run(l, <<a, b, c, d>>)
           = After(After(After(After(l, a), b), c), d)
<1> DEFINE ops == <<a, b, c, d>>
<1>1. Len(ops) = 4 /\ ops[1] = a /\ ops[2] = b /\ ops[3] = c /\ ops[4] = d
  OBVIOUS
<1> HIDE DEF ops
<1>2. Run(l, ops)
           = After(After(After(After(l, a), b), c), d)
  BY <1>1 DEF Run, Does
<1> QED
  BY <1>2 DEF ops

LEMMA Run5 ==
  ASSUME NEW l, NEW a, NEW b, NEW c, NEW d, NEW e
  PROVE  Run(l, <<a, b, c, d, e>>)
           = After(After(After(After(After(l, a), b), c), d), e)
<1> DEFINE ops == <<a, b, c, d, e>>
<1>1. Len(ops) = 5 /\ ops[1] = a /\ ops[2] = b /\ ops[3] = c /\ ops[4] = d /\ ops[5] = e
  OBVIOUS
<1> HIDE DEF ops
<1>2. Run(l, ops)
           = After(After(After(After(After(l, a), b), c), d), e)
  BY <1>1 DEF Run, Does
<1> QED
  BY <1>2 DEF ops

LEMMA Run6 ==
  ASSUME NEW l, NEW a, NEW b, NEW c, NEW d, NEW e, NEW f
  PROVE  Run(l, <<a, b, c, d, e, f>>)
           = After(After(After(After(After(After(l, a), b), c), d), e), f)
<1> DEFINE ops == <<a, b, c, d, e, f>>
<1>1. Len(ops) = 6 /\ ops[1] = a /\ ops[2] = b /\ ops[3] = c /\ ops[4] = d /\ ops[5] = e /\ ops[6] = f
  OBVIOUS
<1> HIDE DEF ops
<1>2. Run(l, ops)
           = After(After(After(After(After(After(l, a), b), c), d), e), f)
  BY <1>1 DEF Run, Does
<1> QED
  BY <1>2 DEF ops

LEMMA RunAck ==
  ASSUME NEW l
  PROVE  Run(l, Ack \o ReadBit)
           = Run(After(After(After(After(l, "D0"), "C1"), "C0"), "D1"), ReadBit)
<1> DEFINE ops == Ack \o ReadBit
<1>1. /\ Ack \in Seq(LineOps) /\ ReadBit \in Seq(LineOps)
      /\ Len(Ack) = 4 /\ Ack[1] = "D0" /\ Ack[2] = "C1" /\ Ack[3] = "C0" /\ Ack[4] = "D1"
      /\ Len(ReadBit) = 4 /\ ReadBit[1] = "D1" /\ ReadBit[2] = "C1" /\ ReadBit[3] = "R"
      /\ ReadBit[4] = "C0"
  BY DEF Ack, ReadBit, LineOps
<1>2. Len(ops) = 8 /\ \A k \in 1 .. 8 : ops[k] = IF k <= 4 THEN Ack[k] ELSE ReadBit[k - 4]
  <2> HIDE DEF ops
  <2>1. Len(Ack \o ReadBit) = Len(Ack) + Len(ReadBit)
    BY ONLY <1>1, ConcatProperties
  <2>2. \A k \in 1 .. Len(Ack) + Len(ReadBit) :
          (Ack \o ReadBit)[k] = IF k <= Len(Ack) THEN Ack[k] ELSE ReadBit[k - Len(Ack)]
    BY ONLY <1>1, ConcatProperties
  <2> QED
    BY <1>1, <2>1, <2>2 DEF ops
<1>3. /\ ops[1] = "D0" /\ ops[2] = "C1" /\ ops[3] = "C0" /\ ops[4] = "D1"
      /\ ops[5] = "D1" /\ ops[6] = "C1" /\ ops[7] = "R" /\ ops[8] = "C0"
  BY <1>1, <1>2
<1> HIDE DEF ops
<1>4. Run(l, ops)
        = After(After(After(After(After(After(After(After(l, "D0"), "C1"), "C0"), "D1"),
                                  "D1"), "C1"), "R"), "C0")
  BY <1>2, <1>3 DEF Run, Does
<1>5. \A m : Run(m, ReadBit) = After(After(After(After(m, "D1"), "C1"), "R"), "C0")
  BY Run4 DEF ReadBit
<1> QED
  BY <1>4, <1>5 DEF ops

LEMMA BitWritten ==
  ASSUME NEW s, s.st \in {"addr", "reg"}, NEW p \in 0 .. 1, NEW y, NEW b \in 0 .. 1
  PROVE  Run(L(0, p, s, y), WriteBit(b)) = L(0, b, Fall(Rise(s, b)), y)
<1> DEFINE op == IF b = 1 THEN "D1" ELSE "D0"
<1>1. After(L(0, p, s, y), op) = L(0, b, s, y)
  BY Operation
<1>2. Level(b, s) = b
  BY DEF Level, Holds
<1>3. After(L(0, b, s, y), "C1") = L(1, b, Rise(s, b), y)
  BY <1>2, Operation
<1>4. After(L(1, b, Rise(s, b), y), "C0") = L(0, b, Fall(Rise(s, b)), y)
  BY Operation
<1>5. Run(L(0, p, s, y), <<op, "C1", "C0">>) = After(After(After(L(0, p, s, y), op), "C1"), "C0")
  BY Run3
<1>6. WriteBit(b) = <<op, "C1", "C0">>
  BY DEF WriteBit
<1> HIDE DEF op
<1> QED
  BY <1>1, <1>3, <1>4, <1>5, <1>6

LEMMA BitRead ==
  ASSUME NEW s, SensorFits(s), s.st \in {"ack", "send", "idle"}, NEW p \in 0 .. 1, NEW y
  PROVE  Run(L(0, p, s, y), ReadBit) = L(0, 1, Fall(s), Holds(s))
<1>1. After(L(0, p, s, y), "D1") = L(0, 1, s, y)
  BY Operation
<1>2. Rise(s, Level(1, s)) = s
  BY DEF Rise
<1>3. After(L(0, 1, s, y), "C1") = L(1, 1, s, y)
  BY <1>2, Operation
<1>4. Level(1, s) = Holds(s)
  BY HoldsTyped DEF Level
<1>5. After(L(1, 1, s, y), "R") = L(1, 1, s, Holds(s))
  BY <1>4, Operation
<1>6. After(L(1, 1, s, Holds(s)), "C0") = L(0, 1, Fall(s), Holds(s))
  BY Operation
<1> QED
  BY <1>1, <1>3, <1>5, <1>6, Run4 DEF ReadBit

\* Where nobody holds the data line a START reaches the sensor, whatever it
\* was about.
LEMMA Starts ==
  ASSUME NEW s, SensorFits(s), NEW p \in 0 .. 1, NEW y, NEW c \in 0 .. 1,
         IF c = 1 THEN p = 1 /\ Holds(s) = 1 ELSE s.st = "reg"
  PROVE  Run(L(c, p, s, y), I2cStart) = L(0, 0, Started(s), y)
<1>1. Run(L(c, p, s, y), I2cStart)
        = After(After(After(After(L(c, p, s, y), "D1"), "C1"), "D0"), "C0")
  BY Run4 DEF I2cStart
<1>2. After(L(1, 0, Started(s), y), "C0") = L(0, 0, Started(s), y)
  <2>1. Fall(Started(s)) = Started(s)
    <3>1. Started(s).st = "addr" /\ Started(s).n = 0
      BY DEF Started, Parked
    <3> HIDE DEF Started
    <3>2. Bits # 0
      BY I2cSizes
    <3> QED
      BY <3>1, <3>2 DEF Fall
  <2> QED
    BY <2>1, Operation
<1>3. CASE c = 1
  BY <1>1, <1>2, <1>3, Operation
<1>4. CASE c = 0
  <2>1. After(L(0, p, s, y), "D1") = L(0, 1, s, y)
    BY Operation
  <2> DEFINE r == Rise(s, Level(1, s))
  <2>2. After(L(0, 1, s, y), "C1") = L(1, 1, r, y)
    BY Operation
  <2>3. r.st = "reg" /\ r.ptr = s.ptr
    BY <1>4 DEF Rise, SensorFits, Sensors
  <2> HIDE DEF r
  <2>4. Holds(r) = 1 /\ Started(r) = Started(s)
    BY <2>3 DEF Holds, Started
  <2>5. After(L(1, 1, r, y), "D0") = L(1, 0, Started(s), y)
    BY <2>4, Operation
  <2> QED
    BY <1>1, <1>2, <1>4, <2>1, <2>2, <2>5
<1> QED
  BY <1>3, <1>4

\* The byte is acknowledged, and the first bit of the next one is read.
LEMMA AckedRead ==
  ASSUME NEW s, SensorFits(s), s.st = "mack", NEW p \in 0 .. 1, NEW y
  PROVE  LET t == Sending([[s EXCEPT !.sh = 0] EXCEPT !.ptr = (s.ptr + 1) % Power[Bits]]) IN
         SensorFits(t) /\ Run(L(0, p, s, y), Ack \o ReadBit) = L(0, 1, Fall(t), Holds(t))
<1> DEFINE r == [s EXCEPT !.sh = 0]
           t == Sending([r EXCEPT !.ptr = (s.ptr + 1) % Power[Bits]])
<1>2. Rise(s, Level(0, s)) = r
  BY DEF Rise, Level
<1>3. r.st = "mack" /\ r.sh = 0 /\ r.ptr = s.ptr
  BY DEF SensorFits, Sensors
<1>4. Fall(r) = t
  BY <1>3 DEF Fall
<1>5. SensorFits(t)
  <2>1. SensorFits(r)
    <3>1. r \in Sensors
      BY ParkedFits DEF SensorFits, Sensors
    <3> QED
      BY <1>3, <3>1 DEF SensorFits
  <2>2. Follows(r, 1, 0, 0, 0) = Fall(r)
    BY DEF Follows
  <2>3. SensorFits(Follows(r, 1, 0, 0, 0))
    BY <2>1, SensorFollows
  <2> QED
    BY <1>4, <2>2, <2>3
<1>6. t.st = "send"
  <2> DEFINE v == (s.ptr + 1) % Power[Bits]
             q == [r EXCEPT !.ptr = v]
             a == [q EXCEPT !.st = "send"]
             b == [a EXCEPT !.n = 1]
  <2>1. s.ptr + 1 \in Nat /\ Power[Bits] \in Nat \ {0}
    BY PowersOfTwo, I2cSizes DEF SensorFits, Sensors, Bytes
  <2>2. v \in Bytes
    BY <2>1, Division DEF Bytes
  <2>3. t = b
    BY DEF Sending
  <2> HIDE DEF v
  <2>4. r \in Sensors
    BY ParkedFits DEF SensorFits, Sensors
  <2> HIDE DEF r
  <2>5. q \in Sensors
    BY <2>2, <2>4 DEF Sensors
  <2> HIDE DEF q
  <2>6. a.st = "send" /\ a \in Sensors
    BY <2>5 DEF Sensors, States
  <2> HIDE DEF a
  <2>7. b.st = "send"
    BY <2>6 DEF Sensors
  <2> QED
    BY <2>3, <2>7
<1> HIDE DEF t, r
<1>7. After(L(0, p, s, y), "D0") = L(0, 0, s, y)
  BY Operation
<1>8. After(L(0, 0, s, y), "C1") = L(1, 0, r, y)
  BY <1>2, Operation
<1>9. After(L(1, 0, r, y), "C0") = L(0, 0, t, y)
  BY <1>4, Operation
<1>10. After(L(0, 0, t, y), "D1") = L(0, 1, t, y)
  BY Operation
<1>11. Run(L(0, 1, t, y), ReadBit) = L(0, 1, Fall(t), Holds(t))
  BY <1>5, <1>6, BitRead
<1>12. Run(L(0, p, s, y), Ack \o ReadBit) = L(0, 1, Fall(t), Holds(t))
  BY <1>7, <1>8, <1>9, <1>10, <1>11, RunAck
<1> QED
  BY <1>5, <1>12 DEF t, r

-----------------------------------------------------------------------------
(* ReadsRight, for any sensor, memory size, read, recovery and death.  When*)
(* the script of a step has run out, the lines and the sensor are where    *)
(* that step means them to be: the next bit of the byte sent or read is the*)
(* one the sensor is at.                                                   *)
Looking == {"open", "check", "recover"}
Sends == {"addrW", "reg", "addrR"}
Steps == [what : Looking \cup Sends \cup {"data", "done"}, byte : Nat, bit : Nat]

Payload(what, a, r) == IF what = "addrW" THEN 2 * a
                       ELSE IF what = "reg" THEN r ELSE 2 * a + 1

\* The lines are released and the data line was looked at.
LooksRight(w, st) ==
  st.bit = 0 /\ w.scl = 1 /\ w.pull = 1 /\ w.seen = Holds(w.sensor)

Shifting(s, st) ==
  /\ s.st = (IF st.what = "reg" THEN "reg" ELSE "addr")
  /\ s.n = st.bit - 1 /\ s.sh = Top(st.byte, st.bit - 1)
WillAnswer(s, st, a) ==
  IF a = Sensor
  THEN s.st = "ack" /\ s.next = (IF st.what = "addrR" THEN "send" ELSE "reg")
  ELSE s.st = "idle"
Answered(s, st) ==
  IF st.what = "addrR" THEN s.st = "send" /\ s.n = 1
  ELSE s.st = "reg" /\ s.n = 0 /\ s.sh = 0

SendsRight(w, st, a, r, g) ==
  /\ st.byte = Payload(st.what, a, r) /\ st.bit \in 1 .. Bits + 2 /\ w.scl = 0 /\ g = <<>>
  /\ st.what # "addrW" => a = Sensor
  /\ st.what = "addrR" \/ (st.what = "reg" /\ st.bit > Bits) => w.sensor.ptr = r
  /\ st.bit <= Bits => Shifting(w.sensor, st)
  /\ st.bit = Bits + 1 => WillAnswer(w.sensor, st, a)
  /\ st.bit = Bits + 2 => /\ w.seen = 0 <=> a = Sensor
                          /\ a = Sensor => Answered(w.sensor, st)

\* The bytes read are those of the memory, in order.
Fetched(g, r) == \A i \in 1 .. Len(g) : g[i] = Memory((r + i - 1) % Power[Bits])

DataRight(w, st, r, g) ==
  LET m == Memory(w.sensor.ptr) IN
  /\ w.scl = 0 /\ st.bit \in 0 .. Bits - 1 /\ Len(g) < Count /\ Fetched(g, r)
  /\ w.sensor.ptr = (r + Len(g)) % Power[Bits]
  /\ st.byte = Top(m, st.bit) /\ w.seen = BitOf(m, st.bit + 1)
  /\ IF st.bit + 1 < Bits THEN w.sensor.st = "send" /\ w.sensor.n = st.bit + 2
     ELSE w.sensor.st = "mack"

Meant(w, st, a, r, g) ==
  /\ st \in Steps
  /\ st.what \in Looking => LooksRight(w, st)
  /\ st.what \in Sends => SendsRight(w, st, a, r, g)
  /\ st.what = "data" => DataRight(w, st, r, g)
  /\ st.what = "done" => st.bit = 0 /\ Len(g) = Count /\ Fetched(g, r)

WiresOK ==
  /\ Now \in Wire /\ SensorFits(sensor) /\ hold = Holds(sensor)
  /\ script \in Seq(LineOps) /\ Len(script) <= 8
ReadOK ==
  /\ clocks \in 0 .. Clocks /\ register \in Bytes /\ address \in Addresses
  /\ got \in Seq(Bytes) /\ Len(got) <= Count
  /\ step.what \notin {"check", "recover"} => clocks = 0

I2cInv == WiresOK /\ ReadOK /\ Meant(Run(Now, script), step, address, register, got)

LEMMA Numbers ==
  /\ Power[Bits] \in Nat \ {0} /\ 0 \in Bytes
  /\ \A a \in Addresses : 2 * a \in Bytes /\ 2 * a + 1 \in Bytes /\ a \in Nat
  /\ Sensor \in Addresses
<1>0. Power[Bits - 1] \in Nat \ {0} /\ Power[Bits] = 2 * Power[Bits - 1]
  BY PowersOfTwo, I2cSizes
<1> DEFINE h == Power[Bits - 1]
<1> HIDE DEF h
<1>1. h \in Nat \ {0} /\ Power[Bits] = 2 * h
  BY <1>0 DEF h
<1>2. Sensor \in 0 .. h - 1
  BY I2cAssumption DEF h
<1>3. Sensor + 1 \in Nat
  BY <1>1, <1>2
<1>4. (Sensor + 1) % h \in 0 .. h - 1
  BY ONLY <1>1, <1>3, Division
<1>5. Addresses \subseteq 0 .. h - 1
  BY <1>2, <1>4 DEF Addresses, h
<1>6. \A a \in 0 .. h - 1 : 2 * a \in Bytes /\ 2 * a + 1 \in Bytes /\ a \in Nat
  BY <1>1 DEF Bytes
<1>7. Sensor \in Addresses
  BY DEF Addresses
<1>8. 0 \in Bytes
  BY ParkedFits
<1> HIDE DEF h
<1>9. \A a \in Addresses : a \in 0 .. h - 1
  BY <1>5
<1> QED
  BY <1>1, <1>6, <1>7, <1>8, <1>9

LEMMA NowIs == Now = L(scl, pull, sensor, seen)
BY DEF Now, L

LEMMA LFields ==
  \A c, p, s, y : /\ L(c, p, s, y).scl = c /\ L(c, p, s, y).pull = p
                  /\ L(c, p, s, y).sensor = s /\ L(c, p, s, y).seen = y
BY DEF L

LEMMA NowTyped ==
  ASSUME WiresOK
  PROVE  scl \in 0 .. 1 /\ pull \in 0 .. 1 /\ seen \in 0 .. 1 /\ sensor \in Sensors
<1>1. Now \in Wire
  BY DEF WiresOK
<1> QED
  BY <1>1 DEF Wire, Now

LEMMA Scripts ==
  /\ \A s \in {I2cStart, Stop, ReadBit, Ack, Nak, OpenScript, <<"R">>, <<"C0", "C1", "R">>,
               <<"C0", "D0", "C1", "D1", "R">>, <<>>} :
       s \in Seq(LineOps) /\ Len(s) <= 8
  /\ \A b \in 0 .. 1 : WriteBit(b) \in Seq(LineOps) /\ Len(WriteBit(b)) <= 8
  /\ \A s \in {Ack \o ReadBit, Nak \o Stop, Stop \o OpenScript} :
       s \in Seq(LineOps) /\ Len(s) <= 8
<1>1. I2cStart \in Seq(LineOps) /\ Len(I2cStart) = 4
  BY DEF I2cStart, LineOps
<1>2. Stop \in Seq(LineOps) /\ Len(Stop) = 3
  BY DEF Stop, LineOps
<1>3. ReadBit \in Seq(LineOps) /\ Len(ReadBit) = 4
  BY DEF ReadBit, LineOps
<1>4. Ack \in Seq(LineOps) /\ Len(Ack) = 4
  BY DEF Ack, LineOps
<1>5. Nak \in Seq(LineOps) /\ Len(Nak) = 3
  BY DEF Nak, LineOps
<1>6. OpenScript \in Seq(LineOps) /\ Len(OpenScript) = 3
  BY DEF OpenScript, LineOps
<1>7. /\ <<"R">> \in Seq(LineOps) /\ Len(<<"R">>) <= 8
      /\ <<"C0", "C1", "R">> \in Seq(LineOps) /\ Len(<<"C0", "C1", "R">>) <= 8
      /\ <<"C0", "D0", "C1", "D1", "R">> \in Seq(LineOps)
      /\ Len(<<"C0", "D0", "C1", "D1", "R">>) <= 8
      /\ <<>> \in Seq(LineOps) /\ Len(<<>>) <= 8
  BY DEF LineOps
<1>8. \A b \in 0 .. 1 : WriteBit(b) \in Seq(LineOps) /\ Len(WriteBit(b)) <= 8
  BY DEF WriteBit, LineOps
<1>9. Ack \o ReadBit \in Seq(LineOps) /\ Len(Ack \o ReadBit) = 8
  <2>1. Ack \o ReadBit \in Seq(LineOps) /\ Len(Ack \o ReadBit) = Len(Ack) + Len(ReadBit)
    BY ONLY <1>3, <1>4, ConcatProperties
  <2> QED
    BY <1>3, <1>4, <2>1
<1>10. Nak \o Stop \in Seq(LineOps) /\ Len(Nak \o Stop) = 6
  <2>1. Nak \o Stop \in Seq(LineOps) /\ Len(Nak \o Stop) = Len(Nak) + Len(Stop)
    BY ONLY <1>2, <1>5, ConcatProperties
  <2> QED
    BY <1>2, <1>5, <2>1
<1>11. Stop \o OpenScript \in Seq(LineOps) /\ Len(Stop \o OpenScript) = 6
  <2>1. Stop \o OpenScript \in Seq(LineOps)
        /\ Len(Stop \o OpenScript) = Len(Stop) + Len(OpenScript)
    BY ONLY <1>2, <1>6, ConcatProperties
  <2> QED
    BY <1>2, <1>6, <2>1
<1> QED
  BY <1>1, <1>2, <1>3, <1>4, <1>5, <1>6, <1>7, <1>8, <1>9, <1>10, <1>11

-----------------------------------------------------------------------------
(* A line operation leaves the end of the script where it was.             *)
LEMMA LineAfter ==
  ASSUME WiresOK, Line
  PROVE  Now' = After(Now, Head(script)) /\ script' = Tail(script) /\ script # <<>>
         /\ hold' = Holds(sensor') /\ UNCHANGED <<step, clocks, address, register, got, deaths>>
<1> DEFINE op == Head(script)
           c == IF op = "C0" THEN 0 ELSE IF op = "C1" THEN 1 ELSE scl
           p == IF op = "D0" THEN 0 ELSE IF op = "D1" THEN 1 ELSE pull
           d == IF p = 1 /\ hold = 1 THEN 1 ELSE 0
           s == Follows(sensor, scl, c, Sda, d)
<1>1. /\ script # <<>> /\ script' = Tail(script)
      /\ scl' = c /\ pull' = p /\ sensor' = s /\ hold' = Holds(s)
      /\ seen' = (IF op = "R" THEN Sda ELSE seen)
      /\ UNCHANGED <<step, clocks, address, register, got, deaths>>
  BY Zenon DEF Line
<1>2. hold = Holds(sensor)
  BY DEF WiresOK
<1>3. Sda = Level(pull, sensor)
  BY <1>2 DEF Sda, Level
<1>4. After(Now, op) = [scl |-> c, pull |-> p, sensor |-> s,
                        seen |-> IF op = "R" THEN Sda ELSE seen]
  <2>1. Now.scl = scl /\ Now.pull = pull /\ Now.sensor = sensor /\ Now.seen = seen
    BY DEF Now
  <2>2. d = IF p = 1 /\ Holds(sensor) = 1 THEN 1 ELSE 0
    BY <1>2
  <2> DEFINE e == IF p = 1 /\ Holds(sensor) = 1 THEN 1 ELSE 0
             z == Level(pull, sensor)
             y == IF op = "R" THEN z ELSE seen
  <2>3. After(Now, op) = [scl |-> c, pull |-> p, sensor |-> Follows(sensor, scl, c, z, e),
                          seen |-> y]
    <3> HIDE DEF op
    <3>1. After(Now, op) = AfterOf(scl, pull, sensor, seen, op)
      BY <2>1 DEF After
    <3> QED
      BY <3>1 DEF AfterOf
  <2>4. s = Follows(sensor, scl, c, z, e) /\ y = IF op = "R" THEN Sda ELSE seen
    BY <1>3, <2>2
  <2> HIDE DEF s, y, z, e, d
  <2> QED
    BY <2>3, <2>4
<1>5. Now' = [scl |-> scl', pull |-> pull', sensor |-> sensor', seen |-> seen']
  BY DEF Now
<1> QED
  BY <1>1, <1>4, <1>5

LEMMA LineInv == ASSUME I2cInv, Line PROVE I2cInv'
<1>0. WiresOK /\ ReadOK /\ Meant(Run(Now, script), step, address, register, got)
  BY DEF I2cInv
<1>1. /\ Now' = After(Now, Head(script)) /\ script' = Tail(script) /\ script # <<>>
      /\ hold' = Holds(sensor') /\ UNCHANGED <<step, clocks, address, register, got, deaths>>
  BY <1>0, LineAfter
<1>2. Now \in Wire /\ script \in Seq(LineOps) /\ Len(script) <= 8 /\ SensorFits(Now.sensor)
  BY <1>0 DEF WiresOK, Now
<1>3. /\ Head(script) \in LineOps /\ Tail(script) \in Seq(LineOps)
      /\ Len(Tail(script)) = Len(script) - 1 /\ Len(script) \in Nat
  BY <1>1, <1>2
<1>4. After(Now, Head(script)) \in Wire /\ SensorFits(After(Now, Head(script)).sensor)
  BY ONLY <1>2, <1>3, AfterFits
<1>5. Now'.sensor = sensor'
  BY DEF Now
<1>6. WiresOK'
  BY <1>1, <1>2, <1>3, <1>4, <1>5 DEF WiresOK
<1>7. Run(Now', script') = Run(Now, script)
  BY <1>1, <1>2, RunTail
<1>8. ReadOK'
  BY <1>0, <1>1 DEF ReadOK
<1> QED
  BY <1>0, <1>1, <1>6, <1>7, <1>8 DEF I2cInv

\* What a step has to show: a new script, and what it comes to.
LEMMA GoesOn ==
  ASSUME I2cInv, UNCHANGED Lines, script' \in Seq(LineOps), Len(script') <= 8, ReadOK',
         Meant(Run(Now, script'), step', address', register', got')
  PROVE  I2cInv'
<1>1. WiresOK'
  BY DEF I2cInv, WiresOK, Lines, Now
<1>2. Now' = Now
  BY DEF Now, Lines
<1> QED
  BY <1>1, <1>2 DEF I2cInv

-----------------------------------------------------------------------------
(* The scripts that look at the data line.                                 *)
LEMMA AfterLines ==
  ASSUME NEW l
  PROVE  /\ After(l, "C0").scl = 0 /\ After(l, "C0").pull = l.pull
         /\ After(l, "C1").scl = 1 /\ After(l, "C1").pull = l.pull
         /\ After(l, "D0").scl = l.scl /\ After(l, "D0").pull = 0
         /\ After(l, "D1").scl = l.scl /\ After(l, "D1").pull = 1
<1>1. ASSUME NEW c, NEW p, NEW s, NEW y, NEW op
      PROVE  AfterOf(c, p, s, y, op).scl
               = IF op = "C0" THEN 0 ELSE IF op = "C1" THEN 1 ELSE c
  BY DEF AfterOf
<1>2. ASSUME NEW c, NEW p, NEW s, NEW y, NEW op
      PROVE  AfterOf(c, p, s, y, op).pull
               = IF op = "D0" THEN 0 ELSE IF op = "D1" THEN 1 ELSE p
  BY DEF AfterOf
<1> QED
  BY <1>1, <1>2 DEF After

Seen(w) == w.scl = 1 /\ w.pull = 1 /\ w.seen = Holds(w.sensor)

LEMMA Looked ==
  ASSUME NEW l \in Wire, SensorFits(l.sensor), l.scl = 1, l.pull = 1
  PROVE  Seen(After(l, "R"))
<1>1. Level(1, l.sensor) = Holds(l.sensor)
  BY HoldsTyped DEF Level
<1>2. \A s, d : Follows(s, 1, 1, d, d) = s
  BY DEF Follows
<1>3. After(l, "R") = [scl |-> 1, pull |-> 1, sensor |-> l.sensor, seen |-> Holds(l.sensor)]
  <2> DEFINE s == l.sensor
             d == Level(1, s)
  <2>1. After(l, "R") = AfterOf(1, 1, s, l.seen, "R")
    BY DEF After
  <2>2. AfterOf(1, 1, s, l.seen, "R") = [scl |-> 1, pull |-> 1, sensor |-> s, seen |-> d]
    BY <1>2 DEF AfterOf, Level
  <2> QED
    BY <1>1, <2>1, <2>2
<1> QED
  BY <1>3 DEF Seen

LEMMA LooksTyped ==
  ASSUME NEW l \in Wire, SensorFits(l.sensor)
  PROVE  /\ Seen(Run(l, OpenScript))
         /\ l.pull = 1 => /\ Seen(Run(l, <<"C0", "C1", "R">>))
                          /\ Seen(Run(l, <<"C0", "D0", "C1", "D1", "R">>))
                          /\ l.scl = 1 => Seen(Run(l, <<"R">>))
<1> DEFINE Fits(w) == w \in Wire /\ SensorFits(w.sensor)
<1>0. \A w : Fits(w) => \A op \in LineOps : Fits(After(w, op))
  BY AfterFits
<1>1. Fits(l) /\ "C0" \in LineOps /\ "C1" \in LineOps /\ "D0" \in LineOps /\ "D1" \in LineOps
  BY DEF LineOps
<1>2. \A w : Fits(w) /\ w.scl = 1 /\ w.pull = 1 => Seen(After(w, "R"))
  BY Looked
<1> HIDE DEF Fits
<1>3. Seen(Run(l, OpenScript))
  <2> DEFINE a == After(l, "D1")
             b == After(a, "C1")
  <2>1. Fits(a) /\ a.pull = 1
    BY <1>0, <1>1, AfterLines
  <2> HIDE DEF a
  <2>2. Fits(b) /\ b.pull = 1 /\ b.scl = 1
    BY <1>0, <1>1, <2>1, AfterLines
  <2>3. Run(l, OpenScript) = After(b, "R")
    BY Run3 DEF OpenScript, a
  <2> HIDE DEF b
  <2> QED
    BY <1>2, <2>2, <2>3
<1>4. ASSUME l.pull = 1 PROVE Seen(Run(l, <<"C0", "C1", "R">>))
  <2> DEFINE a == After(l, "C0")
             b == After(a, "C1")
  <2>1. Fits(a) /\ a.pull = 1
    BY <1>0, <1>1, <1>4, AfterLines
  <2> HIDE DEF a
  <2>2. Fits(b) /\ b.pull = 1 /\ b.scl = 1
    BY <1>0, <1>1, <2>1, AfterLines
  <2>3. Run(l, <<"C0", "C1", "R">>) = After(b, "R")
    BY Run3 DEF a
  <2> HIDE DEF b
  <2> QED
    BY <1>2, <2>2, <2>3
<1>5. Seen(Run(l, <<"C0", "D0", "C1", "D1", "R">>))
  <2> DEFINE a == After(l, "C0")
             b == After(a, "D0")
             c == After(b, "C1")
             d == After(c, "D1")
  <2>1. Fits(a)
    BY <1>0, <1>1
  <2>0. Run(l, <<"C0", "D0", "C1", "D1", "R">>) = After(d, "R")
    BY Run5
  <2> HIDE DEF a
  <2>2. Fits(b)
    BY <1>0, <1>1, <2>1
  <2> HIDE DEF b
  <2>3. Fits(c) /\ c.scl = 1
    BY <1>0, <1>1, <2>2, AfterLines
  <2> HIDE DEF c
  <2>4. Fits(d) /\ d.scl = 1 /\ d.pull = 1
    BY <1>0, <1>1, <2>3, AfterLines
  <2> HIDE DEF d
  <2> QED
    BY <1>2, <2>0, <2>4
<1>6. ASSUME l.pull = 1, l.scl = 1 PROVE Seen(Run(l, <<"R">>))
  BY <1>1, <1>2, <1>6, Run1
<1> QED
  BY <1>3, <1>4, <1>5, <1>6

\* After a STOP, likewise.
LEMMA StopsLooking ==
  ASSUME NEW l \in Wire, SensorFits(l.sensor)
  PROVE  Seen(Run(l, Stop \o OpenScript))
<1> DEFINE ops == Stop \o OpenScript
           m == After(After(After(l, "D0"), "C1"), "D1")
<1>1. /\ Stop \in Seq(LineOps) /\ OpenScript \in Seq(LineOps)
      /\ Len(Stop) = 3 /\ Stop[1] = "D0" /\ Stop[2] = "C1" /\ Stop[3] = "D1"
      /\ Len(OpenScript) = 3 /\ OpenScript[1] = "D1" /\ OpenScript[2] = "C1"
      /\ OpenScript[3] = "R"
  BY DEF Stop, OpenScript, LineOps
<1>2. Len(ops) = 6 /\ \A k \in 1 .. 6 : ops[k] = IF k <= 3 THEN Stop[k] ELSE OpenScript[k - 3]
  <2> HIDE DEF ops
  <2>1. Len(Stop \o OpenScript) = Len(Stop) + Len(OpenScript)
    BY ONLY <1>1, ConcatProperties
  <2>2. \A k \in 1 .. Len(Stop) + Len(OpenScript) :
          (Stop \o OpenScript)[k] = IF k <= Len(Stop) THEN Stop[k] ELSE OpenScript[k - Len(Stop)]
    BY ONLY <1>1, ConcatProperties
  <2> QED
    BY <1>1, <2>1, <2>2 DEF ops
<1>3. /\ ops[1] = "D0" /\ ops[2] = "C1" /\ ops[3] = "D1"
      /\ ops[4] = "D1" /\ ops[5] = "C1" /\ ops[6] = "R"
  BY <1>1, <1>2
<1> HIDE DEF ops
<1>4. Run(l, ops) = After(After(After(m, "D1"), "C1"), "R")
  BY <1>2, <1>3 DEF Run, Does
<1>5. m \in Wire /\ SensorFits(m.sensor)
  <2> DEFINE Fits(w) == w \in Wire /\ SensorFits(w.sensor)
  <2>0. \A w : Fits(w) => \A op \in LineOps : Fits(After(w, op))
    BY AfterFits
  <2>1. Fits(l) /\ "C1" \in LineOps /\ "D0" \in LineOps /\ "D1" \in LineOps
    BY DEF LineOps
  <2> HIDE DEF Fits
  <2>2. Fits(m)
    BY <2>0, <2>1
  <2> QED
    BY <2>2 DEF Fits
<1> HIDE DEF m
<1>6. Run(m, OpenScript) = After(After(After(m, "D1"), "C1"), "R")
  BY Run3 DEF OpenScript
<1>7. Seen(Run(m, OpenScript))
  BY <1>5, LooksTyped
<1> QED
  BY <1>4, <1>6, <1>7 DEF ops

-----------------------------------------------------------------------------
(* The master's steps.                                                     *)
\* What is known where a script has run out.
LEMMA Ran ==
  ASSUME I2cInv, script = <<>>
  PROVE  /\ Now \in Wire /\ SensorFits(sensor) /\ SensorFits(Now.sensor) /\ ReadOK
         /\ Meant(Now, step, address, register, got)
         /\ Now = L(scl, pull, sensor, seen)
         /\ scl \in 0 .. 1 /\ pull \in 0 .. 1 /\ seen \in 0 .. 1
         /\ Now.scl = scl /\ Now.pull = pull /\ Now.sensor = sensor /\ Now.seen = seen
         /\ step \in Steps
<1>1. Run(Now, script) = Now
  BY RunNothing
<1>2. Now.scl = scl /\ Now.pull = pull /\ Now.sensor = sensor /\ Now.seen = seen
  BY DEF Now
<1>3. WiresOK
  BY DEF I2cInv
<1>4. scl \in 0 .. 1 /\ pull \in 0 .. 1 /\ seen \in 0 .. 1
  BY <1>3, NowTyped
<1>5. Meant(Now, step, address, register, got)
  BY <1>1 DEF I2cInv
<1> QED
  BY <1>2, <1>3, <1>4, <1>5, NowIs DEF I2cInv, WiresOK, Meant

\* A step that looks.
LEMMA LooksOn ==
  ASSUME I2cInv, NEW what, what \in Looking, Go(StepAt(what, 0, 0), script'),
         script' \in Seq(LineOps), Len(script') <= 8, ReadOK', Seen(Run(Now, script'))
  PROVE  I2cInv'
<1>1. step' = StepAt(what, 0, 0) /\ UNCHANGED Lines
  BY DEF Go
<1> DEFINE st == StepAt(what, 0, 0)
<1>2. st \in Steps /\ st.what = what /\ st.bit = 0
  BY DEF StepAt, Steps
<1>3. what \notin Sends /\ what # "data" /\ what # "done"
  BY DEF Looking, Sends
<1> HIDE DEF st
<1>4. Meant(Run(Now, script'), st, address', register', got')
  BY <1>2, <1>3 DEF Meant, LooksRight, Seen
<1> QED
  BY <1>1, <1>4, GoesOn DEF st

LEMMA LooksInv ==
  ASSUME I2cInv, RecoverClock \/ RecoverEnds \/ CheckedLow \/ NextRead \/ Die
  PROVE  I2cInv'
<1>0. Now \in Wire /\ SensorFits(Now.sensor) /\ ReadOK /\ WiresOK
  BY NowTyped DEF I2cInv, WiresOK, Now
<1>1. Opening = StepAt("open", 0, 0)
  BY DEF Opening
<1>2. CASE RecoverClock
  <2>1. /\ step.what \in Looking /\ (step.what = "open" \/ clocks < Clocks)
        /\ clocks' = clocks + 1 /\ UNCHANGED <<address, register, got>>
        /\ script = <<>> /\ script' = <<"C0", "C1", "R">>
        /\ Go(StepAt("recover", 0, 0), script')
    BY <1>2 DEF RecoverClock, Go, Looking
  <2>2. LooksRight(Now, step)
    BY <2>1, Ran DEF Meant
  <2>3. Seen(Run(Now, script'))
    BY <1>0, <2>1, <2>2, LooksTyped DEF LooksRight
  <2>4. clocks' \in 0 .. Clocks
    <3>1. clocks \in 0 .. Clocks /\ (clocks = 0 \/ clocks < Clocks)
      BY <1>0, <2>1 DEF ReadOK
    <3> QED
      BY <2>1, <3>1, I2cSizes
  <2>5. step' = StepAt("recover", 0, 0)
    BY <2>1 DEF Go
  <2>6. ReadOK'
    BY <1>0, <2>1, <2>4, <2>5 DEF ReadOK, StepAt
  <2>7. script' \in Seq(LineOps) /\ Len(script') <= 8
    BY <2>1, Scripts
  <2>8. "recover" \in Looking
    BY DEF Looking
  <2> QED
    BY ONLY I2cInv, <2>1, <2>3, <2>6, <2>7, <2>8, LooksOn
<1>3. CASE RecoverEnds
  <2> DEFINE ops == IF seen = 1 THEN <<"C0", "D0", "C1", "D1", "R">> ELSE <<"R">>
  <2>1. /\ step.what \in Looking /\ UNCHANGED <<clocks, address, register, got>>
        /\ script = <<>> /\ script' = ops
        /\ Go(StepAt("check", 0, 0), script')
    BY <1>3 DEF RecoverEnds, Go, Looking
  <2>2. LooksRight(Now, step)
    BY <2>1, Ran DEF Meant
  <2>3. Seen(Run(Now, script'))
    BY <1>0, <2>1, <2>2, LooksTyped DEF LooksRight
  <2>5. step' = StepAt("check", 0, 0)
    BY <2>1 DEF Go
  <2>6. ReadOK'
    BY <1>0, <2>1, <2>5 DEF ReadOK, StepAt
  <2>7. script' \in Seq(LineOps) /\ Len(script') <= 8
    BY <2>1, Scripts
  <2>8. "check" \in Looking
    BY DEF Looking
  <2> QED
    BY ONLY I2cInv, <2>1, <2>3, <2>6, <2>7, <2>8, LooksOn
<1>4. CASE CheckedLow \/ NextRead \/ Die
  <2>1. /\ step' = Opening /\ script' = OpenScript /\ UNCHANGED Lines
        /\ clocks' = 0 /\ UNCHANGED got
        /\ register' \in Bytes /\ address' \in Addresses
    <3>1. CASE CheckedLow
      BY <1>0, <3>1 DEF CheckedLow, Go, ReadOK
    <3>2. CASE NextRead
      BY <3>2 DEF NextRead, Go
    <3>3. CASE Die
      BY <1>0, <3>3 DEF Die, ReadOK
    <3> QED
      BY <1>4, <3>1, <3>2, <3>3
  <2>3. Seen(Run(Now, script'))
    BY <1>0, <2>1, LooksTyped
  <2>6. ReadOK'
    BY <1>0, <2>1, I2cSizes DEF ReadOK
  <2>7. script' \in Seq(LineOps) /\ Len(script') <= 8
    BY <2>1, Scripts
  <2>8. Opening \in Steps /\ Opening.what = "open" /\ Opening.bit = 0
    BY DEF Opening, StepAt, Steps, Looking
  <2>9. Meant(Run(Now, script'), step', address', register', got')
    BY <2>1, <2>3, <2>8 DEF Meant, LooksRight, Seen, Sends
  <2> QED
    BY ONLY I2cInv, <2>1, <2>6, <2>7, <2>9, GoesOn
<1> QED
  BY <1>2, <1>3, <1>4

\* A START from where the lines are released.
LEMMA OpenedInv == ASSUME I2cInv, OpenedHigh PROVE I2cInv'
<1>1. /\ step.what \in Looking /\ seen = 1 /\ script = <<>> /\ UNCHANGED Lines
      /\ step' = StepAt("addrW", 2 * address, 1) /\ script' = I2cStart
      /\ clocks' = 0 /\ got' = <<>> /\ UNCHANGED <<address, register>>
  BY DEF OpenedHigh, Go, Looking
<1>2. /\ Meant(Now, step, address, register, got) /\ ReadOK /\ SensorFits(sensor)
      /\ Now = L(scl, pull, sensor, seen) /\ pull \in 0 .. 1 /\ scl \in 0 .. 1
      /\ Now.scl = scl /\ Now.pull = pull /\ Now.sensor = sensor /\ Now.seen = seen
  BY <1>1, Ran
<1>3. scl = 1 /\ pull = 1 /\ Holds(sensor) = 1
  BY <1>1, <1>2 DEF Meant, LooksRight
<1>4. Run(L(scl, pull, sensor, seen), I2cStart) = L(0, 0, Started(sensor), seen)
  BY <1>2, <1>3, Starts
<1> DEFINE w == L(0, 0, Started(sensor), seen)
           st == StepAt("addrW", 2 * address, 1)
<1>5. w.scl = 0 /\ w.sensor.st = "addr" /\ w.sensor.n = 0 /\ w.sensor.sh = 0
  BY DEF L, Started, Parked
<1>6. address \in Addresses /\ 2 * address \in Bytes /\ 2 * address \in Nat
  BY <1>2, Numbers DEF ReadOK
<1>7. /\ st.what = "addrW" /\ st.byte = 2 * address /\ st.bit = 1 /\ st \in Steps
      /\ 1 \in 1 .. Bits + 2 /\ 1 <= Bits /\ 1 # Bits + 1 /\ 1 # Bits + 2
  BY <1>6, I2cSizes DEF StepAt, Steps, Sends
<1>8. Top(2 * address, 0) = 0
  BY <1>6, TopBits
<1> HIDE DEF w, st
<1>9. SendsRight(w, st, address, register, <<>>)
  BY <1>5, <1>7, <1>8 DEF SendsRight, Payload, Shifting
<1>10. Meant(w, st, address, register, <<>>)
  BY <1>7, <1>9 DEF Meant, Looking, Sends
<1>11. Meant(Run(Now, script'), step', address', register', got')
  BY <1>1, <1>2, <1>4, <1>10 DEF w, st
<1>12. ReadOK'
  <2>1. step'.what = "addrW"
    BY <1>1, <1>7 DEF st
  <2>2. <<>> \in Seq(Bytes) /\ Len(<<>>) = 0
    OBVIOUS
  <2> QED
    BY <1>1, <1>2, <2>1, <2>2, I2cSizes DEF ReadOK
<1>13. script' \in Seq(LineOps) /\ Len(script') <= 8
  BY <1>1, Scripts
<1> QED
  BY ONLY I2cInv, <1>1, <1>11, <1>12, <1>13, GoesOn

-----------------------------------------------------------------------------
(* Sending a byte.                                                         *)
\* What is known of a byte being sent.
LEMMA Sent ==
  ASSUME I2cInv, step.what \in Sends, script = <<>>
  PROVE  /\ SendsRight(Now, step, address, register, got) /\ scl = 0
         /\ step.byte \in Bytes /\ step.bit \in 1 .. Bits + 2 /\ got = <<>>
         /\ step.byte = Payload(step.what, address, register)
         /\ step.what # "addrW" => address = Sensor
         /\ step.what = "reg" => step.byte = register
         /\ step.what # "reg" =>
              (step.byte \div 2 = Sensor <=> address = Sensor)
              /\ step.byte % 2 = IF step.what = "addrR" THEN 1 ELSE 0
<1>1. Meant(Now, step, address, register, got) /\ ReadOK /\ Now.scl = scl
  BY Ran
<1>2. SendsRight(Now, step, address, register, got)
  BY <1>1 DEF Meant
<1>3. step.byte = Payload(step.what, address, register) /\ scl = 0 /\ got = <<>>
      /\ step.bit \in 1 .. Bits + 2
  BY <1>1, <1>2 DEF SendsRight
<1>4. /\ register \in Bytes /\ address \in Addresses /\ address \in Nat
      /\ 2 * address \in Bytes /\ 2 * address + 1 \in Bytes /\ Sensor \in Nat
  BY <1>1, Numbers DEF ReadOK
<1>5. /\ (2 * address) \div 2 = address /\ (2 * address) % 2 = 0
      /\ (2 * address + 1) \div 2 = address /\ (2 * address + 1) % 2 = 1
  BY <1>4
<1>6. step.what = "addrW" \/ step.what = "reg" \/ step.what = "addrR"
  BY DEF Sends
<1>7. step.what # "addrW" => address = Sensor
  BY <1>2 DEF SendsRight
<1> QED
  BY <1>7, <1>2, <1>3, <1>4, <1>5, <1>6 DEF Payload

\* A step to the next bit.
LEMMA NextBit ==
  ASSUME NEW st \in Steps, NEW b \in Nat, NEW nx, nx = [st EXCEPT !.bit = b]
  PROVE  nx \in Steps /\ nx.what = st.what /\ nx.byte = st.byte /\ nx.bit = b
BY DEF Steps

LEMMA SendBitInv == ASSUME I2cInv, SendBit PROVE I2cInv'
<1> DEFINE k == step.bit
           b == BitOf(step.byte, k)
           r == Rise(sensor, b)
           f == Fall(r)
           w == L(0, b, f, seen)
           kind == IF step.what = "reg" THEN "reg" ELSE "addr"
<1>1. /\ step.what \in Sends /\ k <= Bits /\ script = <<>> /\ UNCHANGED Lines
      /\ step' = [step EXCEPT !.bit = @ + 1] /\ script' = WriteBit(b)
      /\ UNCHANGED <<clocks, address, register, got>>
  BY DEF SendBit, Go, Sends
<1>2. /\ SendsRight(Now, step, address, register, got) /\ scl = 0
      /\ step.byte \in Bytes /\ step.bit \in 1 .. Bits + 2 /\ got = <<>>
      /\ step.byte = Payload(step.what, address, register)
      /\ step.what # "addrW" => address = Sensor
      /\ step.what = "reg" => step.byte = register
      /\ step.what # "reg" =>
           (step.byte \div 2 = Sensor <=> address = Sensor)
           /\ step.byte % 2 = IF step.what = "addrR" THEN 1 ELSE 0
  BY <1>1, Sent
<1>3. /\ ReadOK /\ SensorFits(sensor) /\ Now = L(scl, pull, sensor, seen) /\ pull \in 0 .. 1
      /\ Now.sensor = sensor /\ step \in Steps
  BY <1>1, Ran
<1>4. k \in 1 .. Bits /\ k \in Nat /\ Bits \in Nat
  BY <1>1, <1>2, I2cSizes
<1>5. /\ b \in 0 .. 1 /\ Top(step.byte, k) = 2 * Top(step.byte, k - 1) + b
      /\ Top(step.byte, k) \in Bytes /\ Top(step.byte, Bits) = step.byte
  BY <1>2, <1>4, TopBits
<1>6. sensor.st = kind /\ sensor.n = k - 1 /\ sensor.sh = Top(step.byte, k - 1)
      /\ (step.what = "addrR" => sensor.ptr = register)
  BY <1>1, <1>2, <1>3 DEF SendsRight, Shifting
<1>7. kind \in {"addr", "reg"} /\ (kind = "reg" <=> step.what = "reg")
  OBVIOUS
<1> HIDE DEF kind
<1>8. step' \in Steps /\ step'.what = step.what /\ step'.byte = step.byte /\ step'.bit = k + 1
  <2>1. step' = [step EXCEPT !.bit = k + 1] /\ k + 1 \in Nat
    BY <1>1, <1>4
  <2> QED
    BY ONLY <1>3, <2>1, NextBit
<1> HIDE DEF b
<1>9. r.st = kind /\ r.n = k /\ r.sh = Top(step.byte, k) /\ r.ptr = sensor.ptr /\ r \in Sensors
  <2> DEFINE t == Top(step.byte, k)
             p == [sensor EXCEPT !.sh = t]
             q == [p EXCEPT !.n = k]
  <2>1. (2 * sensor.sh + b) % Power[Bits] = t
    <3>1. t \in 0 .. Power[Bits] - 1 /\ Power[Bits] \in Nat \ {0} /\ 2 * sensor.sh + b = t
      BY <1>5, <1>6, Numbers DEF Bytes
    <3>2. t % Power[Bits] = t
      <4> HIDE DEF t
      <4>1. t \in Nat /\ t < Power[Bits]
        BY <3>1
      <4>2. (0 * Power[Bits] + t) % Power[Bits] = t
        BY ONLY <3>1, QuotientIs
      <4> QED
        BY <3>1, <4>1, <4>2
    <3> QED
      BY <3>1, <3>2
  <2>2. sensor.n + 1 = k /\ sensor.n < Bits
    BY <1>4, <1>6
  <2>3. r = [sensor EXCEPT !.sh = (2 * sensor.sh + b) % Power[Bits], !.n = sensor.n + 1]
    BY <1>6, <1>7, <2>2 DEF Rise
  <2>4. t \in Bytes /\ sensor \in Sensors
    BY <1>3, <1>5 DEF SensorFits
  <2> HIDE DEF t
  <2>5. r = q
    BY <2>1, <2>2, <2>3
  <2>6. p \in Sensors /\ p.st = sensor.st /\ p.sh = t /\ p.ptr = sensor.ptr
    BY <2>4 DEF Sensors
  <2> HIDE DEF p
  <2>7. q \in Sensors /\ q.st = p.st /\ q.sh = p.sh /\ q.ptr = p.ptr /\ q.n = k
    BY <1>4, <2>6 DEF Sensors
  <2> HIDE DEF q
  <2> QED
    BY <1>6, <2>5, <2>6, <2>7 DEF t
<1>10. Run(Now, script') = w
  <2>1. Run(L(0, pull, sensor, seen), WriteBit(b)) = L(0, b, Fall(Rise(sensor, b)), seen)
    <3>1. sensor.st \in {"addr", "reg"}
      BY <1>6, <1>7
    <3> QED
      BY <1>3, <1>5, <3>1, BitWritten
  <2> QED
    BY <1>1, <1>2, <1>3, <2>1
<1> HIDE DEF r
<1>11. w.scl = 0 /\ w.sensor = f
  BY DEF L
<1>12. ASSUME k < Bits PROVE SendsRight(w, step', address', register', got')
  <2>1. f = r
    BY <1>4, <1>7, <1>9, <1>12 DEF Fall
  <2>2. f.st = kind /\ f.n = k /\ f.sh = Top(step.byte, k) /\ f.ptr = sensor.ptr
    BY <1>9, <2>1
  <2> HIDE DEF f, w, k
  <2>3. Shifting(f, step')
    <3>1. (k + 1) - 1 = k
      BY <1>4
    <3> QED
      BY <1>7, <1>8, <2>2, <3>1 DEF Shifting
  <2>4. SendsRight(w, step', address', register', got')
    <3>1. k + 1 \in 1 .. Bits + 2 /\ k + 1 # Bits + 1 /\ k + 1 # Bits + 2 /\ ~(k + 1 > Bits)
          /\ k + 1 <= Bits
      BY <1>4, <1>12
    <3> QED
      BY ONLY <1>1, <1>2, <1>6, <1>8, <1>11, <2>2, <2>3, <3>1 DEF SendsRight
  <2> QED
    BY <2>4
<1>13. ASSUME k = Bits PROVE SendsRight(w, step', address', register', got')
  <2>0. r.sh = step.byte /\ r.n = Bits
    BY <1>5, <1>9, <1>13
  <2>1. WillAnswer(f, step', address') /\ (step.what \in {"reg", "addrR"} => f.ptr = register)
    <3>1. CASE step.what = "reg"
      <4> DEFINE p == [r EXCEPT !.st = "ack", !.next = "reg"]
                 q == [p EXCEPT !.ptr = r.sh]
      <4>1. f = q
        BY <1>7, <1>9, <2>0, <3>1 DEF Fall
      <4>2. p.st = "ack" /\ p.next = "reg" /\ p \in Sensors
        BY <1>9 DEF Sensors, States
      <4> HIDE DEF p
      <4>3. q.st = "ack" /\ q.next = "reg" /\ q.ptr = r.sh
        BY <4>2 DEF Sensors
      <4> HIDE DEF q
      <4>4. address = Sensor
        BY <1>2, <3>1 DEF SendsRight
      <4> QED
        BY <1>1, <1>2, <1>8, <2>0, <3>1, <4>1, <4>3, <4>4 DEF WillAnswer
    <3>2. CASE step.what # "reg"
      <4> DEFINE x == IF r.sh % 2 = 1 THEN "send" ELSE "reg"
                 p == [r EXCEPT !.st = "ack", !.next = x]
      <4>1. f = IF r.sh \div 2 = Sensor THEN p ELSE Parked
        BY <1>7, <1>9, <2>0, <3>2 DEF Fall
      <4>2. x = IF step.what = "addrR" THEN "send" ELSE "reg"
        BY <1>2, <2>0, <3>2
      <4>3. x \in States
        BY DEF States
      <4> HIDE DEF x
      <4>4. p.st = "ack" /\ p.next = x /\ p.ptr = r.ptr
        BY <1>9, <4>3 DEF Sensors, States
      <4> HIDE DEF p
      <4>5. Parked.st = "idle"
        BY DEF Parked
      <4>6. r.sh \div 2 = Sensor <=> address = Sensor
        BY <1>2, <2>0, <3>2
      <4>7. step.what = "addrR" => address = Sensor
        BY <1>2 DEF SendsRight
      <4> QED
        BY <1>1, <1>6, <1>8, <1>9, <3>2, <4>1, <4>2, <4>4, <4>5, <4>6, <4>7 DEF WillAnswer
    <3> QED
      BY <3>1, <3>2
  <2> HIDE DEF f, w, k
  <2>4. SendsRight(w, step', address', register', got')
    <3>1. k + 1 \in 1 .. Bits + 2 /\ k + 1 = Bits + 1 /\ k + 1 # Bits + 2 /\ ~(k + 1 <= Bits)
      BY <1>4, <1>13
    <3> QED
      BY ONLY <1>1, <1>2, <1>8, <1>11, <2>1, <3>1 DEF SendsRight
  <2> QED
    BY <2>4
<1>14. Meant(Run(Now, script'), step', address', register', got')
  <2> HIDE DEF w, f
  <2>1. SendsRight(w, step', address', register', got')
    BY ONLY <1>4, <1>12, <1>13
  <2> QED
    BY <1>1, <1>8, <1>10, <2>1 DEF Meant, Looking, Sends
<1>15. ReadOK'
  BY <1>1, <1>3, <1>8 DEF ReadOK
<1>16. script' \in Seq(LineOps) /\ Len(script') <= 8
  BY <1>1, <1>5, Scripts
<1> QED
  BY ONLY I2cInv, <1>1, <1>14, <1>15, <1>16, GoesOn

LEMMA ReadAckInv == ASSUME I2cInv, ReadAck PROVE I2cInv'
<1> DEFINE k == step.bit
           f == Fall(sensor)
           w == L(0, 1, f, Holds(sensor))
<1>1. /\ step.what \in Sends /\ k = Bits + 1 /\ script = <<>> /\ UNCHANGED Lines
      /\ step' = [step EXCEPT !.bit = @ + 1] /\ script' = ReadBit
      /\ UNCHANGED <<clocks, address, register, got>>
  BY DEF ReadAck, Go, Sends
<1>2. /\ SendsRight(Now, step, address, register, got) /\ scl = 0
      /\ step.byte \in Bytes /\ step.bit \in 1 .. Bits + 2 /\ got = <<>>
      /\ step.byte = Payload(step.what, address, register)
      /\ step.what # "addrW" => address = Sensor
  BY <1>1, Sent
<1>3. /\ ReadOK /\ SensorFits(sensor) /\ Now = L(scl, pull, sensor, seen) /\ pull \in 0 .. 1
      /\ Now.sensor = sensor /\ step \in Steps
  BY <1>1, Ran
<1>4. Bits \in Nat /\ Bits >= 1
  BY I2cSizes
<1>5. /\ WillAnswer(sensor, step, address)
      /\ step.what \in {"reg", "addrR"} => sensor.ptr = register
  <2>1. step.bit > Bits
    BY <1>1, <1>4
  <2> QED
    BY <1>1, <1>2, <1>3, <2>1 DEF SendsRight
<1>6. step' \in Steps /\ step'.what = step.what /\ step'.byte = step.byte /\ step'.bit = Bits + 2
  <2>1. step' = [step EXCEPT !.bit = k + 1] /\ k + 1 \in Nat /\ k + 1 = Bits + 2
    BY <1>1, <1>4
  <2> HIDE DEF k
  <2>2. step' \in Steps /\ step'.what = step.what /\ step'.byte = step.byte /\ step'.bit = k + 1
    BY ONLY <1>3, <2>1, NextBit
  <2> QED
    BY <2>1, <2>2
<1>7. Run(Now, script') = w
  <2>1. sensor.st \in {"ack", "send", "idle"}
    BY <1>5 DEF WillAnswer
  <2>2. Run(L(0, pull, sensor, seen), ReadBit) = w
    BY <1>3, <2>1, BitRead
  <2> QED
    BY <1>1, <1>2, <1>3, <2>2
<1>8. w.scl = 0 /\ w.sensor = f /\ w.seen = Holds(sensor)
  BY DEF L
<1>9. Holds(sensor) = 0 <=> address = Sensor
  BY <1>5 DEF WillAnswer, Holds
<1>10. ASSUME address = Sensor
       PROVE  Answered(f, step') /\ (step.what \in {"reg", "addrR"} => f.ptr = register)
  <2>1. sensor.st = "ack" /\ sensor.next = IF step.what = "addrR" THEN "send" ELSE "reg"
    BY <1>5, <1>10 DEF WillAnswer
  <2>2. sensor \in Sensors
    BY <1>3 DEF SensorFits
  <2>3. CASE step.what = "addrR"
    <3> DEFINE p == [sensor EXCEPT !.st = "send"]
               q == [p EXCEPT !.n = 1]
    <3>1. f = q
      BY <2>1, <2>3 DEF Fall, Sending
    <3>2. p \in Sensors /\ p.st = "send" /\ p.ptr = sensor.ptr
      BY <2>2 DEF Sensors, States
    <3> HIDE DEF p
    <3>3. q.st = "send" /\ q.n = 1 /\ q.ptr = p.ptr
      BY <3>2 DEF Sensors
    <3> HIDE DEF q
    <3> QED
      BY <1>5, <1>6, <2>3, <3>1, <3>2, <3>3 DEF Answered
  <2>4. CASE step.what # "addrR"
    <3> DEFINE p == [sensor EXCEPT !.st = "reg"]
               q == [p EXCEPT !.n = 0]
               r == [q EXCEPT !.sh = 0]
    <3>1. f = r
      BY <2>1, <2>4 DEF Fall
    <3>2. p \in Sensors /\ p.st = "reg" /\ p.ptr = sensor.ptr
      BY <2>2 DEF Sensors, States
    <3> HIDE DEF p
    <3>3. q \in Sensors /\ q.st = "reg" /\ q.n = 0 /\ q.ptr = p.ptr
      BY <1>4, <3>2 DEF Sensors
    <3> HIDE DEF q
    <3>4. r.st = "reg" /\ r.n = 0 /\ r.sh = 0 /\ r.ptr = q.ptr
      BY <3>3 DEF Sensors
    <3> HIDE DEF r
    <3> QED
      BY <1>5, <1>6, <2>4, <3>1, <3>2, <3>3, <3>4 DEF Answered
  <2> QED
    BY <2>3, <2>4
<1> HIDE DEF f, w, k
<1>11. SendsRight(w, step', address', register', got')
  <2>1. /\ Bits + 2 \in 1 .. Bits + 2 /\ Bits + 2 # Bits + 1 /\ ~(Bits + 2 <= Bits)
        /\ Bits + 2 > Bits
    BY <1>4
  <2> QED
    BY ONLY <1>1, <1>2, <1>6, <1>8, <1>9, <1>10, <2>1 DEF SendsRight
<1>12. Meant(Run(Now, script'), step', address', register', got')
  BY <1>1, <1>6, <1>7, <1>11 DEF Meant, Looking, Sends
<1>13. ReadOK'
  BY <1>1, <1>3, <1>6 DEF ReadOK
<1>14. script' \in Seq(LineOps) /\ Len(script') <= 8
  BY <1>1, Scripts
<1> QED
  BY ONLY I2cInv, <1>1, <1>12, <1>13, <1>14, GoesOn

\* The byte was acknowledged: what follows it.
LEMMA AckedInv == ASSUME I2cInv, Acked PROVE I2cInv'
<1>0. Bits \in Nat /\ Bits >= 1 /\ Count >= 1 /\ Count \in Nat /\ Clocks \in Nat
  BY I2cSizes
<1>1. /\ step.what \in Sends /\ step.bit = Bits + 2 /\ seen = 0 /\ script = <<>>
      /\ UNCHANGED Lines /\ UNCHANGED <<clocks, address, register, got>>
      /\ step.what = "addrW" => step' = StepAt("reg", register, 1) /\ script' = <<>>
      /\ step.what = "reg" => step' = StepAt("addrR", 2 * address + 1, 1) /\ script' = I2cStart
      /\ step.what = "addrR" => step' = StepAt("data", 0, 0) /\ script' = ReadBit
  BY DEF Acked, Go, Sends
<1>2. /\ SendsRight(Now, step, address, register, got) /\ scl = 0 /\ got = <<>>
  BY <1>1, Sent
<1>3. /\ ReadOK /\ SensorFits(sensor) /\ Now = L(scl, pull, sensor, seen) /\ pull \in 0 .. 1
      /\ Now.sensor = sensor /\ Now.seen = seen /\ Now.scl = scl /\ step \in Steps
  BY <1>1, Ran
<1>4. address = Sensor /\ Answered(sensor, step)
      /\ (step.what \in {"reg", "addrR"} => sensor.ptr = register)
  <2>1. step.bit > Bits
    BY <1>0, <1>1
  <2> QED
    BY <1>1, <1>2, <1>3, <2>1 DEF SendsRight
<1>5. /\ register \in Bytes /\ register \in Nat /\ address \in Addresses
      /\ 2 * address + 1 \in Bytes /\ 2 * address + 1 \in Nat /\ 0 \in Bytes
  BY <1>3, Numbers DEF ReadOK, Bytes
<1>6. \A v \in Bytes : Top(v, 0) = 0
  BY TopBits
<1>7. /\ 1 \in 1 .. Bits + 2 /\ 1 <= Bits /\ 1 # Bits + 1 /\ 1 # Bits + 2 /\ ~(1 > Bits)
      /\ 1 - 1 = 0
  BY <1>0
<1>8. step'.what \in Sends \cup {"data"} /\ step' \in Steps
  BY <1>1, <1>5 DEF StepAt, Steps, Sends
<1>9. ReadOK'
  <2>1. step'.what \notin {"check", "recover"} /\ step.what \notin {"check", "recover"}
    BY <1>1, <1>8 DEF Sends
  <2> QED
    BY <1>1, <1>3, <2>1 DEF ReadOK
<1>10. CASE step.what = "addrW"
  <2>1. /\ step'.what = "reg" /\ step'.byte = register /\ step'.bit = 1 /\ script' = <<>>
    BY <1>1, <1>10 DEF StepAt
  <2>2. sensor.st = "reg" /\ sensor.n = 0 /\ sensor.sh = 0
    BY <1>4, <1>10 DEF Answered
  <2>3. Run(Now, script') = Now
    BY <2>1, RunNothing
  <2>4. Shifting(sensor, step')
    BY <1>5, <1>6, <1>7, <2>1, <2>2 DEF Shifting
  <2>5. SendsRight(Now, step', address', register', got')
    BY ONLY <1>1, <1>2, <1>3, <1>4, <1>7, <2>1, <2>4 DEF SendsRight, Payload
  <2>6. Meant(Run(Now, script'), step', address', register', got')
    BY <1>8, <2>1, <2>3, <2>5 DEF Meant, Looking, Sends
  <2>7. script' \in Seq(LineOps) /\ Len(script') <= 8
    BY <2>1, Scripts
  <2> QED
    BY ONLY I2cInv, <1>1, <1>9, <2>6, <2>7, GoesOn
<1>11. CASE step.what = "reg"
  <2>1. /\ step'.what = "addrR" /\ step'.byte = 2 * address + 1 /\ step'.bit = 1
        /\ script' = I2cStart
    BY <1>1, <1>11 DEF StepAt
  <2>2. sensor.st = "reg" /\ sensor.ptr = register
    BY <1>4, <1>11 DEF Answered
  <2> DEFINE w == L(0, 0, Started(sensor), seen)
  <2>3. Run(Now, script') = w
    <3>1. Run(L(0, pull, sensor, seen), I2cStart) = w
      BY <1>3, <2>2, Starts
    <3> QED
      BY <1>2, <1>3, <2>1, <3>1
  <2>4. /\ w.scl = 0 /\ w.sensor.st = "addr" /\ w.sensor.n = 0 /\ w.sensor.sh = 0
        /\ w.sensor.ptr = sensor.ptr
    BY DEF L, Started, Parked
  <2> HIDE DEF w
  <2>5. Shifting(w.sensor, step')
    BY <1>5, <1>6, <1>7, <2>1, <2>4 DEF Shifting
  <2>6. SendsRight(w, step', address', register', got')
    BY ONLY <1>1, <1>2, <1>4, <1>7, <2>1, <2>2, <2>4, <2>5 DEF SendsRight, Payload
  <2>7. Meant(Run(Now, script'), step', address', register', got')
    BY <1>8, <2>1, <2>3, <2>6 DEF Meant, Looking, Sends
  <2>8. script' \in Seq(LineOps) /\ Len(script') <= 8
    BY <2>1, Scripts
  <2> QED
    BY ONLY I2cInv, <1>1, <1>9, <2>7, <2>8, GoesOn
<1>12. CASE step.what = "addrR"
  <2>1. /\ step'.what = "data" /\ step'.byte = 0 /\ step'.bit = 0 /\ script' = ReadBit
    BY <1>1, <1>12 DEF StepAt
  <2>2. sensor.st = "send" /\ sensor.n = 1 /\ sensor.ptr = register /\ sensor \in Sensors
    BY <1>3, <1>4, <1>12 DEF Answered, SensorFits
  <2> DEFINE f == Fall(sensor)
             w == L(0, 1, f, Holds(sensor))
             m == Memory(register)
  <2>3. Run(Now, script') = w
    <3>1. Run(L(0, pull, sensor, seen), ReadBit) = w
      BY <1>3, <2>2, BitRead
    <3> QED
      BY <1>2, <1>3, <2>1, <3>1
  <2>4. w.scl = 0 /\ w.sensor = f /\ w.seen = BitOf(m, 1)
    BY <2>2 DEF L, Holds
  <2>5. f.ptr = register /\ IF 1 < Bits THEN f.st = "send" /\ f.n = 2 ELSE f.st = "mack"
    <3>1. CASE Bits = 1
      <4>1. f = [sensor EXCEPT !.st = "mack"]
        BY <2>2, <3>1 DEF Fall
      <4> QED
        BY <2>2, <3>1, <4>1 DEF Sensors
    <3>2. CASE Bits # 1
      <4>1. f = [sensor EXCEPT !.n = 2]
        BY <1>0, <2>2, <3>2 DEF Fall
      <4> HIDE DEF f
      <4>2. f.ptr = register /\ f.st = "send" /\ f.n = 2
        BY <2>2, <4>1 DEF Sensors
      <4> QED
        BY <1>0, <3>2, <4>2
    <3> QED
      BY <3>1, <3>2
  <2> HIDE DEF w, f
  <2>6. Top(m, 0) = 0
    BY <1>5, <1>6, MemoryTyped
  <2>7. /\ 0 \in 0 .. Bits - 1 /\ Len(<<>>) = 0 /\ 0 < Count /\ register + 0 = register
        /\ 0 + 1 = 1 /\ 0 + 2 = 2 /\ 1 .. 0 = {}
    BY <1>0, <1>5
  <2>8. register % Power[Bits] = register
    <3>1. register \in 0 .. Power[Bits] - 1 /\ Power[Bits] \in Nat \ {0}
      BY <1>5, Numbers DEF Bytes
    <3>2. (0 * Power[Bits] + register) % Power[Bits] = register
      BY ONLY <3>1, <1>5, QuotientIs
    <3>3. 0 * Power[Bits] + register = register
      BY <1>5, <3>1
    <3> QED
      BY <3>2, <3>3
  <2>9. DataRight(w, step', register', got')
    <3>1. Fetched(<<>>, register)
      BY <2>7 DEF Fetched
    <3>2. w.sensor.ptr = (register + Len(<<>>)) % Power[Bits]
      BY <2>4, <2>5, <2>7, <2>8
    <3> QED
      BY <1>1, <1>2, <2>1, <2>4, <2>5, <2>6, <2>7, <3>1, <3>2 DEF DataRight
  <2>10. Meant(Run(Now, script'), step', address', register', got')
    BY <1>8, <2>1, <2>3, <2>9 DEF Meant, Looking, Sends
  <2>11. script' \in Seq(LineOps) /\ Len(script') <= 8
    BY <2>1, Scripts
  <2> QED
    BY ONLY I2cInv, <1>1, <1>9, <2>10, <2>11, GoesOn
<1> QED
  BY <1>1, <1>10, <1>11, <1>12 DEF Sends

\* Nobody answered: a STOP, and the next address.
LEMMA NakedInv == ASSUME I2cInv, Naked PROVE I2cInv'
<1>1. /\ step.what \in Sends /\ script = <<>> /\ UNCHANGED Lines
      /\ step' = Opening /\ script' = Stop \o OpenScript /\ address' \in Addresses
      /\ UNCHANGED <<clocks, register, got>>
  BY DEF Naked, Go, Sends
<1>2. Now \in Wire /\ SensorFits(Now.sensor) /\ ReadOK
  BY <1>1, Ran
<1>3. Seen(Run(Now, script'))
  BY <1>1, <1>2, StopsLooking
<1>4. step.what \notin {"check", "recover"}
  BY <1>1 DEF Sends
<1>5. ReadOK'
  BY <1>1, <1>2, <1>4 DEF ReadOK
<1>6. script' \in Seq(LineOps) /\ Len(script') <= 8
  BY <1>1, Scripts
<1>7. Opening = StepAt("open", 0, 0) /\ "open" \in Looking
  BY DEF Opening, Looking
<1>8. Go(StepAt("open", 0, 0), script')
  BY <1>7 DEF Naked, Go
<1> QED
  BY ONLY I2cInv, <1>3, <1>5, <1>6, <1>7, <1>8, LooksOn

LEMMA RemainderIs ==
  ASSUME NEW q \in Nat, NEW d \in Nat \ {0}, NEW r \in 0 .. d - 1
  PROVE  (q * d + r) % d = r
<1> DEFINE x == q * d
           n == x + r
<1>1. x \in Nat
  OBVIOUS
<1>2. n \div d = q
  BY QuotientIs
<1>3. n \in Nat
  BY <1>1
<1> HIDE DEF n
<1>4. n = (n % d) + (n \div d) * d /\ n % d \in 0 .. d - 1
  BY <1>3, Division
<1>5. n = (n % d) + x
  BY <1>2, <1>4
<1>6. n = x + r
  BY DEF n
<1> HIDE DEF x
<1>7. n % d = r
  BY ONLY <1>1, <1>4, <1>5, <1>6
<1> QED
  BY <1>7 DEF n, x

\* Around the memory one register at a time.
LEMMA AroundOne ==
  ASSUME NEW x \in Nat, NEW d \in Nat \ {0}
  PROVE  ((x % d) + 1) % d = (x + 1) % d
<1> DEFINE q == x \div d
           r == x % d
<1>1. q \in Nat /\ r \in 0 .. d - 1 /\ x = r + q * d
  BY Division
<1> HIDE DEF q, r
<1>2. q * d \in Nat
  BY <1>1
<1>3. CASE r + 1 < d
  <2>1. r + 1 \in 0 .. d - 1
    BY <1>1, <1>3
  <2>2. (q * d + (r + 1)) % d = r + 1
    BY ONLY <1>1, <2>1, RemainderIs
  <2>3. (0 * d + (r + 1)) % d = r + 1
    <3>1. 0 \in Nat
      OBVIOUS
    <3> QED
      BY ONLY <3>1, <2>1, RemainderIs
  <2>4. q * d + (r + 1) = x + 1 /\ 0 * d + (r + 1) = r + 1
    BY <1>1, <1>2, <2>1
  <2> QED
    BY <2>2, <2>3, <2>4 DEF r
<1>4. CASE r + 1 = d
  <2>1. 0 \in 0 .. d - 1 /\ q + 1 \in Nat /\ 1 \in Nat
    BY <1>1
  <2>2. ((q + 1) * d + 0) % d = 0
    BY ONLY <2>1, RemainderIs
  <2>3. (1 * d + 0) % d = 0
    BY ONLY <2>1, RemainderIs
  <2>4. (q + 1) * d = q * d + d
    BY <1>1
  <2>5. (q + 1) * d + 0 = x + 1 /\ 1 * d + 0 = r + 1
    BY <1>1, <1>2, <1>4, <2>4
  <2> QED
    BY <2>2, <2>3, <2>5 DEF r
<1> QED
  BY <1>1, <1>3, <1>4

-----------------------------------------------------------------------------
(* Reading the block.                                                      *)
LEMMA DataBitInv == ASSUME I2cInv, DataBit PROVE I2cInv'
<1> DEFINE k == step.bit
           byte == 2 * step.byte + seen
           m == Memory(sensor.ptr)
<1>0. Bits \in Nat /\ Bits >= 1 /\ Count >= 1 /\ Count \in Nat /\ Clocks \in Nat
      /\ Power[Bits] \in Nat \ {0}
  BY I2cSizes, Numbers
<1>1. /\ step.what = "data" /\ k < Bits /\ script = <<>> /\ UNCHANGED Lines
      /\ UNCHANGED <<clocks, address, register>>
  BY DEF DataBit, Go
<1>2. /\ k + 1 < Bits => /\ step' = StepAt("data", byte, k + 1) /\ script' = ReadBit
                         /\ got' = got
      /\ ~(k + 1 < Bits) =>
           /\ got' = Append(got, byte)
           /\ Len(got) + 1 < Count =>
                step' = StepAt("data", 0, 0) /\ script' = Ack \o ReadBit
           /\ ~(Len(got) + 1 < Count) =>
                step' = StepAt("done", 0, 0) /\ script' = Nak \o Stop
  BY DEF DataBit, Go
<1>3. /\ ReadOK /\ SensorFits(sensor) /\ Now = L(scl, pull, sensor, seen) /\ pull \in 0 .. 1
      /\ Now.sensor = sensor /\ Now.seen = seen /\ Now.scl = scl /\ step \in Steps
      /\ Meant(Now, step, address, register, got) /\ seen \in 0 .. 1
  BY <1>1, Ran
<1>4. /\ scl = 0 /\ k \in 0 .. Bits - 1 /\ Len(got) < Count /\ Fetched(got, register)
      /\ sensor.ptr = (register + Len(got)) % Power[Bits]
      /\ step.byte = Top(m, k) /\ seen = BitOf(m, k + 1)
      /\ IF k + 1 < Bits THEN sensor.st = "send" /\ sensor.n = k + 2 ELSE sensor.st = "mack"
  <2>1. DataRight(Now, step, register, got)
    BY <1>1, <1>3 DEF Meant
  <2> QED
    BY <1>3, <2>1 DEF DataRight
<1>5. /\ sensor \in Sensors /\ sensor.ptr \in Bytes /\ sensor.ptr \in Nat
      /\ register \in Bytes /\ register \in Nat /\ got \in Seq(Bytes) /\ Len(got) \in Nat
  BY <1>0, <1>3 DEF ReadOK, SensorFits, Sensors, Bytes
<1>6. m \in Bytes
  BY <1>5, MemoryTyped
<1>7. byte = Top(m, k + 1) /\ byte \in Bytes /\ byte \in Nat
  <2>1. k + 1 \in 1 .. Bits /\ k + 1 \in 0 .. Bits /\ (k + 1) - 1 = k
    BY <1>0, <1>4
  <2> HIDE DEF m, k
  <2>2. Top(m, k + 1) = 2 * Top(m, (k + 1) - 1) + BitOf(m, k + 1) /\ Top(m, k + 1) \in Bytes
    BY <1>6, <2>1, TopBits
  <2> QED
    BY <1>0, <1>4, <2>1, <2>2 DEF Bytes
<1>8. ASSUME k + 1 < Bits PROVE I2cInv'
  <2> DEFINE f == Fall(sensor)
             w == L(0, 1, f, Holds(sensor))
  <2>1. sensor.st = "send" /\ sensor.n = k + 2
    BY <1>4, <1>8
  <2>2. step' = StepAt("data", byte, k + 1) /\ script' = ReadBit /\ got' = got
    BY <1>2, <1>8
  <2>3. Run(Now, script') = w
    <3>1. Run(L(0, pull, sensor, seen), ReadBit) = w
      BY <1>3, <2>1, BitRead
    <3> QED
      BY <1>3, <1>4, <2>2, <3>1
  <2>4. w.scl = 0 /\ w.sensor = f /\ w.seen = BitOf(m, k + 2)
    BY <2>1 DEF L, Holds
  <2> HIDE DEF byte, k
  <2>5. f.ptr = sensor.ptr /\ IF k + 2 < Bits THEN f.st = "send" /\ f.n = k + 3
                              ELSE f.st = "mack"
    <3>1. CASE k + 2 = Bits
      <4>1. f = [sensor EXCEPT !.st = "mack"]
        BY <2>1, <3>1 DEF Fall
      <4> HIDE DEF f
      <4> QED
        BY <1>0, <1>5, <3>1, <4>1 DEF Sensors
    <3>2. CASE k + 2 # Bits
      <4>1. f = [sensor EXCEPT !.n = (k + 2) + 1]
        BY <2>1, <3>2 DEF Fall
      <4>2. (k + 2) + 1 = k + 3 /\ k + 2 < Bits
        BY <1>0, <1>4, <1>8, <3>2
      <4> HIDE DEF f
      <4>3. f.ptr = sensor.ptr /\ f.st = "send" /\ f.n = k + 3
        BY <1>5, <2>1, <4>1, <4>2 DEF Sensors
      <4> QED
        BY <4>2, <4>3
    <3> QED
      BY <3>1, <3>2
  <2> HIDE DEF w, f
  <2>6. step'.what = "data" /\ step'.byte = byte /\ step'.bit = k + 1 /\ step' \in Steps
    <3>1. k + 1 \in Nat
      BY <1>4
    <3> QED
      BY <1>7, <2>2, <3>1 DEF StepAt, Steps
  <2>7. DataRight(w, step', register', got')
    <3>1. k + 1 \in 0 .. Bits - 1 /\ (k + 1) + 1 = k + 2 /\ (k + 1) + 2 = k + 3
      BY <1>0, <1>4, <1>8
    <3>2. w.sensor.ptr = sensor.ptr
      BY <2>4, <2>5
    <3> QED
      BY ONLY <1>1, <1>4, <1>7, <2>2, <2>4, <2>5, <2>6, <3>1, <3>2 DEF DataRight, m
  <2>8. Meant(Run(Now, script'), step', address', register', got')
    BY <2>3, <2>6, <2>7 DEF Meant, Looking, Sends
  <2>9. ReadOK'
    BY <1>1, <1>3, <2>2, <2>6 DEF ReadOK
  <2>10. script' \in Seq(LineOps) /\ Len(script') <= 8
    BY <2>2, Scripts
  <2> QED
    BY ONLY I2cInv, <1>1, <2>8, <2>9, <2>10, GoesOn
<1>9. ASSUME ~(k + 1 < Bits) PROVE I2cInv'
  <2> DEFINE n == Len(got)
             g == Append(got, byte)
  <2>1. k + 1 = Bits
    BY <1>0, <1>4, <1>9
  <2>2. byte = m
    BY <1>6, <1>7, <2>1, TopBits
  <2>3. got' = g /\ sensor.st = "mack"
    BY <1>2, <1>4, <1>9
  <2>4. g \in Seq(Bytes) /\ Len(g) = n + 1 /\ n + 1 \in Nat /\ n + 1 <= Count /\ n < Count
    BY <1>0, <1>4, <1>5, <1>7
  <2>5. Fetched(g, register)
    <3> HIDE DEF m
    <3>1. \A i \in 1 .. n : g[i] = got[i]
      BY <1>5, <1>7
    <3>2. g[n + 1] = m
      BY <1>5, <1>7, <2>2
    <3>3. m = Memory((register + (n + 1) - 1) % Power[Bits])
      <4>1. register + (n + 1) - 1 = register + n
        BY <1>5
      <4> QED
        BY <1>4, <4>1 DEF m
    <3>4. \A i \in 1 .. n + 1 : i \in 1 .. n \/ i = n + 1
      BY <1>5
    <3>5. \A i \in 1 .. n : got[i] = Memory((register + i - 1) % Power[Bits])
      BY <1>4 DEF Fetched
    <3> HIDE DEF n, g
    <3>6. \A i \in 1 .. n + 1 : g[i] = Memory((register + i - 1) % Power[Bits])
      BY <3>1, <3>2, <3>3, <3>4, <3>5
    <3> QED
      BY <2>4, <3>6 DEF Fetched
  <2> HIDE DEF g
  <2>6. CASE n + 1 < Count
    <3>1. step' = StepAt("data", 0, 0) /\ script' = Ack \o ReadBit
      BY <1>2, <1>9, <2>6
    <3> DEFINE p == (sensor.ptr + 1) % Power[Bits]
               a == [sensor EXCEPT !.sh = 0]
               b == [a EXCEPT !.ptr = p]
               t == Sending(b)
               f == Fall(t)
               w == L(0, 1, f, Holds(t))
    <3>2. Run(Now, script') = w /\ SensorFits(t)
      <4>1. SensorFits(t) /\ Run(L(0, pull, sensor, seen), Ack \o ReadBit) = w
        BY <1>3, <2>3, AckedRead
      <4> QED
        BY <1>3, <1>4, <3>1, <4>1
    <3>3. p = (register + (n + 1)) % Power[Bits] /\ p \in Bytes
      <4>1. register + n \in Nat /\ (register + n) + 1 = register + (n + 1)
        BY <1>5
      <4>2. (((register + n) % Power[Bits]) + 1) % Power[Bits] = ((register + n) + 1) % Power[Bits]
        BY ONLY <1>0, <4>1, AroundOne
      <4>3. sensor.ptr + 1 \in Nat
        BY <1>5
      <4>4. (sensor.ptr + 1) % Power[Bits] \in 0 .. Power[Bits] - 1
        BY ONLY <1>0, <4>3, Division
      <4> QED
        BY <1>4, <4>1, <4>2, <4>4 DEF Bytes
    <3> HIDE DEF p
    <3>4. t.st = "send" /\ t.n = 1 /\ t.ptr = p /\ t \in Sensors
      <4> DEFINE c == [b EXCEPT !.st = "send"]
                 d == [c EXCEPT !.n = 1]
      <4>1. t = d
        BY DEF Sending
      <4>2. a \in Sensors
        BY <1>5, Numbers DEF Sensors
      <4> HIDE DEF a
      <4>3. b \in Sensors /\ b.ptr = p
        BY <3>3, <4>2 DEF Sensors
      <4> HIDE DEF b
      <4>4. c \in Sensors /\ c.st = "send" /\ c.ptr = p
        BY <4>3 DEF Sensors, States
      <4> HIDE DEF c
      <4>5. d.st = "send" /\ d.n = 1 /\ d.ptr = p /\ d \in Sensors
        BY <1>0, <4>4 DEF Sensors
      <4> QED
        BY <4>1, <4>5
    <3> HIDE DEF t
    <3>5. w.scl = 0 /\ w.sensor = f /\ w.seen = BitOf(Memory(p), 1)
      BY <3>4 DEF L, Holds
    <3>6. f.ptr = p /\ IF 1 < Bits THEN f.st = "send" /\ f.n = 2 ELSE f.st = "mack"
      <4>1. CASE Bits = 1
        <5>1. f = [t EXCEPT !.st = "mack"]
          BY <3>4, <4>1 DEF Fall
        <5> HIDE DEF f
        <5> QED
          BY <3>4, <4>1, <5>1 DEF Sensors
      <4>2. CASE Bits # 1
        <5>1. f = [t EXCEPT !.n = 2]
          BY <3>4, <4>2 DEF Fall
        <5> HIDE DEF f
        <5>2. f.ptr = p /\ f.st = "send" /\ f.n = 2
          BY <3>4, <5>1 DEF Sensors
        <5> QED
          BY <1>0, <4>2, <5>2
      <4> QED
        BY <4>1, <4>2
    <3> HIDE DEF f, w
    <3>7. step'.what = "data" /\ step'.byte = 0 /\ step'.bit = 0 /\ step' \in Steps
      BY <3>1 DEF StepAt, Steps
    <3>8. DataRight(w, step', register', got')
      <4>1. Top(Memory(p), 0) = 0
        <5>1. p \in Nat
          BY <1>0, <3>3 DEF Bytes
        <5> QED
          BY <5>1, MemoryTyped, TopBits
      <4>2. 0 \in 0 .. Bits - 1 /\ 0 + 1 = 1 /\ 0 + 2 = 2
        BY <1>0
      <4>3. w.sensor.ptr = (register + Len(g)) % Power[Bits] /\ w.sensor.ptr = p
        BY <2>4, <3>3, <3>5, <3>6
      <4>4. Len(g) < Count
        BY <2>4, <2>6
      <4> QED
        BY ONLY <1>1, <2>3, <2>5, <3>5, <3>6, <3>7, <4>1, <4>2, <4>3, <4>4 DEF DataRight
    <3>9. Meant(Run(Now, script'), step', address', register', got')
      BY <3>2, <3>7, <3>8 DEF Meant, Looking, Sends
    <3>10. ReadOK'
      BY <1>1, <1>3, <2>3, <2>4, <3>7 DEF ReadOK
    <3>11. script' \in Seq(LineOps) /\ Len(script') <= 8
      BY <3>1, Scripts
    <3> QED
      BY ONLY I2cInv, <1>1, <3>9, <3>10, <3>11, GoesOn
  <2>7. CASE ~(n + 1 < Count)
    <3>1. step' = StepAt("done", 0, 0) /\ script' = Nak \o Stop
      BY <1>2, <1>9, <2>7
    <3>2. step'.what = "done" /\ step'.bit = 0 /\ step' \in Steps
      BY <3>1 DEF StepAt, Steps
    <3>3. Len(got') = Count /\ Fetched(got', register')
      BY <1>0, <1>1, <2>3, <2>4, <2>5, <2>7
    <3>4. Meant(Run(Now, script'), step', address', register', got')
      BY <3>2, <3>3 DEF Meant, Looking, Sends
    <3>5. ReadOK'
      BY <1>1, <1>3, <2>3, <2>4, <3>2 DEF ReadOK
    <3>6. script' \in Seq(LineOps) /\ Len(script') <= 8
      BY <3>1, Scripts
    <3> QED
      BY ONLY I2cInv, <1>1, <3>4, <3>5, <3>6, GoesOn
  <2> QED
    BY <2>6, <2>7
<1> QED
  BY <1>8, <1>9

LEMMA I2cInitInv == I2cInit => I2cInv
<1> SUFFICES ASSUME I2cInit PROVE I2cInv
  OBVIOUS
<1>1. /\ scl = 1 /\ pull = 1 /\ hold = 1 /\ script = OpenScript /\ step = Opening
      /\ seen = 1 /\ clocks = 0 /\ register \in Bytes /\ address \in Addresses /\ got = <<>>
      /\ sensor = Parked
  BY DEF I2cInit
<1>2. SensorFits(sensor) /\ Holds(sensor) = 1
  BY <1>1, ParkedFits DEF SensorFits, Parked, Holds
<1>3. Now \in Wire /\ Now.sensor = sensor
  BY <1>1, <1>2 DEF Now, Wire, SensorFits
<1>4. WiresOK
  BY <1>1, <1>2, <1>3, Scripts DEF WiresOK
<1>5. Opening \in Steps /\ Opening.what = "open" /\ Opening.bit = 0
  BY DEF Opening, StepAt, Steps, Looking
<1>6. ReadOK
  <2>1. <<>> \in Seq(Bytes) /\ Len(<<>>) = 0
    OBVIOUS
  <2> QED
    BY <1>1, <2>1, I2cSizes DEF ReadOK
<1>7. Seen(Run(Now, script))
  BY <1>1, <1>2, <1>3, LooksTyped
<1>8. Meant(Run(Now, script), step, address, register, got)
  BY <1>1, <1>5, <1>7 DEF Meant, LooksRight, Seen, Sends
<1> QED
  BY <1>4, <1>6, <1>8 DEF I2cInv

LEMMA I2cNextInv == I2cInv /\ [I2cNext]_i2cVars => I2cInv'
<1> SUFFICES ASSUME I2cInv, [I2cNext]_i2cVars PROVE I2cInv'
  OBVIOUS
<1>1. CASE Line
  BY <1>1, LineInv
<1>2. CASE OpenedHigh
  BY <1>2, OpenedInv
<1>3. CASE RecoverClock \/ RecoverEnds \/ CheckedLow \/ NextRead \/ Die
  BY <1>3, LooksInv
<1>4. CASE SendBit
  BY <1>4, SendBitInv
<1>5. CASE ReadAck
  BY <1>5, ReadAckInv
<1>6. CASE Acked
  BY <1>6, AckedInv
<1>7. CASE Naked
  BY <1>7, NakedInv
<1>8. CASE DataBit
  BY <1>8, DataBitInv
<1>9. CASE UNCHANGED i2cVars
  BY <1>9 DEF i2cVars, I2cInv, WiresOK, ReadOK, Now
<1> QED
  BY <1>1, <1>2, <1>3, <1>4, <1>5, <1>6, <1>7, <1>8, <1>9 DEF I2cNext, Master

LEMMA I2cInvReads == I2cInv => ReadsRight /\ I2cTypeOK
<1> SUFFICES ASSUME I2cInv PROVE ReadsRight /\ I2cTypeOK
  OBVIOUS
<1> DEFINE w == Run(Now, script)
<1>1. Meant(w, step, address, register, got) /\ WiresOK /\ ReadOK
  BY DEF I2cInv
<1>2. script = <<>> => w.seen = seen
  BY RunNothing DEF Now
<1> HIDE DEF w
<1>3. step \in Steps
  BY <1>1 DEF Meant
<1>4. step.what = "done" => got = [i \in 1 .. Count |-> Memory((register + i - 1) % Power[Bits])]
  <2>1. SUFFICES ASSUME step.what = "done"
                 PROVE  got = [i \in 1 .. Count |-> Memory((register + i - 1) % Power[Bits])]
    OBVIOUS
  <2>2. Len(got) = Count /\ Fetched(got, register)
    BY <1>1, <2>1 DEF Meant
  <2>3. got \in Seq(Bytes)
    BY <1>1 DEF ReadOK
  <2>4. got = [i \in 1 .. Len(got) |-> got[i]]
    BY <2>3
  <2>5. \A i \in 1 .. Count : got[i] = Memory((register + i - 1) % Power[Bits])
    BY <2>2 DEF Fetched
  <2> QED
    BY <2>2, <2>4, <2>5
<1>5. step.bit = Bits + 2 /\ step.what # "data" /\ script = <<>> => (seen = 0 <=> address = Sensor)
  <2>1. SUFFICES ASSUME step.bit = Bits + 2, step.what # "data", script = <<>>
                 PROVE  seen = 0 <=> address = Sensor
    OBVIOUS
  <2>2. step.bit # 0
    BY <2>1, I2cSizes
  <2>3. step.what \in Sends
    BY <1>1, <1>3, <2>1, <2>2 DEF Meant, LooksRight, Steps
  <2>4. SendsRight(w, step, address, register, got)
    BY <1>1, <2>3 DEF Meant
  <2> QED
    BY <1>2, <2>1, <2>4 DEF SendsRight
<1>6. I2cTypeOK
  <2>1. scl \in 0 .. 1 /\ pull \in 0 .. 1 /\ seen \in 0 .. 1 /\ sensor \in Sensors
    BY <1>1, NowTyped
  <2>2. hold \in 0 .. 1 /\ (hold = 0 => sensor.st \in {"ack", "send"})
    BY <1>1, HoldsTyped DEF WiresOK
  <2>3. \A i \in 1 .. Len(got) : got[i] \in Bytes
    BY <1>1 DEF ReadOK
  <2> QED
    BY <1>1, <2>1, <2>2, <2>3 DEF I2cTypeOK, ReadOK, WiresOK, LineOps, Sensors, States
<1> QED
  BY <1>4, <1>5, <1>6 DEF ReadsRight

LEMMA ThermalHolds == MCSpec => []ThermalInv
<1>1. MCInit => ThermalInv
  BY ThermalInitInv DEF MCInit
<1>2. ThermalInv /\ [MCNext]_controlVars => ThermalInv'
  <2> SUFFICES ASSUME ThermalInv, [MCNext]_controlVars PROVE ThermalInv'
    OBVIOUS
  <2>1. [ThermalNext]_thermalVars
    BY DEF MCNext, controlVars
  <2> QED
    BY <2>1, ThermalNextInv
<1> QED
  BY <1>1, <1>2, PTL DEF MCSpec

LEMMA I2cHolds == MCSpec => []I2cInv
<1>1. MCInit => I2cInv
  BY I2cInitInv DEF MCInit
<1>2. I2cInv /\ [MCNext]_controlVars => I2cInv'
  <2> SUFFICES ASSUME I2cInv, [MCNext]_controlVars PROVE I2cInv'
    OBVIOUS
  <2>1. [I2cNext]_i2cVars
    BY DEF MCNext, controlVars
  <2> QED
    BY <2>1, I2cNextInv
<1> QED
  BY <1>1, <1>2, PTL DEF MCSpec

(* What is taken for a temperature is what the sensor meant, for any memory*)
(* size, address, read length, number of recovery clocks and deaths of the *)
(* process between two line operations, and any sensors, targets, scans and*)
(* restarts of the poll loop: the calibration in use is that of the sensor *)
(* read, a read that succeeds has the bytes that sensor has, and a sensor  *)
(* acknowledges at its own address and at no other.                        *)
THEOREM SensorsAlwaysTrusted == MCSpec => []SensorsTrusted
<1>1. ThermalInv /\ I2cInv => SensorsTrusted
  BY I2cInvReads DEF ThermalInv, SensorsTrusted
<1> QED
  BY <1>1, ThermalHolds, I2cHolds, PTL

(***************************************************************************)
(* The type invariant of every machine.  What is more than a type in it:   *)
(* the count of failed logins, and with it the length of the lock, is      *)
(* bounded by the logins that were let in before the lock; and the lapses  *)
(* the alarms are held back by are within their bounds.                    *)
(***************************************************************************)

(* A login that was checked may still fail and count.  As long as nobody is*)
(* locked out there are fewer failures than the limit; from then on nobody *)
(* is let in, and every further failure is of a login already checked.     *)
CheckedLogins == {r \in LoginReq : login[r] = "checked"}

LockOK ==
  /\ failures \in [count : Nat, until : Nat] /\ failures.until <= now + 8 * LockTicks
  /\ IF failures.until = 0 THEN failures.count < MaxFailures
     ELSE failures.count + Cardinality(CheckedLogins)
            <= MaxFailures + Cardinality(LoginReq) - 1

LoginsOK ==
  /\ login \in [LoginReq -> {"idle", "checked", "renewing"}]
  /\ saveFaults \in 0..MaxSaveFaults
  /\ attempts \in 0..MaxAttempts /\ restarted \in 0..SessRestarts
  /\ configured \in BOOLEAN /\ clearing \in BOOLEAN /\ now \in 0..MaxSessTicks
  /\ \A t \in Tokens : lifetime[t] \in 0..now + Ttl

LEMMA SessSizes ==
  /\ MaxTokens \in Nat /\ Ttl \in Nat /\ MaxAttempts \in Nat /\ MaxSessTicks \in Nat
  /\ SessRestarts \in Nat /\ MaxSaveFaults \in Nat /\ MaxFailures \in Nat \ {0} /\ LockTicks \in Nat \ {0}
  /\ IsFiniteSet(LoginReq)
BY SessAssumption

LEMMA LoginCounts ==
  /\ \A S \in SUBSET LoginReq : Cardinality(S) \in Nat /\ Cardinality(S) <= Cardinality(LoginReq)
  /\ \A S \in SUBSET LoginReq : \A r \in S : Cardinality(S \ {r}) = Cardinality(S) - 1
<1>1. ASSUME NEW S \in SUBSET LoginReq
      PROVE  IsFiniteSet(S) /\ Cardinality(S) \in Nat /\ Cardinality(S) <= Cardinality(LoginReq)
  BY SessSizes, FS_Subset, FS_CardinalityType
<1>2. ASSUME NEW S \in SUBSET LoginReq, NEW r \in S
      PROVE  Cardinality(S \ {r}) = Cardinality(S) - 1
  BY <1>1, FS_RemoveElement
<1> QED
  BY <1>1, <1>2

LEMMA LoginsInit == SessInit => LockOK /\ LoginsOK
<1> SUFFICES ASSUME SessInit PROVE LockOK /\ LoginsOK
  OBVIOUS
<1>1. failures = [count |-> 0, until |-> 0] /\ now = 0
  BY DEF SessInit, NoFailure
<1>2. LockOK
  <2>1. 8 * LockTicks \in Nat /\ 0 < MaxFailures /\ 0 <= 0 + 8 * LockTicks
    BY SessSizes
  <2>2. failures.count = 0 /\ failures.until = 0 /\ failures \in [count : Nat, until : Nat]
    BY <1>1
  <2> DEFINE w == 8 * LockTicks
  <2>3. failures.until <= now + w
    BY <1>1, <2>1, <2>2
  <2> QED
    BY <2>1, <2>2, <2>3 DEF LockOK
<1>3. LoginsOK
  <2>1. /\ login = [r \in LoginReq |-> "idle"] /\ attempts = 0 /\ restarted = 0 /\ now = 0
        /\ configured \in BOOLEAN /\ clearing = FALSE /\ saveFaults = 0
        /\ lifetime = [t \in Tokens |-> 0]
    BY DEF SessInit, Nothing
  <2>2. 0 \in 0..MaxAttempts /\ 0 \in 0..SessRestarts /\ 0 \in 0..MaxSessTicks /\ 0 \in 0..0 + Ttl
        /\ 0 \in 0..MaxSaveFaults
    BY SessSizes
  <2> QED
    BY <2>1, <2>2 DEF LoginsOK
<1> QED
  BY <1>2, <1>3

LEMMA LoginsMoveOn ==
  ASSUME SessInv, LoginsOK, [SessNext]_sessVars
  PROVE  LoginsOK'
<1> USE SessSizes DEF LoginsOK
<1>0. issued \in Nat /\ lifetime \in [Tokens -> Nat] /\ now \in Nat
  BY DEF SessInv, StoreOK
<1>1. ASSUME NEW n, lifetime' = [lifetime EXCEPT ![n] = now + Ttl], now' = now
      PROVE  \A t \in Tokens : lifetime'[t] \in 0..now' + Ttl
  BY <1>0, <1>1
<1>9. ASSUME NEW C, Persist(C) PROVE saveFaults' \in 0..MaxSaveFaults
  BY <1>9 DEF Persist
<1>10. ASSUME CreateSession, now' = now
       PROVE  /\ saveFaults' \in 0..MaxSaveFaults
              /\ \A t \in Tokens : lifetime'[t] \in 0..now' + Ttl
  <2>1. lifetime' = [lifetime EXCEPT ![issued + 1] = now + Ttl] /\ Persist({issued + 1})
    BY <1>10 DEF CreateSession
  <2> QED
    BY <1>1, <1>9, <1>10, <2>1
<1>2. CASE FirstSetup
  BY <1>2, <1>10 DEF FirstSetup
<1>3. ASSUME NEW r \in LoginReq, LoginSucceeds(r) \/ ResetCreates(r) PROVE LoginsOK'
  <2>1. CreateSession /\ login' = [login EXCEPT ![r] = "idle"]
        /\ UNCHANGED <<now, attempts, restarted, configured, clearing>>
    BY <1>3 DEF LoginSucceeds, ResetCreates
  <2> QED
    BY <1>10, <2>1
<1>11. ASSUME NEW r \in LoginReq, ResetClears(r) PROVE LoginsOK'
  <2>1. Persist(1..issued) /\ login' = [login EXCEPT ![r] = "renewing"]
        /\ attempts < MaxAttempts /\ attempts' = attempts + 1
        /\ UNCHANGED <<now, restarted, configured, clearing, lifetime>>
    BY <1>11 DEF ResetClears, ClearStore
  <2> QED
    BY <1>9, <2>1
<1>12. CASE ClearSessions
  <2>1. Persist(1..issued) /\ clearing' = FALSE
        /\ UNCHANGED <<now, login, attempts, restarted, configured, lifetime>>
    BY <1>12 DEF ClearSessions, ClearStore
  <2> QED
    BY <1>9, <2>1
<1>13. ASSUME NEW t \in Tokens, Logout(t) PROVE LoginsOK'
  <2>1. Persist({t}) /\ UNCHANGED <<now, login, attempts, restarted, configured, clearing, lifetime>>
    BY <1>13 DEF Logout
  <2> QED
    BY <1>9, <2>1
<1>4. CASE \E r \in LoginReq : LoginBegins(r) \/ LoginFails(r)
  BY <1>4 DEF LoginBegins, LoginFails, saving
<1>5. CASE SessTick
  <2>1. now' = now + 1 /\ now' \in 0..MaxSessTicks /\ UNCHANGED lifetime
    BY <1>0, <1>5 DEF SessTick
  <2>2. \A t \in Tokens : lifetime'[t] \in 0..now' + Ttl
    BY <1>0, <2>1
  <2> QED
    BY <1>5, <2>1, <2>2 DEF SessTick, saving
<1>6. CASE SessRestart
  <2>1. /\ restarted' \in 0..SessRestarts /\ login' = [r \in LoginReq |-> "idle"]
        /\ clearing' = FALSE /\ UNCHANGED <<now, attempts, configured, lifetime, saveFaults>>
    BY <1>6 DEF SessRestart
  <2>2. \A t \in Tokens : lifetime'[t] \in 0..now' + Ttl
    BY <2>1
  <2> QED
    BY <2>1, <2>2
<1>7. CASE FactoryReset \/ SweepSessions \/ \E t \in Tokens : Validate(t)
  BY <1>7 DEF FactoryReset, SweepSessions, Validate, saving
<1>8. CASE UNCHANGED sessVars
  BY <1>8 DEF sessVars
<1> QED
  BY <1>2, <1>3, <1>4, <1>5, <1>6, <1>7, <1>8, <1>11, <1>12, <1>13 DEF SessNext

LEMMA LockHolds ==
  ASSUME SessInv, LoginsOK, LockOK, [SessNext]_sessVars
  PROVE  LockOK'
<1> DEFINE C == CheckedLogins
           N == Cardinality(LoginReq)
<1>0. /\ failures.count \in Nat /\ failures.until \in Nat /\ now \in Nat /\ N \in Nat
      /\ C \in SUBSET LoginReq /\ Cardinality(C) \in Nat /\ Cardinality(C) <= N
  BY LoginCounts DEF LockOK, LoginsOK, CheckedLogins
\* Nobody failed, or what was failed is forgotten.
<1>1. ASSUME failures' = NoFailure, now' = now PROVE LockOK'
  BY <1>0, <1>1, SessSizes DEF LockOK, NoFailure
<1>2. ASSUME UNCHANGED failures, UNCHANGED CheckedLogins, now' \in Nat, now' >= now
      PROVE  LockOK'
  <2>1. CheckedLogins' = CheckedLogins
    BY <1>2
  <2> DEFINE w == 8 * LockTicks
             u == failures.until
  <2>2. w \in Nat /\ u \in Nat /\ u <= now + w /\ now \in Nat
    BY <1>0, SessSizes DEF LockOK
  <2> HIDE DEF w, u
  <2> DEFINE a == now
             b == now'
  <2>5. a \in Nat /\ b \in Nat /\ a <= b
    BY <1>0, <1>2
  <2>6. u <= a + w
    BY <2>2
  <2> HIDE DEF a, b
  <2>7. u <= b + w
    BY ONLY <2>2, <2>5, <2>6
  <2>4. u <= now' + w
    BY <2>7 DEF b
  <2>3. failures.until <= now' + 8 * LockTicks
    BY <2>4 DEF w, u
  <2> QED
    BY <1>2, <2>1, <2>3 DEF LockOK
<1>11. ASSUME UNCHANGED login PROVE UNCHANGED CheckedLogins
  BY <1>11 DEF CheckedLogins
<1>3. ASSUME NEW r \in LoginReq, LoginBegins(r) PROVE LockOK'
  <2>1. CASE failures.until # 0 /\ ~Locked
    BY <1>1, <1>3, <2>1 DEF LoginBegins, ForgetLock
  <2>2. CASE failures.until # 0 /\ Locked
    <3>1. login' = [login EXCEPT ![r] = "idle"] /\ login[r] = "idle" /\ UNCHANGED failures
          /\ now' = now
      BY <1>3, <2>2 DEF LoginBegins, ForgetLock
    <3>2. login' = login
      BY <3>1 DEF LoginsOK
    <3> QED
      BY <1>0, <1>2, <1>11, <3>1, <3>2
  <2>3. CASE failures.until = 0
    <3>1. UNCHANGED failures /\ now' = now
      BY <1>3, <2>3 DEF LoginBegins, ForgetLock
    <3> QED
      BY <2>3, <3>1 DEF LockOK
  <2> QED
    BY <2>1, <2>2, <2>3
<1>4. ASSUME NEW r \in LoginReq, LoginFails(r) PROVE LockOK'
  <2> DEFINE count == failures.count + 1
             over == count - MaxFailures
             factor == CASE over = 0 -> 1 [] over = 1 -> 2 [] over = 2 -> 4 [] OTHER -> 8
             until == IF over < 0 THEN failures.until ELSE now + LockTicks * factor
  <2>1. /\ failures' = [count |-> count, until |-> until] /\ now' = now
        /\ login[r] = "checked" /\ login' = [login EXCEPT ![r] = "idle"]
    BY <1>4 DEF LoginFails
  <2>2. CheckedLogins' = C \ {r} /\ r \in C
    BY <2>1 DEF CheckedLogins, LoginsOK
  <2>3. Cardinality(CheckedLogins') = Cardinality(C) - 1
    BY <1>0, <2>2, LoginCounts
  <2>4. factor \in {1, 2, 4, 8}
    OBVIOUS
  <2> HIDE DEF factor
  <2>5. LockTicks * factor \in Nat \ {0} /\ LockTicks * factor <= 8 * LockTicks
    BY <2>4, SessSizes
  <2>6. count \in Nat /\ over \in Int
    BY <1>0, SessSizes
  <2>7. until \in Nat /\ until <= now + 8 * LockTicks
    BY <1>0, <2>5, SessSizes DEF LockOK
  <2>8. IF until = 0 THEN count < MaxFailures
        ELSE count + (Cardinality(C) - 1) <= MaxFailures + N - 1
    <3>1. CASE failures.until # 0
      <4>1. until # 0
        BY <1>0, <2>5, <3>1
      <4> QED
        BY <1>0, <3>1, <4>1, SessSizes DEF LockOK
    <3>2. CASE failures.until = 0 /\ over < 0
      BY <1>0, <3>2, SessSizes
    <3>3. CASE failures.until = 0 /\ ~(over < 0)
      <4>1. count = MaxFailures /\ until # 0
        BY <1>0, <2>5, <3>3, SessSizes DEF LockOK
      <4> QED
        BY <1>0, <4>1, SessSizes
    <3> QED
      BY <3>1, <3>2, <3>3
  <2> HIDE DEF count, until
  <2>9. failures'.count = count /\ failures'.until = until
        /\ failures' \in [count : Nat, until : Nat]
    BY <2>1, <2>6, <2>7
  <2> QED
    BY <2>1, <2>3, <2>7, <2>8, <2>9 DEF LockOK
<1>5. ASSUME NEW r \in LoginReq, LoginSucceeds(r) PROVE LockOK'
  BY <1>1, <1>5 DEF LoginSucceeds
<1>6. CASE SessRestart
  BY <1>1, <1>6 DEF SessRestart
<1>7. CASE SessTick
  BY <1>0, <1>2, <1>7, <1>11 DEF SessTick
<1>8. CASE \/ FirstSetup \/ FactoryReset \/ ClearSessions \/ SweepSessions
           \/ \E t \in Tokens : Validate(t) \/ Logout(t)
  <2>1. UNCHANGED failures /\ UNCHANGED login /\ now' = now
    BY <1>8 DEF FirstSetup, FactoryReset, ClearSessions, SweepSessions,
                Validate, Logout
  <2> QED
    BY <1>0, <1>2, <1>11, <2>1
<1>9. CASE UNCHANGED sessVars
  BY <1>0, <1>2, <1>9, <1>11 DEF sessVars
\* A password reset is not a login.
<1>10. ASSUME NEW r \in LoginReq, ResetClears(r) \/ ResetCreates(r) PROVE LockOK'
  <2>1. /\ UNCHANGED failures /\ now' = now /\ login[r] # "checked"
        /\ login' = [login EXCEPT ![r] = "renewing"] \/ login' = [login EXCEPT ![r] = "idle"]
    BY <1>10 DEF ResetClears, ResetCreates
  <2>2. \A q \in LoginReq : login'[q] = "checked" <=> login[q] = "checked"
    BY <2>1 DEF LoginsOK
  <2>3. UNCHANGED CheckedLogins
    BY <2>2 DEF CheckedLogins
  <2> QED
    BY <1>0, <1>2, <2>1, <2>3
<1> QED
  BY <1>3, <1>4, <1>5, <1>6, <1>7, <1>8, <1>9, <1>10 DEF SessNext

LEMMA SessTyped == ASSUME SessInv, LoginsOK, LockOK PROVE SessTypeOK
<1>1. failures.count \in 0..MaxFailures + Cardinality(LoginReq) - 1
  <2>1. failures.count \in Nat /\ Cardinality(LoginReq) \in Nat
        /\ Cardinality(CheckedLogins) \in Nat
    BY LoginCounts DEF LockOK, CheckedLogins
  <2> QED
    BY <2>1, SessSizes DEF LockOK
<1>2. failures.until \in 0..now + 8 * LockTicks
  BY SessSizes DEF LockOK, LoginsOK
<1>3. \A t \in Tokens : sessions[t] \in 0..now + Ttl /\ sessFile[t] \in 0..Unix + Ttl \div Sec
  <2>1. \A t \in Tokens : sessions[t] \in Nat /\ sessFile[t] \in Nat
    BY DEF SessInv, StoreOK
  <2>2. now + Ttl \in Nat /\ Unix + Ttl \div Sec \in Nat
    BY FullSeconds, SessSizes DEF SessInv, StoreOK, Unix
  <2> QED
    BY <2>1, <2>2 DEF SessInv, MemoryOK, FileOK, InMemory, InFile
<1>4. \A t \in Tokens : sessions[t] # 0 \/ sessFile[t] # 0 => t <= issued
  <2>1. \A t \in Tokens : t \in Nat
    BY DEF Tokens
  <2> QED
    BY <2>1 DEF SessInv, MemoryOK, FileOK, InMemory, InFile, StoreOK
<1>5. \A t \in Tokens : lifetime[t] \in 0..now + Ttl
  BY DEF LoginsOK
<1> QED
  BY <1>1, <1>2, <1>3, <1>4, <1>5 DEF SessTypeOK, SessInv, StoreOK, LoginsOK

(* The lapses of the alarms.                                               *)
LEMMA AlarmInitTyped == AlarmInit => AlarmTypeOK
<1>1. Cooldown \in -MaxBack..Cooldown /\ TempCooldown \in -MaxBack..TempCooldown
      /\ 0 \in -MaxBack..Sustain /\ 0 \in 0..MaxSteps
  BY AlarmAssumption
<1> QED
  BY <1>1 DEF AlarmInit, AlarmTypeOK

LEMMA AlarmNextTyped == AlarmTypeOK /\ [AlarmNext]_alarmVars => AlarmTypeOK'
<1> SUFFICES ASSUME AlarmTypeOK, [AlarmNext]_alarmVars PROVE AlarmTypeOK'
  OBVIOUS
<1>0. /\ Cooldown \in Nat /\ TempCooldown \in Nat /\ Sustain \in Nat /\ MaxBack \in Nat
      /\ MaxSteps \in Nat
  BY AlarmAssumption
<1> USE <1>0 DEF AlarmTypeOK
<1>1. \A n \in Int, cap \in Nat : n >= -MaxBack => Upto(n, cap) \in -MaxBack..cap
  BY DEF Upto
<1>2. CASE Accept
  BY <1>2 DEF Accept, engineVars
<1>3. CASE \E b \in BOOLEAN : Ignore(b) \/ AlarmReport(b)
  BY <1>3 DEF Ignore, AlarmReport, engineVars
<1>4. CASE Evaluate \/ StateHolds
  BY <1>4 DEF Evaluate, StateHolds, Crosses, Clears, Fires, Read, Unfired, bridgeVars
<1>5. CASE Tick
  <2>1. sentAgo' \in -MaxBack..Cooldown /\ firedAgo' \in -MaxBack..TempCooldown
    BY <1>1, <1>5 DEF Tick
  <2>2. since' \in -MaxBack..Sustain /\ (state # "sustaining" => since' = 0)
    BY <1>1, <1>5 DEF Tick
  <2> QED
    BY <1>5, <2>1, <2>2 DEF Tick
<1>6. CASE StepBack
  <2>1. sentAgo' \in -MaxBack..Cooldown /\ firedAgo' \in -MaxBack..TempCooldown
    BY <1>6 DEF StepBack
  <2>2. since' \in -MaxBack..Sustain /\ (state # "sustaining" => since' = 0)
    BY <1>6 DEF StepBack
  <2> QED
    BY <1>6, <2>1, <2>2 DEF StepBack
<1>7. CASE \E p \in {"cool", "band", "hot", "none"} : Scene(p)
  BY <1>7 DEF Scene, bridgeVars, engineVars
<1>8. CASE UNCHANGED alarmVars
  BY <1>8 DEF alarmVars
<1> QED
  BY <1>2, <1>3, <1>4, <1>5, <1>6, <1>7, <1>8 DEF AlarmNext

(* The documents.                                                          *)
LEMMA ConfTyped == ASSUME ConfInv PROVE ConfTypeOK
<1>1. ConfTypes
  BY DEF ConfInv
<1>2. [held EXCEPT !.password = Unset] \in Document \/ held = NoDoc
  <2>1. SUFFICES ASSUME NEW doc \in Document, held = Masked(doc)
                 PROVE  [held EXCEPT !.password = Unset] \in Document
    BY <1>1 DEF ConfTypes
  <2>2. [held EXCEPT !.password = Unset] = [doc EXCEPT !.password = Unset]
    BY <2>1 DEF Masked, Document
  <2>3. Unset \in Values.password
    BY FieldValues
  <2> QED
    BY <2>2, <2>3 DEF Document
<1>3. \A r \in WebReq : creq[r] \in Handlers
  BY <1>1 DEF ConfTypes
<1>4. \A r \in WebReq :
        /\ creq[r].at \in {"idle", "open", "write", "store"}
        /\ creq[r].op \in Ops /\ creq[r].doc \in Document /\ creq[r].mixed \in BOOLEAN
  BY <1>3 DEF Handlers
<1> QED
  BY <1>1, <1>2, <1>4 DEF ConfTypeOK, ConfTypes

(* The scans posted are no more than there were requests.                  *)
PostsOK ==
  /\ posted \in Nat /\ scans \in 0..MaxScans /\ posted <= scans /\ twiBound \in BOOLEAN

LEMMA PostsInit == ThermalInit => PostsOK
BY ThermalAssumption DEF ThermalInit, PostsOK

LEMMA PostsNext == PostsOK /\ [ThermalNext]_thermalVars => PostsOK'
<1> SUFFICES ASSUME PostsOK, [ThermalNext]_thermalVars PROVE PostsOK'
  OBVIOUS
<1> USE ThermalAssumption DEF PostsOK
<1>1. CASE PollStep
  <2>1. UNCHANGED <<posted, scans>>
    BY <1>1 DEF PollStep, TakePass, OpenBus, OpenFails, ReadSensor, ReadFails
  <2>2. twiBound' \in BOOLEAN
    <3>1. twiBound' = twiBound \/ twiBound' = FALSE
      <4>1. CASE TakePass
        BY <4>1 DEF TakePass
      <4>2. CASE OpenBus
        BY <4>2 DEF OpenBus
      <4>3. CASE OpenFails
        BY <4>3 DEF OpenFails
      <4>4. CASE ReadSensor \/ ReadFails
        BY <4>4 DEF ReadSensor, ReadFails
      <4> QED
        BY <1>1, <4>1, <4>2, <4>3, <4>4 DEF PollStep
    <3> QED
      BY <3>1
  <2> QED
    BY <2>1, <2>2
<1>2. CASE ScanStep
  <2>1. CASE BeginScan
    BY <2>1 DEF BeginScan
  <2>2. CASE SweepStarts
    BY <2>2 DEF SweepStarts
  <2>3. CASE Sweep
    <3>1. UNCHANGED <<posted, scans>> /\ twiBound' = (twiBound /\ Answering # {})
      BY <2>3 DEF Sweep
    <3>2. twiBound' \in BOOLEAN
      BY <3>1, Zenon
    <3> QED
      BY <3>1, <3>2
  <2> QED
    BY <1>2, <2>1, <2>2, <2>3 DEF ScanStep
<1>3. CASE PostScan \/ SweepGivesUp \/ ThermalRestart
  BY <1>3 DEF PostScan, SweepGivesUp, ThermalRestart
<1>4. CASE \E p \in PutReq : PutTarget(p) \/ PutOverlay(p)
  BY <1>4 DEF PutTarget, PutOverlay
<1>5. CASE \E a \in Addr : Unplug(a) \/ \E s \in Addr : Plug(a, s)
  BY <1>5 DEF Unplug, Plug
<1>6. CASE UNCHANGED thermalVars
  BY <1>6 DEF thermalVars
<1> QED
  BY <1>1, <1>2, <1>3, <1>4, <1>5, <1>6 DEF ThermalNext

LEMMA ThermalTyped == ASSUME ThermalInv, PostsOK PROVE ThermalTypeOK
<1>1. SensorOK /\ PassLocked
  BY DEF ThermalInv
<1>2. /\ poll.at \in {"sleep", "open", "read"} /\ {poll.target, poll.last} \subseteq Target
      /\ {poll.eeprom, poll.spot, reading.from, reading.cal} \subseteq Addr \cup {Nobody}
      /\ scan.at \in {"off", "wait", "sweep"}
  BY <1>1 DEF SensorOK
<1>3. posted \in 0..MaxScans
  BY ThermalAssumption DEF PostsOK
<1> QED
  BY <1>1, <1>2, <1>3 DEF ThermalTypeOK, SensorOK, PassLocked, PostsOK

ControlInv ==
  /\ ConfInv /\ SessInv /\ LoginsOK /\ LockOK /\ AiInv /\ FanoutInv /\ AlarmTypeOK
  /\ ExitInv /\ ThermalInv /\ PostsOK /\ I2cInv

\* A machine that does not run does not change, and neither does any other.
LEMMA MachinesMove ==
  ASSUME [MCNext]_controlVars
  PROVE  /\ [ConfNext]_confVars /\ [SessNext]_sessVars /\ [AiNext]_aiVars
         /\ [FanoutNext]_fanoutVars /\ [AlarmNext]_alarmVars /\ [ExitNext]_exitVars
         /\ [ThermalNext]_thermalVars /\ [I2cNext]_i2cVars
BY DEF MCNext, controlVars

LEMMA ControlHolds == MCSpec => []ControlInv
<1>1. MCInit => ControlInv
  BY ConfInitInv, SessInitInv, LoginsInit, AiInitInv, FanoutInitInv, AlarmInitTyped,
     ExitInitInv, ThermalInitInv, PostsInit, I2cInitInv DEF MCInit, ControlInv
<1>2. ControlInv /\ [MCNext]_controlVars => ControlInv'
  <2> SUFFICES ASSUME ControlInv, [MCNext]_controlVars PROVE ControlInv'
    OBVIOUS
  <2>1. ConfInv' /\ AiInv' /\ FanoutInv' /\ AlarmTypeOK'
    BY MachinesMove, ConfNextInv, AiNextInv, FanoutNextInv, AlarmNextTyped DEF ControlInv
  <2>2. SessInv' /\ LoginsOK' /\ LockOK'
    BY MachinesMove, SessNextInv, LoginsMoveOn, LockHolds DEF ControlInv
  <2>3. ExitInv' /\ ThermalInv' /\ PostsOK' /\ I2cInv'
    BY MachinesMove, ExitNextInv, ThermalNextInv, PostsNext, I2cNextInv DEF ControlInv
  <2> QED
    BY <2>1, <2>2, <2>3 DEF ControlInv
<1> QED
  BY <1>1, <1>2, PTL DEF MCSpec

(* Every machine keeps to its types, for any values of the constants: in   *)
(* particular the count of failed logins stays below the limit plus the    *)
(* logins in flight, which bounds the shift that makes the lock longer.    *)
THEOREM MachinesAlwaysTyped == MCSpec => []MCTypeOK
<1>1. ControlInv => MCTypeOK
  <2> SUFFICES ASSUME ControlInv PROVE MCTypeOK
    OBVIOUS
  <2>1. ConfTypeOK /\ SessTypeOK /\ ThermalTypeOK /\ I2cTypeOK
    BY ConfTyped, SessTyped, ThermalTyped, I2cInvReads DEF ControlInv
  <2>2. AiTypeOK /\ FanoutTypeOK /\ AlarmTypeOK /\ ExitTypeOK
    BY DEF ControlInv, AiInv, AiTypes, FanoutInv, ExitInv
  <2> QED
    BY <2>1, <2>2 DEF MCTypeOK
<1> QED
  BY <1>1, ControlHolds, PTL

(* Configuration, sessions, models, events, exit and sensor keep, side by  *)
(* side, what each keeps alone (the handlers of src/src/web/, the loops of *)
(* src/src/main.rs).                                                       *)
THEOREM ControlAlwaysSound ==
  MCSpec => [](/\ SavedIsRunning /\ SignedInStays /\ ListedLoads
               /\ BrowserSeesAll /\ NotCutShort /\ SensorsTrusted)
<1> DEFINE ControlSound ==
      /\ SavedIsRunning /\ SignedInStays /\ ListedLoads
      /\ BrowserSeesAll /\ NotCutShort /\ SensorsTrusted
<1>1. ControlInv => ControlSound
  <2> SUFFICES ASSUME ControlInv PROVE ControlSound
    OBVIOUS
  <2>1. SavedIsRunning
    BY DEF ControlInv, ConfInv, OneAtATime, Agrees, SavedIsRunning
  <2>2. SignedInStays /\ BrowserSeesAll
    BY SessInvStays DEF ControlInv, FanoutInv
  <2>3. ListedLoads
    BY DEF ControlInv, AiInv, AiFilesOK, EntrySound, ListedLoads
  <2>4. NotCutShort
    BY SupsFacts DEF ControlInv, ExitInv, AckIsLast, AwaitedPassed, Passed, NotCutShort
  <2>5. SensorsTrusted
    BY I2cInvReads DEF ControlInv, ThermalInv, SensorsTrusted
  <2> QED
    BY <2>1, <2>2, <2>3, <2>4, <2>5
<1> HIDE DEF ControlSound
<1>2. MCSpec => []ControlSound
  BY <1>1, ControlHolds, PTL
<1> QED
  BY <1>2 DEF ControlSound
=============================================================================
