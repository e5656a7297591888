----------------------------- MODULE PipeProofs ------------------------------
(***************************************************************************)
(* Proofs about module Pipe, for any processes, any size of the buffer and *)
(* counters of any width that it divides.                                  *)
(***************************************************************************)
EXTENDS Pipe, SequenceTheorems, TLAPS

\* What pipe.c and its callers grant: PIPESIZE divides the range of the counters, which is
\* larger, and sys_pipe opens both ends.
SizesFit ==
    /\ PIPESIZE \in Nat \ {0} /\ UINT \in Nat /\ PIPESIZE < UINT /\ UINT % PIPESIZE = 0
    /\ MaxCount \in Nat /\ Bytes # {}
    /\ Readers # {} /\ Writers # {} /\ Killable \subseteq Users /\ NoProc \notin Users

-----------------------------------------------------------------------------
(***************************************************************************)
(* The inductive invariant                                                 *)
(***************************************************************************)
Writing == {"write", "full", "wsleep"}
Reading == {"read", "empty", "rsleep"}

\* The buffer is not overrun.
Fits == Held <= PIPESIZE

\* Whoever is about to sleep has p->lock, so that nobody changes what it has seen.
Locking == \A p \in Users : pc[p] \in {"full", "empty"} <=> lock = p

\* What was true when a process went to sleep is true until it is woken.
Waiting ==
    \A p \in Users :
        /\ pc[p] \in {"full", "wsleep"} => readopen /\ Held = PIPESIZE
        /\ pc[p] = "empty" => writeopen /\ nread = nwrite
        /\ pc[p] = "rsleep" => writeopen /\ (nread = nwrite \/ \E w \in Writers : killed[w])

\* A call has its end open; the last close of an end is the only one that closes the pipe.
Using ==
    \A p \in Users :
        /\ pc[p] \in Writing => p \in wr
        /\ pc[p] \in Reading => p \in rd
        /\ pc[p] = "closewrite" => wr = {} /\ \A q \in Users : pc[q] = "closewrite" => q = p
        /\ pc[p] = "closeread" => rd = {} /\ \A q \in Users : pc[q] = "closeread" => q = p

\* An end is open until the last of its processes is through with pipeclose.
Ends ==
    /\ writeopen <=> wr # {} \/ \E p \in Users : pc[p] = "closewrite"
    /\ readopen <=> rd # {} \/ \E p \in Users : pc[p] = "closeread"
    /\ freed <=> ~ readopen /\ ~ writeopen

IInv == TypeOK /\ Fits /\ Locking /\ Waiting /\ Using /\ Ends

-----------------------------------------------------------------------------
(***************************************************************************)
(* Counters that wrap around                                               *)
(***************************************************************************)

\* Quotient and remainder.
LEMMA DivMod ==
    ASSUME NEW n \in Nat \ {0}, NEW a \in Int
    PROVE  \E d \in Int : \E m \in 0..(n - 1) : m = a % n /\ a = d * n + m
<1>1. a % n \in 0..(n - 1)
  OBVIOUS
<1>2. a \div n \in Int
  OBVIOUS
<1>3. a = (a \div n) * n + (a % n)
  OBVIOUS
<1> QED
  BY <1>1, <1>2, <1>3, Zenon

\* The remainder is the only one.
LEMMA ModIs ==
    ASSUME NEW n \in Nat \ {0}, NEW a \in Int, NEW q \in Int, NEW r \in 0..(n - 1), a = q * n + r
    PROVE  a % n = r
<1>1. PICK d \in Int, m \in 0..(n - 1) : m = a % n /\ a = d * n + m
  BY DivMod, Zenon
<1>2. (q - d) * n = m - r
  BY <1>1
<1>3. CASE q > d
  <2>1. (q - d) * n >= n
    BY <1>3
  <2> QED
    BY <1>1, <1>2, <2>1
<1>4. CASE q < d
  <2>1. (q - d) * n <= - n
    BY <1>4
  <2> QED
    BY <1>1, <1>2, <2>1
<1>5. CASE q = d
  BY <1>1, <1>5
<1> QED
  BY <1>3, <1>4, <1>5

\* Numbers that differ by a multiple of n have the same remainder.
LEMMA SameRemainder ==
    ASSUME NEW n \in Nat \ {0}, NEW a \in Int, NEW b \in Int, NEW k \in Int, a = b + k * n
    PROVE  a % n = b % n
<1>1. PICK d \in Int, m \in 0..(n - 1) : m = b % n /\ b = d * n + m
  BY DivMod, Zenon
<1>2. a = (d + k) * n + m /\ d + k \in Int
  BY <1>1
<1> QED
  BY <1>1, <1>2, ModIs, ZenonT(40)

\* A counter is reduced once at most.
LEMMA Wraps ==
    ASSUME NEW n \in Nat \ {0}, NEW a \in Int, 0 <= a + n, a < n + n
    PROVE  \E b \in 0..(n - 1) :
              b = a % n /\ b = IF a < 0 THEN a + n ELSE IF a < n THEN a ELSE a - n
<1>1. PICK b : b = IF a < 0 THEN a + n ELSE IF a < n THEN a ELSE a - n
  BY Zenon
<1>2. PICK q : q = IF a < 0 THEN -1 ELSE IF a < n THEN 0 ELSE 1
  BY Zenon
<1>3. b \in 0..(n - 1) /\ q \in Int
  BY <1>1, <1>2
<1>4. a = q * n + b
  BY <1>1, <1>2
<1>5. b = a % n
  BY <1>3, <1>4, ModIs
<1> QED
  BY <1>1, <1>3, <1>5, Zenon

\* w is h steps ahead of r, on counters with n values.
AheadBy(n, r, w, h) == h \in Nat /\ h = (w - r) % n

\* Then w is r + h, reduced once at most.
LEMMA Ahead ==
    ASSUME NEW n \in Nat \ {0}, NEW r \in 0..(n - 1), NEW w \in 0..(n - 1), NEW h,
           AheadBy(n, r, w, h)
    PROVE  h \in 0..(n - 1) /\ w = IF r + h < n THEN r + h ELSE r + h - n
<1>1. PICK a : a = w - r
  BY Zenon
<1>2. a \in Int /\ 0 <= a + n /\ a < n + n
  BY <1>1
<1>3. PICK g \in 0..(n - 1) : g = a % n /\ g = IF a < 0 THEN a + n ELSE IF a < n THEN a ELSE a - n
  BY <1>2, Wraps, Zenon
<1>4. h = g
  BY <1>1, <1>3, Zenon DEF AheadBy
<1> QED
  BY <1>1, <1>3, <1>4

\* k more are written: w becomes v.
LEMMA AheadMore ==
    ASSUME NEW n \in Nat \ {0}, NEW r \in 0..(n - 1), NEW w \in 0..(n - 1), NEW k \in Nat,
           NEW h, AheadBy(n, r, w, h), h + k < n, NEW v, v = (w + k) % n
    PROVE  v \in 0..(n - 1) /\ AheadBy(n, r, v, h + k)
<1>1. h \in 0..(n - 1) /\ w = IF r + h < n THEN r + h ELSE r + h - n
  BY Ahead
<1>2. PICK a : a = w + k
  BY Zenon
<1>3. a \in Int /\ 0 <= a + n /\ a < n + n
  BY <1>1, <1>2
<1>4. PICK u \in 0..(n - 1) : u = a % n /\ u = IF a < 0 THEN a + n ELSE IF a < n THEN a ELSE a - n
  BY <1>3, Wraps, Zenon
<1>5. v = u
  BY <1>2, <1>4, Zenon
<1>6. PICK c : c = u - r
  BY Zenon
<1>7. c \in Int /\ 0 <= c + n /\ c < n + n
  BY <1>4, <1>6
<1>8. PICK x \in 0..(n - 1) : x = c % n /\ x = IF c < 0 THEN c + n ELSE IF c < n THEN c ELSE c - n
  BY <1>7, Wraps, Zenon
<1>9. x = h + k /\ h + k \in Nat
  BY <1>1, <1>2, <1>3, <1>4, <1>6, <1>8
<1> QED
  BY <1>4, <1>5, <1>6, <1>8, <1>9, Zenon DEF AheadBy

\* k are read: r becomes v.
LEMMA AheadLess ==
    ASSUME NEW n \in Nat \ {0}, NEW r \in 0..(n - 1), NEW w \in 0..(n - 1), NEW k \in Nat,
           NEW h, AheadBy(n, r, w, h), k <= h, NEW v, v = (r + k) % n
    PROVE  v \in 0..(n - 1) /\ AheadBy(n, v, w, h - k)
<1>1. h \in 0..(n - 1) /\ w = IF r + h < n THEN r + h ELSE r + h - n
  BY Ahead
<1>2. PICK a : a = r + k
  BY Zenon
<1>3. a \in Int /\ 0 <= a + n /\ a < n + n
  BY <1>1, <1>2
<1>4. PICK u \in 0..(n - 1) : u = a % n /\ u = IF a < 0 THEN a + n ELSE IF a < n THEN a ELSE a - n
  BY <1>3, Wraps, Zenon
<1>5. v = u
  BY <1>2, <1>4, Zenon
<1>6. PICK c : c = w - u
  BY Zenon
<1>7. c \in Int /\ 0 <= c + n /\ c < n + n
  BY <1>4, <1>6
<1>8. PICK x \in 0..(n - 1) : x = c % n /\ x = IF c < 0 THEN c + n ELSE IF c < n THEN c ELSE c - n
  BY <1>7, Wraps, Zenon
<1>9. x = h - k /\ h - k \in Nat
  <2>1. h - k \in Nat /\ h - k < n
    BY <1>1
  <2>2. CASE r + k < n
    <3>1. u = r + k
      BY <1>2, <1>4, <2>2
    <3> QED
      BY <1>1, <1>6, <1>8, <2>1, <2>2, <3>1
  <2>3. CASE ~ (r + k < n)
    <3>1. u = r + k - n
      BY <1>1, <1>2, <1>4, <2>3
    <3> QED
      BY <1>1, <1>6, <1>8, <2>1, <2>3, <3>1
  <2> QED
    BY <2>2, <2>3, Zenon
<1> QED
  BY <1>4, <1>5, <1>6, <1>8, <1>9, Zenon DEF AheadBy

\* Reducing a counter does not change its place in the buffer.
LEMMA SamePlace ==
    ASSUME NEW n \in Nat \ {0}, NEW U \in Nat \ {0}, U % n = 0, NEW a \in Int, NEW b \in Int
    PROVE  ((a % U) + b) % n = (a + b) % n
<1>1. PICK e \in Int, m \in 0..(U - 1) : m = a % U /\ a = e * U + m
  BY DivMod, ZenonT(40)
<1>2. PICK f \in Int : U = f * n
  <2>1. PICK f \in Int, z \in 0..(n - 1) : z = U % n /\ U = f * n + z
    BY DivMod
  <2> QED
    BY <2>1
<1>3. a = e * (f * n) + m
  BY <1>1, <1>2, Zenon
<1>4. e * (f * n) = (e * f) * n
  BY <1>2
<1>5. PICK g \in Int : g = e * f
  BY <1>1, <1>2
<1>6. PICK c \in Int : c = g * n
  BY <1>5
<1>7. a = c + m
  BY <1>3, <1>4, <1>5, <1>6, Zenon
<1>8. PICK x, y : x = a + b /\ y = m + b
  BY Zenon
<1>9. x \in Int /\ y \in Int /\ x = y + c
  BY <1>1, <1>6, <1>7, <1>8
<1>10. x % n = y % n
  BY <1>5, <1>6, <1>9, SameRemainder, ZenonT(40)
<1> QED
  BY <1>1, <1>8, <1>10, Zenon

\* How far the place of the i-th byte in the buffer is ahead of the place of the next write.
PlaceIs(n, r, w, h, i) ==
    \E j \in 0..(n - 1) :
        /\ j = (r + i - 1) % n
        /\ (j - w) % n = IF i <= h THEN i - 1 - h + n ELSE i - 1 - h

\* The place that is i steps after r in the buffer.
LEMMA PlaceAhead ==
    ASSUME NEW n \in Nat \ {0}, NEW U \in Nat \ {0}, U % n = 0,
           NEW r \in 0..(U - 1), NEW w \in 0..(U - 1),
           NEW h, AheadBy(U, r, w, h), h <= n, NEW i \in 1..n
    PROVE  PlaceIs(n, r, w, h, i)
<1>1. h \in 0..(U - 1) /\ w = IF r + h < U THEN r + h ELSE r + h - U
  BY Ahead
<1>2. PICK f \in Int : U = f * n
  <2>0. U \in Int
    OBVIOUS
  <2>1. PICK f \in Int, z \in 0..(n - 1) : z = U % n /\ U = f * n + z
    BY <2>0, DivMod, Zenon
  <2> QED
    BY <2>1
<1>3. PICK a, b, c, d : a = r + i - 1 /\ b = - w /\ c = a + b /\ d = i - 1 - h
  BY Zenon
<1>4. a \in Int /\ b \in Int /\ c \in Int /\ d \in Int /\ 0 <= d + n /\ d < n + n /\ d < n
  BY <1>1, <1>3
<1>5. n % n = 0
  <2>1. n = 1 * n + 0 /\ 1 \in Int /\ n \in Int /\ 0 \in 0..(n - 1)
    OBVIOUS
  <2> QED
    BY <2>1, ModIs
<1>6. PICK j \in 0..(n - 1) : j = a % n
  BY <1>4, DivMod, Zenon
<1>7. (j + b) % n = c % n
  <2>1. ((a % n) + b) % n = (a + b) % n
    BY <1>4, <1>5, SamePlace, Zenon
  <2> QED
    BY <1>3, <1>6, <2>1, Zenon
<1>8. j + b = j - w
  BY <1>3, <1>6
<1>9. c % n = d % n
  <2>1. CASE r + h < U
    <3>1. c = d
      BY <1>1, <1>3, <2>1
    <3> QED
      BY <3>1, Zenon
  <2>2. CASE ~ (r + h < U)
    <3>1. c = d + U
      BY <1>1, <1>3, <2>2
    <3> QED
      BY <1>2, <1>4, <3>1, SameRemainder, Zenon
  <2> QED
    BY <2>1, <2>2, Zenon
<1>10. PICK x \in 0..(n - 1) : x = d % n /\ x = IF d < 0 THEN d + n ELSE IF d < n THEN d ELSE d - n
  BY <1>4, Wraps, Zenon
<1>11. x = IF i <= h THEN i - 1 - h + n ELSE i - 1 - h
  BY <1>1, <1>3, <1>4, <1>10
<1> QED
  BY <1>3, <1>6, <1>7, <1>8, <1>9, <1>10, <1>11, Zenon DEF PlaceIs

-----------------------------------------------------------------------------
(***************************************************************************)
(* The buffer                                                              *)
(***************************************************************************)
Queued == [i \in 1..Held |-> data[(nread + i - 1) % PIPESIZE]]

\* What the proofs use of SizesFit.
LEMMA Sizes ==
    ASSUME SizesFit
    PROVE  /\ PIPESIZE \in Nat \ {0} /\ UINT \in Nat \ {0} /\ PIPESIZE < UINT
           /\ UINT % PIPESIZE = 0 /\ MaxCount \in Nat
BY DEF SizesFit

\* nwrite is Held bytes ahead of nread, and the pipe is empty when they are equal.
LEMMA HeldIs ==
    ASSUME SizesFit, nread \in 0..(UINT - 1), nwrite \in 0..(UINT - 1)
    PROVE  /\ AheadBy(UINT, nread, nwrite, Held) /\ Held \in Nat
           /\ nread = nwrite <=> Held = 0
<1>1. UINT \in Nat \ {0}
  BY Sizes, Zenon
<1>2. PICK a : a = nwrite - nread
  BY Zenon
<1>3. a \in Int /\ 0 <= a + UINT /\ a < UINT + UINT
  BY <1>1, <1>2
<1>4. PICK h \in 0..(UINT - 1) : /\ h = a % UINT
                                  /\ h = IF a < 0 THEN a + UINT ELSE IF a < UINT THEN a ELSE a - UINT
  BY <1>1, <1>3, Wraps, Zenon
<1>5. h = Held
  BY <1>2, <1>4, Zenon DEF Held
<1>6. h \in Nat
  BY <1>4
<1>7. nread = nwrite <=> h = 0
  BY <1>1, <1>2, <1>4
<1> QED
  BY <1>5, <1>6, <1>7, Zenon DEF AheadBy, Held

\* k bytes are put behind the others.
LEMMA PutBytes ==
    ASSUME SizesFit, data \in [0..(PIPESIZE - 1) -> Bytes],
           nread \in 0..(UINT - 1), nwrite \in 0..(UINT - 1),
           NEW k \in Nat, NEW s \in [1..k -> Bytes], Held + k <= PIPESIZE,
           data' = Fill(s), nwrite' = Advance(nwrite, k), nread' = nread
    PROVE  /\ data' \in [0..(PIPESIZE - 1) -> Bytes] /\ nwrite' \in 0..(UINT - 1)
           /\ Held' = Held + k
           /\ \A i \in 1..Held : Queued'[i] = Queued[i]
           /\ \A i \in 1..k : Queued'[Held + i] = s[i]
<1>0. /\ PIPESIZE \in Nat \ {0} /\ UINT \in Nat \ {0} /\ PIPESIZE < UINT /\ UINT % PIPESIZE = 0
  BY Sizes, Zenon
<1>1. AheadBy(UINT, nread, nwrite, Held) /\ Held \in Nat
  BY HeldIs, Zenon
<1>2. PICK h : h = Held
  BY Zenon
<1>3. h \in Nat /\ h + k <= PIPESIZE /\ h + k < UINT /\ AheadBy(UINT, nread, nwrite, h)
  <2>1. h \in Nat /\ h + k <= PIPESIZE
    BY <1>1, <1>2, Zenon
  <2>2. h + k < UINT
    BY <1>0, <2>1
  <2> QED
    BY <1>1, <1>2, <2>1, <2>2, Zenon
<1>4. nwrite' \in 0..(UINT - 1) /\ AheadBy(UINT, nread, nwrite', h + k)
  <2>1. PICK v : v = nwrite'
    BY Zenon
  <2>2. v = (nwrite + k) % UINT
    BY <2>1, Zenon DEF Advance
  <2>3. v \in 0..(UINT - 1) /\ AheadBy(UINT, nread, v, h + k)
    BY <1>0, <1>3, <2>2, AheadMore
  <2> QED
    BY <2>1, <2>3, Zenon
<1>5. Held' = h + k
  BY <1>4, Zenon DEF AheadBy, Held
<1>6. Len(s) = k
  OBVIOUS
<1>7. \A j \in 0..(PIPESIZE - 1) : (j - nwrite) % PIPESIZE \in Nat
  BY <1>0
<1>8. \A j \in 0..(PIPESIZE - 1) : data'[j] =
         IF (j - nwrite) % PIPESIZE < k THEN s[((j - nwrite) % PIPESIZE) + 1] ELSE data[j]
  BY <1>6, Zenon DEF Fill
<1>9. data' \in [0..(PIPESIZE - 1) -> Bytes]
  <2>1. ASSUME NEW j \in 0..(PIPESIZE - 1)
        PROVE  data'[j] \in Bytes
    <3>1. PICK m : m = (j - nwrite) % PIPESIZE
      BY Zenon
    <3>2. m \in Nat
      BY <1>7, <3>1, Zenon
    <3>3. m < k => m + 1 \in 1..k
      BY <3>2
    <3> QED
      BY <1>8, <3>1, <3>3, Zenon
  <2>2. data' = [j \in 0..(PIPESIZE - 1) |-> data'[j]]
    BY Zenon DEF Fill
  <2> QED
    BY <2>1, <2>2, Zenon
<1>10. ASSUME NEW i \in 1..(h + k)
       PROVE  data'[(nread + i - 1) % PIPESIZE] =
                 IF i <= h THEN data[(nread + i - 1) % PIPESIZE] ELSE s[i - h]
  <2>1. i \in 1..PIPESIZE /\ h <= PIPESIZE
    BY <1>0, <1>3
  <2>2. PICK j \in 0..(PIPESIZE - 1) :
           /\ j = (nread + i - 1) % PIPESIZE
           /\ (j - nwrite) % PIPESIZE = IF i <= h THEN i - 1 - h + PIPESIZE ELSE i - 1 - h
    <3>1. PlaceIs(PIPESIZE, nread, nwrite, h, i)
      BY <1>0, <1>3, <2>1, PlaceAhead, Zenon
    <3> QED
      BY <3>1, Zenon DEF PlaceIs
  <2>4. PICK m : m = (j - nwrite) % PIPESIZE
    BY Zenon
  <2>5. m = IF i <= h THEN i - 1 - h + PIPESIZE ELSE i - 1 - h
    BY <2>2, <2>4, Zenon
  <2>6. data'[j] = IF m < k THEN s[m + 1] ELSE data[j]
    BY <1>8, <2>4, Zenon
  <2>7. IF i <= h THEN ~ (m < k) ELSE m < k /\ m + 1 = i - h
    BY <1>0, <1>3, <2>5
  <2>8. data'[j] = IF i <= h THEN data[j] ELSE s[i - h]
    BY <2>6, <2>7, Zenon
  <2> QED
    BY <2>2, <2>8, Zenon
<1>11. Queued' = [i \in 1..(h + k) |-> data'[(nread + i - 1) % PIPESIZE]]
  BY <1>5, Zenon DEF Queued
<1>12. \A i \in 1..h : i \in 1..(h + k) /\ i <= h
  BY <1>3
<1>13. \A i \in 1..k : h + i \in 1..(h + k) /\ ~ (h + i <= h) /\ h + i - h = i
  BY <1>3
<1>14. \A i \in 1..h : Queued'[i] = Queued[i]
  <2>1. Queued = [i \in 1..h |-> data[(nread + i - 1) % PIPESIZE]]
    BY <1>2, Zenon DEF Queued
  <2> QED
    BY <1>10, <1>11, <1>12, <2>1, Zenon
<1>15. \A i \in 1..k : Queued'[h + i] = s[i]
  <2> SUFFICES ASSUME NEW i \in 1..k
               PROVE  Queued'[h + i] = s[i]
    BY Zenon
  <2>0. PICK l : l = h + i
    BY Zenon
  <2>1. l \in 1..(h + k) /\ ~ (l <= h) /\ l - h = i
    BY <1>3, <2>0
  <2>2. Queued'[l] = s[l - h]
    BY <1>10, <1>11, <2>1, Zenon
  <2> QED
    BY <2>0, <2>1, <2>2, Zenon
<1> QED
  BY <1>2, <1>4, <1>5, <1>9, <1>14, <1>15, Zenon

\* k bytes are taken from the front.
LEMMA TakeBytes ==
    ASSUME SizesFit, nread \in 0..(UINT - 1), nwrite \in 0..(UINT - 1),
           NEW k \in Nat, k <= Held,
           nread' = Advance(nread, k), nwrite' = nwrite, data' = data
    PROVE  /\ nread' \in 0..(UINT - 1) /\ Held' = Held - k /\ Held - k \in Nat
           /\ \A i \in 1..k : Queued[i] = Pop(k)[i]
           /\ \A i \in 1..(Held - k) : Queued'[i] = Queued[k + i]
<1>0. /\ PIPESIZE \in Nat \ {0} /\ UINT \in Nat \ {0} /\ PIPESIZE < UINT /\ UINT % PIPESIZE = 0
  BY Sizes, Zenon
<1>1. AheadBy(UINT, nread, nwrite, Held) /\ Held \in Nat
  BY HeldIs, Zenon
<1>2. PICK h : h = Held
  BY Zenon
<1>3. h \in Nat /\ k <= h /\ AheadBy(UINT, nread, nwrite, h)
  BY <1>1, <1>2, Zenon
<1>4. nread' \in 0..(UINT - 1) /\ AheadBy(UINT, nread', nwrite, h - k)
  <2>1. PICK v : v = nread'
    BY Zenon
  <2>2. v = (nread + k) % UINT
    BY <2>1, Zenon DEF Advance
  <2>3. v \in 0..(UINT - 1) /\ AheadBy(UINT, v, nwrite, h - k)
    BY <1>0, <1>3, <2>2, AheadLess
  <2> QED
    BY <2>1, <2>3, Zenon
<1>5. Held' = h - k /\ h - k \in Nat
  BY <1>4, Zenon DEF AheadBy, Held
<1>6. ASSUME NEW i \in 1..(h - k)
      PROVE  Queued'[i] = data[(nread + (k + i) - 1) % PIPESIZE]
  <2>1. Queued'[i] = data[(nread' + i - 1) % PIPESIZE]
    BY <1>5, <1>6, Zenon DEF Queued
  <2>2. PICK a, b : a = nread + k /\ b = i - 1
    BY Zenon
  <2>3. a \in Int /\ b \in Int
    BY <1>0, <1>5, <2>2
  <2>4. ((a % UINT) + b) % PIPESIZE = (a + b) % PIPESIZE
    BY <1>0, <2>3, SamePlace, ZenonT(40)
  <2>5. a + b = nread + (k + i) - 1
    BY <1>0, <1>5, <2>2
  <2>6. nread' = a % UINT
    BY <2>2, Zenon DEF Advance
  <2>7. nread' + b = nread' + i - 1
    BY <1>0, <1>4, <1>5, <2>2
  <2> QED
    BY <2>1, <2>4, <2>5, <2>6, <2>7, Zenon
<1>7. \A i \in 1..h : Queued[i] = data[(nread + i - 1) % PIPESIZE]
  BY <1>2, Zenon DEF Queued
<1>8. \A i \in 1..(h - k) : Queued'[i] = Queued[k + i]
  <2> SUFFICES ASSUME NEW i \in 1..(h - k)
               PROVE  Queued'[i] = Queued[k + i]
    BY Zenon
  <2>1. k + i \in 1..h
    BY <1>3
  <2> QED
    BY <1>6, <1>7, <2>1, Zenon
<1>9. \A i \in 1..k : Queued[i] = Pop(k)[i]
  <2>1. \A i \in 1..k : i \in 1..h
    BY <1>3
  <2> QED
    BY <1>7, <2>1, Zenon DEF Pop
<1> QED
  BY <1>2, <1>4, <1>5, <1>8, <1>9, Zenon

-----------------------------------------------------------------------------
(***************************************************************************)
(* Invariance                                                              *)
(***************************************************************************)
\* The new pipe of pipealloc, with its two ends given out.
LEMMA InitInv ==
    ASSUME SizesFit, Init
    PROVE  IInv
<1>1. PIPESIZE \in Nat \ {0} /\ UINT \in Nat \ {0} /\ MaxCount \in Nat
  BY Sizes, Zenon
<1>2. TypeOK
  <2>1. 0 \in 0..(UINT - 1) /\ 0 \in 0..MaxCount
    BY <1>1
  <2>2. (CHOOSE b \in Bytes : TRUE) \in Bytes
    BY Zenon DEF SizesFit
  <2>3. << >> \in Seq(Bytes)
    OBVIOUS
  <2>4. "idle" \in PCs
    BY Zenon DEF PCs
  <2> QED
    BY <2>1, <2>2, <2>3, <2>4, Zenon DEF Init, TypeOK
<1>3. Held = 0
  <2>1. nread \in 0..(UINT - 1) /\ nwrite \in 0..(UINT - 1)
    BY <1>2, Zenon DEF TypeOK
  <2> QED
    BY <2>1, HeldIs, Zenon DEF Init
<1>4. Fits
  BY <1>1, <1>3 DEF Fits
<1>5. Locking
  BY Zenon DEF Init, Locking, SizesFit
<1>6. Waiting
  BY DEF Init, Waiting
<1>7. Using
  BY DEF Init, Using, Writing, Reading
<1>8. Ends
  BY Zenon DEF Init, Ends, SizesFit
<1> QED
  BY <1>2, <1>4, <1>5, <1>6, <1>7, <1>8, Zenon DEF IInv

\* Calls begin.
LEMMA CallInv ==
    ASSUME SizesFit, IInv, NEW p \in Users, NEW n \in 0..MaxCount, Write(p, n) \/ Read(p, n)
    PROVE  IInv'
<1>1. PICK place \in {"write", "read"} :
         Call(p, place, n) /\ (place = "write" => p \in wr) /\ (place = "read" => p \in rd)
  BY DEF Write, Read
<1>2. /\ pc[p] = "idle" /\ pc' = [pc EXCEPT ![p] = place] /\ left' = [left EXCEPT ![p] = n]
      /\ data' = data /\ nread' = nread /\ nwrite' = nwrite /\ got' = got /\ readopen' = readopen
      /\ writeopen' = writeopen /\ freed' = freed /\ rd' = rd /\ wr' = wr /\ lock' = lock
      /\ killed' = killed
  BY <1>1 DEF Call, bytes, ends
<1>3. Held' = Held
  BY <1>2, Zenon DEF Held
<1>4. TypeOK'
  BY <1>1, <1>2 DEF IInv, TypeOK, PCs
<1>5. Fits' /\ Locking' /\ Waiting' /\ Using' /\ Ends'
  BY <1>1, <1>2, <1>3 DEF IInv, TypeOK, Fits, Locking, Waiting, Using, Ends, Writing, Reading
<1> QED
  BY <1>4, <1>5, Zenon DEF IInv

\* sleep.
LEMMA SleepInv ==
    ASSUME SizesFit, IInv, NEW p \in Users, Sleep(p)
    PROVE  IInv'
<1>2. /\ pc[p] \in {"full", "empty"} /\ lock' = NoProc
      /\ pc' = [pc EXCEPT ![p] = IF @ = "full" THEN "wsleep" ELSE "rsleep"] /\ left' = left
      /\ data' = data /\ nread' = nread /\ nwrite' = nwrite /\ got' = got /\ readopen' = readopen
      /\ writeopen' = writeopen /\ freed' = freed /\ rd' = rd /\ wr' = wr /\ killed' = killed
  BY DEF Sleep, bytes, ends
<1>3. Held' = Held
  BY <1>2, Zenon DEF Held
<1>4. TypeOK'
  BY <1>2 DEF IInv, TypeOK, PCs
<1>5. Fits'
  BY <1>2, <1>3, Zenon DEF IInv, Fits
<1>6. Locking'
  BY <1>2 DEF IInv, TypeOK, Locking, SizesFit
<1>7. Waiting'
  BY <1>2, <1>3 DEF IInv, TypeOK, Waiting
<1>8. Using'
  BY <1>2 DEF IInv, TypeOK, Using, Writing, Reading
<1>9. Ends'
  BY <1>2 DEF IInv, TypeOK, Ends
<1> QED
  BY <1>4, <1>5, <1>6, <1>7, <1>8, <1>9, Zenon DEF IInv

\* kill.
LEMMA KillInv ==
    ASSUME SizesFit, IInv, NEW p \in Killable, Kill(p)
    PROVE  IInv'
<1>1. p \in Users
  BY DEF SizesFit
<1>2. /\ killed' = [killed EXCEPT ![p] = TRUE] /\ lock' = lock
      /\ pc' = [pc EXCEPT ![p] = IF @ = "rsleep" THEN "read" ELSE IF @ = "wsleep" THEN "write" ELSE @]
      /\ data' = data /\ nread' = nread /\ nwrite' = nwrite /\ got' = got /\ readopen' = readopen
      /\ writeopen' = writeopen /\ freed' = freed /\ rd' = rd /\ wr' = wr /\ left' = left
  BY DEF Kill, bytes, ends
<1>3. Held' = Held
  BY <1>2, Zenon DEF Held
<1>4. TypeOK'
  BY <1>1, <1>2 DEF IInv, TypeOK, PCs
<1>5. Fits'
  BY <1>3, Zenon DEF IInv, Fits
<1>6. Locking'
  BY <1>1, <1>2, <1>3 DEF IInv, TypeOK, Locking, SizesFit
<1>7. Waiting'
  BY <1>1, <1>2, <1>3 DEF IInv, TypeOK, Waiting
<1>8. Using'
  BY <1>1, <1>2 DEF IInv, TypeOK, Using, Writing, Reading
<1>9. Ends'
  BY <1>1, <1>2 DEF IInv, TypeOK, Ends
<1> QED
  BY <1>4, <1>5, <1>6, <1>7, <1>8, <1>9, Zenon DEF IInv

\* fileclose of a write end.
LEMMA CloseWriteInv ==
    ASSUME SizesFit, IInv, NEW p \in Users, CloseWrite(p)
    PROVE  IInv'
<1>1. /\ pc[p] = "idle" /\ p \in wr /\ wr' = wr \ {p} /\ data' = data /\ nread' = nread
      /\ pc' = [pc EXCEPT ![p] = IF wr' = {} THEN "closewrite" ELSE @] /\ left' = left
      /\ nwrite' = nwrite /\ got' = got /\ readopen' = readopen /\ writeopen' = writeopen
      /\ freed' = freed /\ rd' = rd /\ lock' = lock /\ killed' = killed
  BY DEF CloseWrite, bytes
<1>2. Held' = Held
  BY <1>1, Zenon DEF Held
<1>3. TypeOK'
  BY <1>1 DEF IInv, TypeOK, PCs
<1>4. Fits'
  BY <1>1, <1>2, Zenon DEF IInv, Fits
<1>5. Locking'
  BY <1>1 DEF IInv, TypeOK, Locking
<1>6. Waiting'
  BY <1>1, <1>2 DEF IInv, TypeOK, Waiting
<1>7. Using'
  <2>1. \A q \in Users : pc[q] # "closewrite"
    BY <1>1 DEF IInv, Using
  <2> QED
    BY <1>1, <2>1 DEF IInv, TypeOK, Using, Writing, Reading
<1>8. Ends'
  BY <1>1 DEF IInv, TypeOK, Ends
<1> QED
  BY <1>3, <1>4, <1>5, <1>6, <1>7, <1>8, Zenon DEF IInv

\* fileclose of a read end.
LEMMA CloseReadInv ==
    ASSUME SizesFit, IInv, NEW p \in Users, CloseRead(p)
    PROVE  IInv'
<1>1. /\ pc[p] = "idle" /\ p \in rd /\ rd' = rd \ {p} /\ data' = data /\ nread' = nread
      /\ pc' = [pc EXCEPT ![p] = IF rd' = {} THEN "closeread" ELSE @] /\ left' = left
      /\ nwrite' = nwrite /\ got' = got /\ readopen' = readopen /\ writeopen' = writeopen
      /\ freed' = freed /\ wr' = wr /\ lock' = lock /\ killed' = killed
  BY DEF CloseRead, bytes
<1>2. Held' = Held
  BY <1>1, Zenon DEF Held
<1>3. TypeOK'
  BY <1>1 DEF IInv, TypeOK, PCs
<1>4. Fits'
  BY <1>1, <1>2, Zenon DEF IInv, Fits
<1>5. Locking'
  BY <1>1 DEF IInv, TypeOK, Locking
<1>6. Waiting'
  BY <1>1, <1>2 DEF IInv, TypeOK, Waiting
<1>7. Using'
  <2>1. \A q \in Users : pc[q] # "closeread"
    BY <1>1 DEF IInv, Using
  <2> QED
    BY <1>1, <2>1 DEF IInv, TypeOK, Using, Writing, Reading
<1>8. Ends'
  BY <1>1 DEF IInv, TypeOK, Ends
<1> QED
  BY <1>3, <1>4, <1>5, <1>6, <1>7, <1>8, Zenon DEF IInv

\* pipeclose wakes every sleeper of the other end, so that nobody sleeps on a closed one.
LEMMA PipecloseInv ==
    ASSUME SizesFit, IInv, NEW p \in Users, pipeclose(p)
    PROVE  IInv'
<1>1. /\ lock = NoProc /\ data' = data /\ nread' = nread /\ left' = left
      /\ nwrite' = nwrite /\ got' = got /\ rd' = rd /\ wr' = wr /\ lock' = lock /\ killed' = killed
      /\ freed' <=> ~ readopen' /\ ~ writeopen'
      /\ freed' \in BOOLEAN
  BY DEF pipeclose, bytes, Frees
<1>2. Held' = Held
  BY <1>1, Zenon DEF Held
<1>3. Fits'
  BY <1>1, <1>2, Zenon DEF IInv, Fits
<1>4. \A q \in Users : pc[q] \notin {"full", "empty"}
  BY <1>1, Zenon DEF IInv, Locking, SizesFit
<1>5. CASE pc[p] = "closewrite"
  <2>1. /\ writeopen' = FALSE /\ readopen' = readopen
        /\ pc' = [q \in Users |-> IF q = p THEN "idle" ELSE IF pc[q] = "rsleep" THEN "read" ELSE pc[q]]
    BY <1>5 DEF pipeclose, WakeReaders, IInv, TypeOK
  <2>2. wr = {} /\ \A q \in Users : pc[q] = "closewrite" => q = p
    BY <1>5, Zenon DEF IInv, Using
  <2>3. TypeOK'
    BY <1>1, <2>1 DEF IInv, TypeOK, PCs
  <2>4. Locking'
    BY <1>1, <1>4, <2>1 DEF SizesFit, Locking
  <2>5. Waiting'
    BY <1>1, <1>2, <1>4, <2>1 DEF IInv, Waiting
  <2>6. Using'
    BY <1>1, <2>1, <2>2 DEF IInv, Using, Writing, Reading
  <2>7. Ends'
    <3>1. writeopen' <=> wr' # {} \/ \E q \in Users : pc'[q] = "closewrite"
      BY <1>1, <2>1, <2>2
    <3>2. readopen' <=> rd' # {} \/ \E q \in Users : pc'[q] = "closeread"
      BY <1>1, <1>5, <2>1 DEF IInv, Ends
    <3> QED
      BY <1>1, <3>1, <3>2, Zenon DEF Ends
  <2> QED
    BY <1>3, <2>3, <2>4, <2>5, <2>6, <2>7, Zenon DEF IInv
<1>6. CASE pc[p] = "closeread"
  <2>1. /\ readopen' = FALSE /\ writeopen' = writeopen
        /\ pc' = [q \in Users |-> IF q = p THEN "idle" ELSE IF pc[q] = "wsleep" THEN "write" ELSE pc[q]]
    BY <1>6 DEF pipeclose, WakeWriters, IInv, TypeOK
  <2>2. rd = {} /\ \A q \in Users : pc[q] = "closeread" => q = p
    BY <1>6, Zenon DEF IInv, Using
  <2>3. TypeOK'
    BY <1>1, <2>1 DEF IInv, TypeOK, PCs
  <2>4. Locking'
    BY <1>1, <1>4, <2>1 DEF SizesFit, Locking
  <2>5. Waiting'
    BY <1>1, <1>2, <1>4, <2>1 DEF IInv, Waiting
  <2>6. Using'
    BY <1>1, <2>1, <2>2 DEF IInv, Using, Writing, Reading
  <2>7. Ends'
    <3>1. readopen' <=> rd' # {} \/ \E q \in Users : pc'[q] = "closeread"
      BY <1>1, <2>1, <2>2
    <3>2. writeopen' <=> wr' # {} \/ \E q \in Users : pc'[q] = "closewrite"
      BY <1>1, <1>6, <2>1 DEF IInv, Ends
    <3> QED
      BY <1>1, <3>1, <3>2, Zenon DEF Ends
  <2> QED
    BY <1>3, <2>3, <2>4, <2>5, <2>6, <2>7, Zenon DEF IInv
<1> QED
  BY <1>5, <1>6 DEF pipeclose

\* The bytes that pipewrite puts into the buffer: as many as there is room for.
LEMMA WriteFits ==
    ASSUME SizesFit, IInv, NEW p \in Users, pipewrite(p)
    PROVE  \E k \in Nat : \E s \in [1..k -> Bytes] :
              /\ k = Smaller(left[p], Room) /\ left[p] \in Nat /\ k <= left[p]
              /\ Held + k <= PIPESIZE /\ (left[p] > k => Held + k = PIPESIZE)
              /\ data' = Fill(s) /\ nwrite' = Advance(nwrite, k) /\ nread' = nread
<1>1. PICK h : h = Held
  BY Zenon
<1>2. nread \in 0..(UINT - 1) /\ nwrite \in 0..(UINT - 1) /\ left[p] \in 0..MaxCount
  BY DEF IInv, TypeOK
<1>3. PIPESIZE \in Nat /\ MaxCount \in Nat
  BY Zenon DEF SizesFit
<1>4. h \in Nat /\ h <= PIPESIZE
  BY <1>1, <1>2, HeldIs, Zenon DEF IInv, Fits
<1>5. PICK k : k = Smaller(left[p], Room)
  BY Zenon
<1>6. k = IF left[p] < PIPESIZE - h THEN left[p] ELSE PIPESIZE - h
  BY <1>1, <1>5, Zenon DEF Smaller, Room
<1>7. /\ k \in Nat /\ left[p] \in Nat /\ k <= left[p] /\ h + k <= PIPESIZE
      /\ left[p] > k => h + k = PIPESIZE
  BY <1>2, <1>3, <1>4, <1>6
<1>8. PICK s \in [1..k -> Bytes] : data' = Fill(s)
  BY <1>5, Zenon DEF pipewrite
<1>9. nwrite' = Advance(nwrite, k) /\ nread' = nread
  BY <1>5, Zenon DEF pipewrite
<1> QED
  BY <1>1, <1>5, <1>7, <1>8, <1>9, Zenon

\* pipewrite.  It can leave with bytes in the buffer and a reader asleep only when it was
\* killed: when the read end is closed there is no reader.
LEMMA PipewriteInv ==
    ASSUME SizesFit, IInv, NEW p \in Users, pipewrite(p)
    PROVE  IInv'
<1>0. PICK k \in Nat : \E s \in [1..k -> Bytes] :
         /\ k = Smaller(left[p], Room) /\ left[p] \in Nat /\ k <= left[p]
         /\ Held + k <= PIPESIZE /\ (left[p] > k => Held + k = PIPESIZE)
         /\ data' = Fill(s) /\ nwrite' = Advance(nwrite, k) /\ nread' = nread
  BY WriteFits, Zenon
<1>1. PICK s \in [1..k -> Bytes] :
         /\ k = Smaller(left[p], Room) /\ left[p] \in Nat /\ k <= left[p]
         /\ Held + k <= PIPESIZE /\ (left[p] > k => Held + k = PIPESIZE)
         /\ data' = Fill(s) /\ nwrite' = Advance(nwrite, k) /\ nread' = nread
  BY <1>0, Zenon
<1>2. /\ data \in [0..(PIPESIZE - 1) -> Bytes] /\ nread \in 0..(UINT - 1)
      /\ nwrite \in 0..(UINT - 1) /\ MaxCount \in Nat /\ PIPESIZE \in Nat
  BY Zenon DEF IInv, TypeOK, SizesFit
<1>3. data' \in [0..(PIPESIZE - 1) -> Bytes] /\ nwrite' \in 0..(UINT - 1) /\ Held' = Held + k
  BY <1>1, <1>2, PutBytes, Zenon
<1>4. PICK h : h = Held
  BY Zenon
<1>5. h \in Nat /\ h <= PIPESIZE
  BY <1>2, <1>4, HeldIs, Zenon DEF IInv, Fits
<1>6. h + k <= PIPESIZE /\ (left[p] > k => h + k = PIPESIZE) /\ Held' = h + k
  BY <1>1, <1>3, <1>4, Zenon
<1>7. /\ pc[p] = "write" /\ lock = NoProc /\ got' = got /\ readopen' = readopen
      /\ writeopen' = writeopen /\ freed' = freed /\ rd' = rd /\ wr' = wr /\ killed' = killed
  BY DEF pipewrite, ends
<1>8. \A q \in Users : pc[q] \notin {"full", "empty"}
  BY <1>7, Zenon DEF IInv, Locking, SizesFit
<1>9. \/ /\ pc' = [q \in Users |-> IF q = p THEN "idle" ELSE IF pc[q] = "rsleep" THEN "read" ELSE pc[q]]
         /\ left' = [left EXCEPT ![p] = 0] /\ lock' = NoProc
      \/ /\ pc' = [pc EXCEPT ![p] = "idle"] /\ (~ readopen \/ killed[p])
         /\ left' = [left EXCEPT ![p] = 0] /\ lock' = NoProc
      \/ /\ pc' = [q \in Users |-> IF q = p THEN "full" ELSE IF pc[q] = "rsleep" THEN "read" ELSE pc[q]]
         /\ readopen /\ left[p] > k
         /\ left' = [left EXCEPT ![p] = @ - k] /\ lock' = p
  BY <1>1, <1>7 DEF pipewrite, WakeReaders, GivesUp, IInv, TypeOK
<1>10. Fits'
  BY <1>6 DEF Fits
<1>11. CASE /\ pc' = [q \in Users |-> IF q = p THEN "idle" ELSE IF pc[q] = "rsleep" THEN "read" ELSE pc[q]]
            /\ left' = [left EXCEPT ![p] = 0] /\ lock' = NoProc
  <2>1. TypeOK'
    BY <1>2, <1>3, <1>1, <1>7, <1>11 DEF IInv, TypeOK, PCs
  <2>2. Locking'
    BY <1>7, <1>8, <1>11 DEF Locking, SizesFit
  <2>3. Waiting'
    <3>1. \A q \in Users : pc[q] = "wsleep" => readopen /\ h = PIPESIZE
      BY <1>4, Zenon DEF IInv, Waiting
    <3> QED
      BY <1>2, <1>5, <1>6, <1>7, <1>8, <1>11, <3>1 DEF Waiting
  <2>4. Using'
    BY <1>7, <1>11 DEF IInv, Using, Writing, Reading
  <2>5. Ends'
    BY <1>7, <1>11 DEF IInv, Ends
  <2> QED
    BY <1>10, <2>1, <2>2, <2>3, <2>4, <2>5, Zenon DEF IInv
<1>12. CASE /\ pc' = [pc EXCEPT ![p] = "idle"] /\ (~ readopen \/ killed[p])
            /\ left' = [left EXCEPT ![p] = 0] /\ lock' = NoProc
  <2>1. TypeOK'
    BY <1>2, <1>3, <1>1, <1>7, <1>12 DEF IInv, TypeOK, PCs
  <2>2. Locking'
    BY <1>7, <1>8, <1>12 DEF Locking, SizesFit, IInv, TypeOK
  <2>3. Waiting'
    <3>1. \A q \in Users : pc[q] = "wsleep" => readopen /\ h = PIPESIZE
      BY <1>4, Zenon DEF IInv, Waiting
    <3>2. p \in Writers
      BY <1>7 DEF IInv, Using, Writing, TypeOK
    <3>3. \A q \in Users : pc[q] = "rsleep" => writeopen /\ q \in rd
      BY DEF IInv, Waiting, Using, Reading
    <3>4. ~ readopen => rd = {}
      BY Zenon DEF IInv, Ends
    <3>5. \A q \in Users : pc[q] = "rsleep" => writeopen /\ \E w \in Writers : killed[w]
      BY <1>12, <3>2, <3>3, <3>4
    <3> QED
      BY <1>2, <1>5, <1>6, <1>7, <1>8, <1>12, <3>1, <3>5 DEF Waiting, IInv, TypeOK
  <2>4. Using'
    BY <1>7, <1>12 DEF IInv, Using, Writing, Reading, TypeOK
  <2>5. Ends'
    BY <1>7, <1>12 DEF IInv, Ends, TypeOK
  <2> QED
    BY <1>10, <2>1, <2>2, <2>3, <2>4, <2>5, Zenon DEF IInv
<1>13. CASE /\ pc' = [q \in Users |-> IF q = p THEN "full" ELSE IF pc[q] = "rsleep" THEN "read" ELSE pc[q]]
            /\ readopen /\ left[p] > k
            /\ left' = [left EXCEPT ![p] = @ - k] /\ lock' = p
  <2>1. TypeOK'
    <3>1. left' \in [Users -> 0..MaxCount]
      BY <1>1, <1>2, <1>13 DEF IInv, TypeOK
    <3> QED
      BY <1>2, <1>3, <1>1, <1>7, <1>13, <3>1 DEF IInv, TypeOK, PCs
  <2>2. Locking'
    BY <1>7, <1>8, <1>13 DEF Locking, SizesFit
  <2>3. Waiting'
    <3>1. \A q \in Users : pc[q] = "wsleep" => readopen /\ h = PIPESIZE
      BY <1>4, Zenon DEF IInv, Waiting
    <3> QED
      BY <1>2, <1>5, <1>6, <1>7, <1>8, <1>13, <3>1 DEF Waiting
  <2>4. Using'
    BY <1>7, <1>13 DEF IInv, Using, Writing, Reading
  <2>5. Ends'
    BY <1>7, <1>13 DEF IInv, Ends
  <2> QED
    BY <1>10, <2>1, <2>2, <2>3, <2>4, <2>5, Zenon DEF IInv
<1> QED
  BY <1>9, <1>11, <1>12, <1>13, Zenon

\* piperead.  What it takes makes room, so it wakes every writer.
LEMMA PipereadInv ==
    ASSUME SizesFit, IInv, NEW p \in Users, piperead(p)
    PROVE  IInv'
<1>1. /\ data \in [0..(PIPESIZE - 1) -> Bytes] /\ nread \in 0..(UINT - 1)
      /\ nwrite \in 0..(UINT - 1) /\ left[p] \in 0..MaxCount /\ MaxCount \in Nat /\ PIPESIZE \in Nat
  BY DEF IInv, TypeOK, SizesFit
<1>2. /\ pc[p] = "read" /\ lock = NoProc /\ readopen' = readopen /\ data' = data /\ nwrite' = nwrite
      /\ writeopen' = writeopen /\ freed' = freed /\ rd' = rd /\ wr' = wr /\ killed' = killed
  BY DEF piperead, ends, bytes
<1>3. \A q \in Users : pc[q] \notin {"full", "empty"}
  BY <1>2, Zenon DEF IInv, Locking, SizesFit
<1>4. CASE Empties /\ killed[p]
  <2>1. /\ pc' = [pc EXCEPT ![p] = "idle"] /\ left' = [left EXCEPT ![p] = 0] /\ lock' = lock
        /\ nread' = nread /\ got' = got
    BY <1>4 DEF piperead, bytes
  <2>2. Held' = Held
    BY <1>2, <2>1, Zenon DEF Held
  <2>3. TypeOK'
    BY <1>1, <1>2, <2>1 DEF IInv, TypeOK, PCs
  <2>4. Fits'
    BY <2>2, Zenon DEF IInv, Fits
  <2>5. Locking'
    BY <1>2, <1>3, <2>1 DEF Locking, SizesFit, IInv, TypeOK
  <2>6. Waiting'
    BY <1>2, <2>1, <2>2 DEF IInv, TypeOK, Waiting
  <2>7. Using'
    BY <1>2, <2>1 DEF IInv, TypeOK, Using, Writing, Reading
  <2>8. Ends'
    BY <1>2, <2>1 DEF IInv, TypeOK, Ends
  <2> QED
    BY <2>3, <2>4, <2>5, <2>6, <2>7, <2>8, Zenon DEF IInv
<1>5. CASE Empties /\ ~ killed[p]
  <2>1. /\ pc' = [pc EXCEPT ![p] = "empty"] /\ left' = left /\ lock' = p
        /\ nread' = nread /\ got' = got /\ nread = nwrite /\ writeopen
    BY <1>5 DEF piperead, bytes, Empties
  <2>2. Held' = Held
    BY <1>2, <2>1, Zenon DEF Held
  <2>3. TypeOK'
    BY <1>1, <1>2, <2>1 DEF IInv, TypeOK, PCs
  <2>4. Fits'
    BY <2>2, Zenon DEF IInv, Fits
  <2>5. Locking'
    BY <1>2, <1>3, <2>1 DEF Locking, SizesFit, IInv, TypeOK
  <2>6. Waiting'
    BY <1>2, <2>1, <2>2 DEF IInv, TypeOK, Waiting
  <2>7. Using'
    BY <1>2, <2>1 DEF IInv, TypeOK, Using, Writing, Reading
  <2>8. Ends'
    BY <1>2, <2>1 DEF IInv, TypeOK, Ends
  <2> QED
    BY <2>3, <2>4, <2>5, <2>6, <2>7, <2>8, Zenon DEF IInv
<1>6. CASE ~ Empties
  <2>1. PICK h : h = Held
    BY Zenon
  <2>2. h \in Nat /\ h <= PIPESIZE /\ (nread = nwrite <=> h = 0)
    BY <1>1, <2>1, HeldIs, Zenon DEF IInv, Fits
  <2>3. PICK k : k = Smaller(left[p], h)
    BY Zenon
  <2>4. k \in Nat /\ k <= h
    BY <1>1, <2>2, <2>3 DEF Smaller
  <2>5. /\ got' = Pop(k) /\ nread' = Advance(nread, k) /\ left' = [left EXCEPT ![p] = 0] /\ lock' = lock
        /\ pc' = [q \in Users |-> IF q = p THEN "idle" ELSE IF pc[q] = "wsleep" THEN "write" ELSE pc[q]]
    BY <1>2, <1>6, <2>1, <2>3 DEF piperead, WakeWriters, IInv, TypeOK
  <2>6. k <= Held
    BY <2>1, <2>4, Zenon
  <2>7. nread' \in 0..(UINT - 1) /\ Held' = Held - k
    BY <1>1, <1>2, <2>4, <2>5, <2>6, TakeBytes, Zenon
  <2>8. Held' = h - k
    BY <2>1, <2>7, Zenon
  <2>9. Fits'
    BY <1>1, <2>2, <2>4, <2>8 DEF Fits
  <2>10. got' \in Seq(Bytes)
    <3>1. \A i \in 1..k : (nread + i - 1) % PIPESIZE \in 0..(PIPESIZE - 1)
      BY <1>1, <2>4 DEF SizesFit
    <3>2. got' \in [1..k -> Bytes]
      BY <1>1, <2>5, <3>1 DEF Pop
    <3> QED
      BY <2>4, <3>2
  <2>11. TypeOK'
    BY <1>1, <1>2, <2>5, <2>7, <2>10 DEF IInv, TypeOK, PCs
  <2>12. Locking'
    BY <1>2, <1>3, <2>5 DEF Locking, SizesFit
  <2>13. Waiting'
    <3>1. \A q \in Users : pc[q] = "rsleep" =>
             writeopen /\ (nread = nwrite \/ \E w \in Writers : killed[w])
      BY Zenon DEF IInv, Waiting
    <3>2. nread = nwrite => ~ writeopen
      BY <1>6, Zenon DEF Empties
    <3> QED
      BY <1>2, <1>3, <2>5, <3>1, <3>2 DEF Waiting
  <2>14. Using'
    BY <1>2, <2>5 DEF IInv, Using, Writing, Reading
  <2>15. Ends'
    BY <1>2, <2>5 DEF IInv, Ends
  <2> QED
    BY <2>9, <2>11, <2>12, <2>13, <2>14, <2>15, Zenon DEF IInv
<1> QED
  BY <1>4, <1>5, <1>6, Zenon

\* Nothing changes.
LEMMA StutterInv ==
    ASSUME IInv, UNCHANGED vars
    PROVE  IInv'
<1>1. /\ data' = data /\ nread' = nread /\ nwrite' = nwrite /\ got' = got /\ readopen' = readopen
      /\ writeopen' = writeopen /\ freed' = freed /\ rd' = rd /\ wr' = wr /\ lock' = lock
      /\ killed' = killed /\ pc' = pc /\ left' = left
  BY DEF vars
<1> QED
  BY <1>1, Zenon DEF IInv, TypeOK, Fits, Held, Locking, Waiting, Using, Ends

\* Every step keeps the invariant.
LEMMA NextInv ==
    ASSUME SizesFit, IInv, [Next]_vars
    PROVE  IInv'
<1>1. CASE \E p \in Users, n \in 0..MaxCount : Write(p, n) \/ Read(p, n)
  BY <1>1, CallInv, Zenon
<1>2. ASSUME NEW p \in Users, \/ pipewrite(p) \/ piperead(p) \/ Sleep(p)
                              \/ CloseWrite(p) \/ CloseRead(p) \/ pipeclose(p)
      PROVE  IInv'
  BY <1>2, PipewriteInv, PipereadInv, SleepInv, CloseWriteInv, CloseReadInv, PipecloseInv, Zenon
<1>3. CASE \E p \in Killable : Kill(p)
  BY <1>3, KillInv, Zenon
<1>4. CASE Closed \/ UNCHANGED vars
  BY <1>4, StutterInv, Zenon DEF Closed
<1> QED
  BY <1>1, <1>2, <1>3, <1>4, Zenon DEF Next

-----------------------------------------------------------------------------
(***************************************************************************)
(* The theorems                                                            *)
(***************************************************************************)

\* The inductive invariant holds: pipewrite never overruns the buffer (Held <= PIPESIZE),
\* whatever the interleaving of the calls, closes and kills and wherever the counters wrap.
THEOREM Invariance == ASSUME SizesFit PROVE Spec => []IInv
<1>1. Init => IInv
  BY InitInv, Zenon
<1>2. IInv /\ [Next]_vars => IInv'
  BY NextInv, Zenon
<1> QED
  BY <1>1, <1>2, PTL DEF Spec

\* No lost wakeup in pipe.c: a reader sleeps only while the pipe is empty and can be
\* written, a writer only while it is full and can be read; the one exception is a writer
\* killed on a full pipe, which returns without the wakeup of line 95.
THEOREM SleepersHaveReasonHolds == ASSUME SizesFit PROVE Spec => []SleepersHaveReason
<1>1. IInv => SleepersHaveReason
  BY DEF IInv, Waiting, SleepersHaveReason
<1> QED
  BY <1>1, Invariance, PTL

\* pipeclose gives the page to kfree exactly once both ends are closed by all and nobody is
\* in a call on the pipe: no call uses a freed pipe, and none is left over.
THEOREM FreedWhenClosedHolds == ASSUME SizesFit PROVE Spec => []FreedWhenClosed
<1>1. IInv => FreedWhenClosed
  <2> SUFFICES ASSUME IInv PROVE FreedWhenClosed
    BY Zenon
  <2>1. \A p \in Users : pc[p] \in PCs
    BY DEF IInv, TypeOK
  <2>2. freed => rd = {} /\ wr = {} /\ \A p \in Users : pc[p] = "idle"
    BY <2>1 DEF IInv, Using, Ends, PCs, Writing, Reading
  <2>3. rd = {} /\ wr = {} /\ (\A p \in Users : pc[p] = "idle") => freed
    BY DEF IInv, Ends
  <2> QED
    BY <2>2, <2>3, Zenon DEF IInv, TypeOK, FreedWhenClosed
<1> QED
  BY <1>1, Invariance, PTL

-----------------------------------------------------------------------------
(***************************************************************************)
(* A pipe is a bounded queue                                               *)
(***************************************************************************)

\* The bytes in the buffer, oldest first, are a sequence.
LEMMA BytesFrom ==
    ASSUME SizesFit, NEW d \in [0..(PIPESIZE - 1) -> Bytes], NEW r \in 0..(UINT - 1), NEW h \in Nat
    PROVE  [i \in 1..h |-> d[(r + i - 1) % PIPESIZE]] \in [1..h -> Bytes]
<1>1. PIPESIZE \in Nat \ {0} /\ UINT \in Nat
  BY Zenon DEF SizesFit
<1>2. \A i \in 1..h : (r + i - 1) % PIPESIZE \in 0..(PIPESIZE - 1)
  BY <1>1
<1> QED
  BY <1>2

\* So is the abstract queue.
LEMMA QueuedSeq ==
    ASSUME SizesFit, IInv
    PROVE  Queued \in [1..Held -> Bytes] /\ Held \in Nat
<1>1. /\ data \in [0..(PIPESIZE - 1) -> Bytes] /\ nread \in 0..(UINT - 1)
      /\ nwrite \in 0..(UINT - 1)
  BY Zenon DEF IInv, TypeOK
<1>2. Held \in Nat
  BY <1>1, HeldIs, Zenon
<1> QED
  BY <1>1, <1>2, BytesFrom, Zenon DEF Queued

\* Cutting a sequence that is given by its members.
LEMMA Cut ==
    ASSUME NEW S, NEW m \in Nat, NEW k \in 0..m, NEW a \in [1..m -> S], NEW b \in [1..k -> S],
           NEW c \in [1..(m - k) -> S],
           \A i \in 1..k : a[i] = b[i], \A i \in 1..(m - k) : c[i] = a[k + i]
    PROVE  b = SubSeq(a, 1, k) /\ c = SubSeq(a, k + 1, m)
<1>1. a \in Seq(S) /\ Len(a) = m
  OBVIOUS
<1>2. SubSeq(a, 1, k) = [i \in 1..k |-> a[i]]
  BY <1>1
<1>3. SubSeq(a, k + 1, m) = [i \in 1..(m - k) |-> a[k + i]]
  BY <1>1
<1> QED
  BY <1>2, <1>3

\* What ByteQueue's actions are under the refinement mapping.
LEMMA PutIs ==
    ASSUME NEW k \in 1..PIPESIZE, NEW s \in [1..k -> Bytes], Len(Queued) + Len(s) <= PIPESIZE,
           Queued' = Queued \o s, got' = got
    PROVE  Queue!Next
<1>1. Queue!Put(s)
  BY Zenon DEF Queue!Put, Queued
<1> QED
  BY <1>1, Zenon DEF Queue!Next

\* The same for Take.
LEMMA TakeIs ==
    ASSUME NEW k \in 0..Len(Queued), got' = SubSeq(Queued, 1, k),
           Queued' = SubSeq(Queued, k + 1, Len(Queued))
    PROVE  Queue!Next
<1>1. Queue!Take(k) /\ k \in 0..Len([i \in 1..Held |-> data[(nread + i - 1) % PIPESIZE]])
  BY Zenon DEF Queue!Take, Queued
<1> QED
  BY <1>1, Zenon DEF Queue!Next

\* A stretch of pipewrite is one Put, or nothing when there is no room.
LEMMA PipewriteRefines ==
    ASSUME SizesFit, IInv, NEW p \in Users, pipewrite(p)
    PROVE  Queue!Next \/ (Queued' = Queued /\ got' = got)
<1>0. PICK k \in Nat : \E s \in [1..k -> Bytes] :
         /\ Held + k <= PIPESIZE
         /\ data' = Fill(s) /\ nwrite' = Advance(nwrite, k) /\ nread' = nread
  BY WriteFits, Zenon
<1>1. PICK s \in [1..k -> Bytes] :
         /\ Held + k <= PIPESIZE
         /\ data' = Fill(s) /\ nwrite' = Advance(nwrite, k) /\ nread' = nread
  BY <1>0, Zenon
<1>2. /\ data \in [0..(PIPESIZE - 1) -> Bytes] /\ nread \in 0..(UINT - 1)
      /\ nwrite \in 0..(UINT - 1)
  BY Zenon DEF IInv, TypeOK
<1>3. /\ data' \in [0..(PIPESIZE - 1) -> Bytes] /\ Held' = Held + k
      /\ \A i \in 1..Held : Queued'[i] = Queued[i]
      /\ \A i \in 1..k : Queued'[Held + i] = s[i]
  BY <1>1, <1>2, PutBytes, Zenon
<1>4. PICK h : h = Held
  BY Zenon
<1>5. PICK a : a = Queued
  BY Zenon
<1>6. PICK c : c = Queued'
  BY Zenon
<1>7. h \in Nat /\ a \in [1..h -> Bytes]
  BY <1>4, <1>5, QueuedSeq, Zenon
<1>8. h + k \in Nat /\ nread' \in 0..(UINT - 1) /\ PIPESIZE \in Nat
  BY <1>1, <1>2, <1>7 DEF SizesFit
<1>9. c \in [1..(h + k) -> Bytes]
  <2>1. PICK g : g = h + k
    BY Zenon
  <2>2. g \in Nat /\ Held' = g
    BY <1>3, <1>4, <1>8, <2>1, Zenon
  <2>3. c = [i \in 1..g |-> data'[(nread' + i - 1) % PIPESIZE]]
    BY <1>6, <2>2, Zenon DEF Queued
  <2>4. c \in [1..g -> Bytes]
    BY <1>3, <1>8, <2>2, <2>3, BytesFrom, Zenon
  <2> QED
    BY <2>1, <2>4, Zenon
<1>10. (\A i \in 1..h : c[i] = a[i]) /\ (\A i \in 1..k : c[h + i] = s[i])
  BY <1>3, <1>4, <1>5, <1>6, Zenon
<1>11. got' = got
  BY Zenon DEF pipewrite
<1>12. CASE k = 0
  <2>1. c = a
    BY <1>7, <1>9, <1>10, <1>12
  <2> QED
    BY <1>5, <1>6, <1>11, <2>1, Zenon
<1>13. CASE k # 0
  <2>1. c = a \o s
    <3>1. /\ a \in Seq(Bytes) /\ s \in Seq(Bytes) /\ c \in Seq(Bytes)
          /\ Len(a) = h /\ Len(s) = k /\ Len(c) = h + k
      BY <1>7, <1>8, <1>9
    <3>2. /\ a \o s \in Seq(Bytes) /\ Len(a \o s) = h + k
          /\ \A i \in 1..(h + k) : (a \o s)[i] = IF i <= h THEN a[i] ELSE s[i - h]
      BY <3>1, ConcatProperties
    <3>3. ASSUME NEW i \in 1..(h + k)
          PROVE  c[i] = (a \o s)[i]
      <4>1. CASE i <= h
        BY <1>7, <1>10, <3>2, <4>1
      <4>2. CASE i > h
        <5>1. i - h \in 1..k /\ i = h + (i - h) /\ ~ i <= h
          BY <1>7, <4>2
        <5>2. c[h + (i - h)] = s[i - h]
          BY <1>10, <5>1, Zenon
        <5> QED
          BY <3>2, <5>1, <5>2
      <4> QED
        BY <1>7, <4>1, <4>2
    <3> QED
      BY <3>1, <3>2, <3>3, SeqEqual
  <2>2. Len(a) + Len(s) <= PIPESIZE /\ k \in 1..PIPESIZE
    BY <1>1, <1>4, <1>7, <1>8, <1>13
  <2> QED
    BY <1>5, <1>6, <1>11, <2>1, <2>2, PutIs, Zenon
<1> QED
  BY <1>12, <1>13, Zenon

\* piperead's copy is one Take.
LEMMA PipereadRefines ==
    ASSUME SizesFit, IInv, NEW p \in Users, piperead(p)
    PROVE  Queue!Next \/ (Queued' = Queued /\ got' = got)
<1>1. /\ data \in [0..(PIPESIZE - 1) -> Bytes] /\ nread \in 0..(UINT - 1)
      /\ nwrite \in 0..(UINT - 1) /\ left[p] \in Nat /\ PIPESIZE \in Nat
  BY DEF IInv, TypeOK, SizesFit
<1>2. data' = data /\ nwrite' = nwrite
  BY DEF piperead, bytes
<1>3. CASE Empties
  <2>1. nread' = nread /\ got' = got
    BY <1>3 DEF piperead, bytes
  <2> QED
    BY <1>2, <2>1, Zenon DEF Queued, Held
<1>4. CASE ~ Empties
  <2>1. PICK h : h = Held
    BY Zenon
  <2>2. PICK a : a = Queued
    BY Zenon
  <2>3. h \in Nat /\ a \in [1..h -> Bytes]
    BY <2>1, <2>2, QueuedSeq, Zenon
  <2>4. PICK k : k = Smaller(left[p], h)
    BY Zenon
  <2>5. k \in Nat /\ k <= h /\ k \in 0..h
    BY <1>1, <2>3, <2>4 DEF Smaller
  <2>6. got' = Pop(k) /\ nread' = Advance(nread, k)
    BY <1>4, <2>1, <2>4 DEF piperead
  <2>7. k <= Held
    BY <2>1, <2>5, Zenon
  <2>8. /\ nread' \in 0..(UINT - 1) /\ Held' = Held - k /\ Held - k \in Nat
        /\ \A i \in 1..k : Queued[i] = Pop(k)[i]
        /\ \A i \in 1..(Held - k) : Queued'[i] = Queued[k + i]
    BY <1>1, <1>2, <2>5, <2>6, <2>7, TakeBytes, Zenon
  <2>9. PICK c : c = Queued'
    BY Zenon
  <2>10. PICK b : b = Pop(k)
    BY Zenon
  <2>11. c \in [1..(h - k) -> Bytes]
    <3>1. PICK g : g = h - k
      BY Zenon
    <3>2. g \in Nat /\ Held' = g
      BY <2>1, <2>8, <3>1, Zenon
    <3>3. c = [i \in 1..g |-> data[(nread' + i - 1) % PIPESIZE]]
      BY <1>2, <2>9, <3>2, Zenon DEF Queued
    <3>4. c \in [1..g -> Bytes]
      BY <1>1, <2>8, <3>2, <3>3, BytesFrom, Zenon
    <3> QED
      BY <3>1, <3>4, Zenon
  <2>12. b \in [1..k -> Bytes]
    BY <1>1, <2>5, <2>10, BytesFrom, Zenon DEF Pop
  <2>13. (\A i \in 1..k : a[i] = b[i]) /\ (\A i \in 1..(h - k) : c[i] = a[k + i])
    BY <2>1, <2>2, <2>8, <2>9, <2>10, Zenon
  <2>14. b = SubSeq(a, 1, k) /\ c = SubSeq(a, k + 1, h)
    BY <2>3, <2>5, <2>11, <2>12, <2>13, Cut
  <2>15. Len(a) = h
    BY <2>3
  <2> QED
    BY <2>2, <2>5, <2>6, <2>9, <2>10, <2>14, <2>15, TakeIs, Zenon
<1> QED
  BY <1>3, <1>4, Zenon

\* pipe.c implements a bounded first-in first-out queue (module ByteQueue): every byte that
\* pipewrite accepts is returned once, in order and unchanged, for every size of the buffer
\* and also when nread and nwrite wrap around.
THEOREM Refinement == ASSUME SizesFit PROVE Spec => ImplementsQueue
<1>1. Init => Queue!Init
  <2> SUFFICES ASSUME Init PROVE Queue!Init
    BY Zenon
  <2>1. Held = 0
    <3>1. nread \in 0..(UINT - 1) /\ nwrite \in 0..(UINT - 1) /\ nread = nwrite
      BY InitInv, Zenon DEF IInv, TypeOK, Init
    <3> QED
      BY <3>1, HeldIs, Zenon
  <2>2. [i \in 1..0 |-> data[(nread + i - 1) % PIPESIZE]] = << >>
    OBVIOUS
  <2> QED
    BY <2>1, <2>2, Zenon DEF Init, Queue!Init
<1>2. IInv /\ [Next]_vars => [Queue!Next]_(Queue!vars)
  <2> SUFFICES ASSUME IInv, [Next]_vars PROVE Queue!Next \/ (Queued' = Queued /\ got' = got)
    BY DEF Queue!vars, Queued
  <2>1. ASSUME NEW p \in Users, pipewrite(p) \/ piperead(p)
        PROVE  Queue!Next \/ (Queued' = Queued /\ got' = got)
    BY <2>1, PipewriteRefines, PipereadRefines, Zenon
  <2>2. CASE UNCHANGED bytes
    BY <2>2 DEF bytes, Queued, Held
  <2>3. (\E p \in Users : pipewrite(p) \/ piperead(p)) \/ UNCHANGED bytes
    BY DEF Next, Write, Read, Call, Sleep, CloseWrite, CloseRead, pipeclose, Kill, Closed, vars, bytes
  <2> QED
    BY <2>1, <2>2, <2>3, Zenon
<1> QED
  BY <1>1, <1>2, Invariance, PTL DEF Spec, ImplementsQueue, Queue!Spec
=============================================================================
