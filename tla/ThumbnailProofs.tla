--------------------------- MODULE ThumbnailProofs ---------------------------
(***************************************************************************)
(* Proofs about the thumbnails in memory, for any set of paths, any costs  *)
(* and any budget.                                                         *)
(*                                                                         *)
(* Every step does to the cache what one of Decode, Release and the        *)
(* iterations of the eviction does, or nothing (CacheStep); the line, the  *)
(* budget and the refinement follow from that alone.  The counts need the  *)
(* tracker's bookkeeping: where in a frame a path may be held.             *)
(***************************************************************************)
EXTENDS Thumbnails, SequenceTheorems, TLAPS

\* The line holds the entries nobody uses, each once.
Line ==
  /\ \A i, j \in 1..Len(lru) : lru[i] = lru[j] => i = j
  /\ \A i \in 1..Len(lru) : lru[i] \in entries /\ refcount[lru[i]] = 0
  /\ \A p \in entries : refcount[p] = 0 => \E i \in 1..Len(lru) : lru[i] = p

\* The tracker holds only what it takes for visible, or is still to release, or
\* has decoded in this frame; thumbnailFor looks at an image only while rows are
\* drawn.
Bookkeeping ==
  /\ step \in {"idle", "draw"} => held \subseteq visible
  /\ step = "release" => held \subseteq todo \cup (visible \cap visiblePaths)
  /\ step = "decode" => held \subseteq visiblePaths \ todo /\ todo \subseteq visiblePaths
  /\ step = "clear" => held \subseteq todo
  /\ step # "draw" => peeked = NoPath

\* Nothing is evicted without a budget.
EvictsByBudget == evicting => maxBytes > 0

ThumbnailInv ==
  /\ ThumbnailTypeOK /\ Line /\ Bookkeeping /\ EvictsByBudget
  /\ CountsMatchHolders /\ WithinBudget

-----------------------------------------------------------------------------
(* Sequences without one of their elements *)

Cut(s, k) == SubSeq(s, 1, k - 1) \o SubSeq(s, k + 1, Len(s))

\* What is left of a sequence when its k-th element is cut out.
LEMMA CutProperties ==
  ASSUME NEW S, NEW s \in Seq(S), NEW k \in 1..Len(s)
  PROVE  /\ Cut(s, k) \in Seq(S)
         /\ Len(Cut(s, k)) = Len(s) - 1
         /\ \A i \in 1..Len(Cut(s, k)) : Cut(s, k)[i] = IF i < k THEN s[i] ELSE s[i + 1]
<1> DEFINE front == SubSeq(s, 1, k - 1)
           back == SubSeq(s, k + 1, Len(s))
<1>1. Len(s) \in Nat /\ \A i \in 1..Len(s) : s[i] \in S
  BY LenProperties, ElementOfSeq
<1>2. /\ front \in Seq(S) /\ Len(front) = k - 1
      /\ \A i \in 1..(k - 1) : front[i] = s[i]
  <2>1. \A i \in 1..(k - 1) : s[i] \in S
    BY <1>1
  <2> QED
    BY <2>1, <1>1, SubSeqProperties
<1>3. /\ back \in Seq(S) /\ Len(back) = Len(s) - k
      /\ \A i \in 1..(Len(s) - k) : back[i] = s[k + i]
  <2>1. \A i \in (k + 1)..Len(s) : s[i] \in S
    BY <1>1
  <2>2. /\ back \in Seq(S)
        /\ Len(back) = IF k + 1 <= Len(s) THEN Len(s) - (k + 1) + 1 ELSE 0
        /\ \A i \in 1..(Len(s) - (k + 1) + 1) : back[i] = s[k + 1 + i - 1]
    BY <2>1, <1>1, SubSeqProperties
  <2>3. Len(back) = Len(s) - k /\ Len(s) - (k + 1) + 1 = Len(s) - k
    BY <2>2, <1>1
  <2>4. \A i \in 1..(Len(s) - k) : k + 1 + i - 1 = k + i
    BY <1>1
  <2> QED
    BY <2>2, <2>3, <2>4
<1>4. /\ front \o back \in Seq(S)
      /\ Len(front \o back) = Len(front) + Len(back)
      /\ \A i \in 1..(Len(front) + Len(back)) :
           (front \o back)[i] = IF i <= Len(front) THEN front[i] ELSE back[i - Len(front)]
  BY <1>2, <1>3, ConcatProperties
<1> HIDE DEF front, back
<1>5. Len(front) + Len(back) = Len(s) - 1
  BY <1>1, <1>2, <1>3
<1>6. ASSUME NEW i \in 1..(Len(s) - 1)
      PROVE  (front \o back)[i] = IF i < k THEN s[i] ELSE s[i + 1]
  <2>1. CASE i < k
    <3>1. i <= Len(front) /\ i \in 1..(k - 1) /\ i \in 1..(Len(front) + Len(back))
      BY <2>1, <1>1, <1>2, <1>5
    <3> QED
      BY <2>1, <3>1, <1>2, <1>4
  <2>2. CASE ~(i < k)
    <3>1. (front \o back)[i] = back[i - (k - 1)]
      <4>1. ~(i <= Len(front)) /\ i \in 1..(Len(front) + Len(back))
        BY <2>2, <1>1, <1>2, <1>5
      <4>2. (front \o back)[i] = back[i - Len(front)]
        BY <4>1, <1>4
      <4> QED
        BY <4>2, <1>2
    <3>2. i - (k - 1) \in 1..(Len(s) - k) /\ k + (i - (k - 1)) = i + 1
      BY <2>2, <1>1
    <3>3. back[i - (k - 1)] = s[k + (i - (k - 1))]
      BY <3>2, <1>3
    <3> QED
      BY <2>2, <3>1, <3>2, <3>3, <1>1
  <2> QED
    BY <2>1, <2>2
<1>7. Cut(s, k) = front \o back
  BY DEF Cut, front, back
<1> QED
  BY <1>4, <1>5, <1>6, <1>7

\* RemoveFirst cuts out the place of an element that occurs once.
LEMMA RemoveFirstCuts ==
  ASSUME NEW S, NEW s \in Seq(S), NEW k \in 1..Len(s),
         \A i, j \in 1..Len(s) : s[i] = s[j] => i = j
  PROVE  RemoveFirst(s, s[k]) = Cut(s, k)
<1>1. {i \in 1..Len(s) : s[i] = s[k]} = {k}
  OBVIOUS
<1>2. Min({k}) = k
  BY DEF Min
<1>3. SelectInSeq(s, LAMBDA v : v = s[k]) = k
  BY <1>1, <1>2 DEF SelectInSeq
<1> QED
  BY <1>3 DEF RemoveFirst, RemoveAt, Cut

\* RemoveFirst leaves a sequence without the element as it is.
LEMMA RemoveFirstMisses ==
  ASSUME NEW s, NEW e, \A i \in 1..Len(s) : s[i] # e
  PROVE  RemoveFirst(s, e) = s
BY DEF RemoveFirst

-----------------------------------------------------------------------------
(* What a step does to the cache *)

\* The members of the line are what they were but for the path taken out.
LEMMA RemoveFromLine ==
  ASSUME ThumbnailTypeOK, Line, NEW p \in Paths, NEW line, line = removeFromLRU(p)
  PROVE  /\ line \in Seq(Paths) /\ (lru = <<>> => line = <<>>)
         /\ \A i, j \in 1..Len(line) : line[i] = line[j] => i = j
         /\ \A i \in 1..Len(line) :
              line[i] # p /\ \E j \in 1..Len(lru) : line[i] = lru[j]
         /\ \A j \in 1..Len(lru) :
              lru[j] # p => \E i \in 1..Len(line) : line[i] = lru[j]
<1>1. lru \in Seq(Paths) /\ Len(lru) \in Nat
  BY LenProperties DEF ThumbnailTypeOK
<1>2. \A i, j \in 1..Len(lru) : lru[i] = lru[j] => i = j
  BY DEF Line
<1>3. CASE \A i \in 1..Len(lru) : lru[i] # p
  <2>1. line = lru
    BY <1>3, RemoveFirstMisses DEF removeFromLRU
  <2> QED
    BY <2>1, <1>1, <1>2, <1>3
<1>4. CASE \E k \in 1..Len(lru) : lru[k] = p
  <2>1. PICK k \in 1..Len(lru) : lru[k] = p
    BY <1>4
  <2>2. line = Cut(lru, k)
    BY <2>1, <1>1, <1>2, RemoveFirstCuts DEF removeFromLRU
  <2>3. /\ line \in Seq(Paths) /\ Len(line) = Len(lru) - 1
        /\ \A i \in 1..Len(line) : line[i] = IF i < k THEN lru[i] ELSE lru[i + 1]
    BY <2>2, <1>1, CutProperties
  <2>4. lru # <<>>
    BY <2>1, <1>1
  <2>5. ASSUME NEW i \in 1..Len(line)
        PROVE  \E j \in 1..Len(lru) : line[i] = lru[j] /\ j # k /\ j = IF i < k THEN i ELSE i + 1
    BY <2>3, <1>1
  <2>6. \A i, j \in 1..Len(line) : line[i] = line[j] => i = j
    <3>1. SUFFICES ASSUME NEW i \in 1..Len(line), NEW j \in 1..Len(line), line[i] = line[j]
                   PROVE  i = j
      OBVIOUS
    <3>2. (IF i < k THEN i ELSE i + 1) = (IF j < k THEN j ELSE j + 1)
      BY <3>1, <2>5, <1>2
    <3> QED
      BY <3>2, <2>3, <1>1
  <2>7. \A i \in 1..Len(line) : line[i] # p /\ \E j \in 1..Len(lru) : line[i] = lru[j]
    BY <2>5, <2>1, <1>2
  <2>8. ASSUME NEW j \in 1..Len(lru), lru[j] # p
        PROVE  \E i \in 1..Len(line) : line[i] = lru[j]
    <3>1. j # k
      BY <2>8, <2>1
    <3>2. CASE j < k
      BY <3>2, <2>3, <1>1
    <3>3. CASE j > k
      <4>1. j - 1 \in 1..Len(line) /\ ~(j - 1 < k) /\ (j - 1) + 1 = j
        BY <3>3, <2>3, <1>1
      <4>2. line[j - 1] = lru[(j - 1) + 1]
        BY <4>1, <2>3
      <4>3. line[j - 1] = lru[j]
        BY <4>1, <4>2
      <4> QED
        BY <4>1, <4>3
    <3> QED
      BY <3>1, <3>2, <3>3, <1>1
  <2> QED
    BY <2>3, <2>4, <2>6, <2>7, <2>8
<1> QED
  BY <1>3, <1>4

CacheStep ==
  \/ \E p \in Paths : DecodeHit(p) \/ DecodeMiss(p) \/ ReleaseToIdle(p) \/ ReleaseShared(p)
  \/ EvictOne \/ EvictDone
  \/ UNCHANGED cacheVars

\* Every step is one of the cache's or leaves it alone.
LEMMA NextIsCacheStep ==
  ASSUME ThumbnailTypeOK, [Next]_vars
  PROVE  CacheStep
<1>1. ASSUME NEW p \in Paths, Decode(p) \/ DecodeFails(p) PROVE CacheStep
  BY <1>1 DEF CacheStep, Decode, DecodeFails
<1>2. ASSUME NEW p \in Paths, Release(p) PROVE CacheStep
  BY <1>2 DEF CacheStep, Release, ReleaseUnknown
<1>3. ASSUME UNCHANGED cacheVars PROVE CacheStep
  BY <1>3 DEF CacheStep
<1>4. CASE EvictOne \/ EvictDone
  BY <1>4 DEF CacheStep
<1>5. ASSUME NEW p \in Paths, DrawRow(p) \/ DecodeArrived(p) PROVE CacheStep
  BY <1>1, <1>5 DEF DrawRow, DecodeArrived
<1>6. ASSUME NEW p \in Paths, ReleaseDeparted(p) PROVE CacheStep
  BY <1>2, <1>6 DEF ReleaseDeparted
<1>7. CASE ReleasePeeked
  <2>1. peeked \in Paths /\ Release(peeked)
    BY <1>7 DEF ReleasePeeked, ThumbnailTypeOK
  <2> QED
    BY <2>1, <1>2
<1>8. CASE StartReleases \/ StartDecodes \/ EndFrame \/ EndClear \/ StartFrame \/ StartClear
  BY <1>3, <1>8 DEF StartReleases, StartDecodes, EndFrame, EndClear, StartFrame, StartClear
<1>9. ASSUME NEW p \in Paths, TruncateFile(p) \/ WriteFile(p) PROVE CacheStep
  BY <1>3, <1>9 DEF TruncateFile, WriteFile
<1>10. CASE UNCHANGED vars
  BY <1>3, <1>10 DEF vars
<1> QED
  BY <1>4, <1>5, <1>6, <1>7, <1>8, <1>9, <1>10 DEF Next, FrameStep

CacheTypes ==
  /\ entries \subseteq Paths /\ refcount \in [Paths -> Nat] /\ lru \in Seq(Paths)
  /\ total \in Int /\ evicting \in BOOLEAN

\* The cache keeps its types.
LEMMA CacheTypesStep ==
  ASSUME ThumbnailTypeOK, Line, CacheStep
  PROVE  CacheTypes'
<1> USE DEF CacheTypes
<1>1. CacheTypes
  BY DEF ThumbnailTypeOK
<1>2. maxBytes \in Nat /\ Bytes \in [Paths -> Nat]
  BY ThumbnailAssumption
<1>3. ASSUME NEW p \in Paths, DecodeHit(p) PROVE CacheTypes'
  <2>1. removeFromLRU(p) \in Seq(Paths)
    BY RemoveFromLine
  <2> QED
    BY <2>1, <1>1, <1>3 DEF DecodeHit
<1>4. ASSUME NEW p \in Paths, DecodeMiss(p) PROVE CacheTypes'
  BY <1>1, <1>2, <1>4 DEF DecodeMiss, startEviction
<1>5. ASSUME NEW p \in Paths, ReleaseToIdle(p) PROVE CacheTypes'
  <2>1. Append(removeFromLRU(p), p) \in Seq(Paths)
    BY RemoveFromLine, AppendProperties
  <2> QED
    BY <2>1, <1>1, <1>2, <1>5 DEF ReleaseToIdle, startEviction
<1>6. ASSUME NEW p \in Paths, ReleaseShared(p) PROVE CacheTypes'
  BY <1>1, <1>6 DEF ReleaseShared
<1>7. CASE EvictOne
  <2>1. Tail(lru) \in Seq(Paths) /\ Head(lru) \in Paths
    BY <1>1, <1>7, HeadTailProperties DEF EvictOne, overBudget
  <2>2. total' \in Int
    BY <2>1, <1>1, <1>2, <1>7 DEF EvictOne
  <2> QED
    BY <2>1, <2>2, <1>1, <1>7 DEF EvictOne
<1>8. CASE EvictDone
  BY <1>1, <1>8 DEF EvictDone
<1>9. CASE UNCHANGED cacheVars
  BY <1>1, <1>9 DEF cacheVars
<1> QED
  BY <1>3, <1>4, <1>5, <1>6, <1>7, <1>8, <1>9 DEF CacheStep

\* Every step keeps the types.
LEMMA ThumbnailTypesStep ==
  ASSUME ThumbnailTypeOK, Line, [Next]_vars
  PROVE  ThumbnailTypeOK'
<1> DEFINE Others ==
      /\ readable \subseteq Paths
      /\ visible \subseteq Paths /\ visiblePaths \subseteq Paths
      /\ step \in {"idle", "draw", "release", "decode", "clear"}
      /\ todo \subseteq Paths /\ held \subseteq Paths
      /\ peeked \in Paths \cup {NoPath}
<1>1. Others
  BY DEF ThumbnailTypeOK
<1>2. CacheTypes'
  BY CacheTypesStep, NextIsCacheStep
<1>3. Others'
  <2>1. CASE EvictOne \/ EvictDone
    BY <2>1, <1>1 DEF EvictOne, EvictDone, frameVars
  <2>2. ASSUME NEW p \in Paths, DrawRow(p) \/ ReleaseDeparted(p) \/ DecodeArrived(p)
        PROVE  Others'
    BY <2>2, <1>1 DEF DrawRow, ReleaseDeparted, DecodeArrived
  <2>3. CASE ReleasePeeked
    BY <2>3, <1>1 DEF ReleasePeeked
  <2>4. CASE StartReleases \/ StartDecodes \/ EndFrame \/ EndClear
    BY <2>4, <1>1 DEF StartReleases, StartDecodes, EndFrame, EndClear
  <2>5. CASE StartFrame \/ StartClear
    BY <2>5, <1>1 DEF StartFrame, StartClear
  <2>6. ASSUME NEW p \in Paths, TruncateFile(p) \/ WriteFile(p) PROVE Others'
    BY <2>6, <1>1 DEF TruncateFile, WriteFile, frameVars
  <2>7. CASE UNCHANGED vars
    BY <2>7, <1>1 DEF vars, frameVars
  <2> QED
    BY <2>1, <2>2, <2>3, <2>4, <2>5, <2>6, <2>7 DEF Next, FrameStep
<1> QED
  BY <1>2, <1>3 DEF ThumbnailTypeOK, CacheTypes

\* The line stays what it is.
LEMMA LineStep ==
  ASSUME ThumbnailTypeOK, Line, CacheStep
  PROVE  Line'
<1>1. /\ lru \in Seq(Paths) /\ Len(lru) \in Nat
      /\ entries \subseteq Paths /\ refcount \in [Paths -> Nat]
  BY LenProperties DEF ThumbnailTypeOK
<1>2. ASSUME NEW p \in Paths, DecodeHit(p) PROVE Line'
  <2> DEFINE rest == removeFromLRU(p)
  <2>1. refcount'[p] > 0 /\ \A q \in Paths \ {p} : refcount'[q] = refcount[q]
    BY <1>1, <1>2 DEF DecodeHit
  <2>2. lru' = rest /\ entries' = entries
    BY <1>2 DEF DecodeHit
  <2>3. /\ \A i, j \in 1..Len(rest) : rest[i] = rest[j] => i = j
        /\ \A i \in 1..Len(rest) : rest[i] # p /\ \E j \in 1..Len(lru) : rest[i] = lru[j]
        /\ \A j \in 1..Len(lru) : lru[j] # p => \E i \in 1..Len(rest) : rest[i] = lru[j]
    BY RemoveFromLine
  <2> HIDE DEF rest
  <2>4. ASSUME NEW i \in 1..Len(lru')
        PROVE  lru'[i] \in entries' /\ refcount'[lru'[i]] = 0
    <3>1. PICK j \in 1..Len(lru) : lru'[i] = lru[j] /\ lru[j] # p
      BY <2>2, <2>3
    <3> QED
      BY <3>1, <2>1, <2>2, <1>1 DEF Line
  <2>5. ASSUME NEW q \in entries', refcount'[q] = 0
        PROVE  \E i \in 1..Len(lru') : lru'[i] = q
    <3>1. q # p
      BY <2>1, <2>5
    <3>2. PICK j \in 1..Len(lru) : lru[j] = q
      BY <3>1, <2>1, <2>2, <2>5, <1>1 DEF Line
    <3> QED
      BY <3>1, <3>2, <2>2, <2>3
  <2> QED
    BY <2>2, <2>3, <2>4, <2>5 DEF Line
<1>3. ASSUME NEW p \in Paths, DecodeMiss(p) PROVE Line'
  <2>1. /\ refcount'[p] = 1 /\ p \notin entries /\ entries' = entries \cup {p} /\ lru' = lru
        /\ \A q \in Paths \ {p} : refcount'[q] = refcount[q]
    BY <1>1, <1>3 DEF DecodeMiss
  <2> QED
    BY <2>1, <1>1 DEF Line
<1>4. ASSUME NEW p \in Paths, ReleaseToIdle(p) PROVE Line'
  <2> DEFINE rest == removeFromLRU(p)
  <2>1. /\ refcount'[p] = 0 /\ \A q \in Paths \ {p} : refcount'[q] = refcount[q]
        /\ p \in entries /\ entries' = entries
    BY <1>1, <1>4 DEF ReleaseToIdle
  <2>2. /\ rest \in Seq(Paths)
        /\ \A i, j \in 1..Len(rest) : rest[i] = rest[j] => i = j
        /\ \A i \in 1..Len(rest) : rest[i] # p /\ \E j \in 1..Len(lru) : rest[i] = lru[j]
        /\ \A j \in 1..Len(lru) : lru[j] # p => \E i \in 1..Len(rest) : rest[i] = lru[j]
    BY RemoveFromLine
  <2>3. lru' = Append(rest, p)
    BY <1>4 DEF ReleaseToIdle
  <2> HIDE DEF rest
  <2>4. /\ Len(rest) \in Nat /\ Len(lru') = Len(rest) + 1 /\ lru'[Len(rest) + 1] = p
        /\ \A i \in 1..Len(rest) : lru'[i] = rest[i]
    BY <2>2, <2>3, AppendProperties, LenProperties
  <2>5. \A i \in 1..Len(lru') : i = Len(rest) + 1 \/ i \in 1..Len(rest)
    BY <2>4
  <2>6. \A i, j \in 1..Len(lru') : lru'[i] = lru'[j] => i = j
    BY <2>2, <2>4, <2>5
  <2>7. ASSUME NEW i \in 1..Len(lru')
        PROVE  lru'[i] \in entries' /\ refcount'[lru'[i]] = 0
    <3>1. CASE i = Len(rest) + 1
      BY <3>1, <2>1, <2>4
    <3>2. CASE i \in 1..Len(rest)
      <4>1. PICK j \in 1..Len(lru) : rest[i] = lru[j] /\ lru[j] # p
        BY <3>2, <2>2
      <4>2. lru[j] \in entries /\ refcount[lru[j]] = 0
        BY DEF Line
      <4>3. lru'[i] = lru[j]
        BY <3>2, <4>1, <2>4
      <4> QED
        BY <4>1, <4>2, <4>3, <2>1, <1>1
    <3> QED
      BY <3>1, <3>2, <2>5
  <2>8. ASSUME NEW q \in entries', refcount'[q] = 0
        PROVE  \E i \in 1..Len(lru') : lru'[i] = q
    <3>1. CASE q = p
      BY <3>1, <2>4
    <3>2. CASE q # p
      <4>1. PICK j \in 1..Len(lru) : lru[j] = q
        BY <3>2, <2>1, <2>8, <1>1 DEF Line
      <4>2. PICK i \in 1..Len(rest) : rest[i] = q
        BY <4>1, <3>2, <2>2
      <4> QED
        BY <4>2, <2>4
    <3> QED
      BY <3>1, <3>2
  <2> QED
    BY <2>6, <2>7, <2>8 DEF Line
<1>5. ASSUME NEW p \in Paths, ReleaseShared(p) PROVE Line'
  <2>1. /\ refcount[p] > 0 /\ refcount'[p] > 0 /\ entries' = entries /\ lru' = lru
        /\ \A q \in Paths \ {p} : refcount'[q] = refcount[q]
    BY <1>1, <1>5 DEF ReleaseShared
  <2> QED
    BY <2>1, <1>1 DEF Line
<1>6. CASE EvictOne
  <2>1. /\ lru # <<>> /\ lru' = Tail(lru) /\ entries' = entries \ {Head(lru)}
        /\ refcount' = refcount
    BY <1>6 DEF EvictOne, overBudget
  <2>2. /\ Len(lru') = Len(lru) - 1 /\ Head(lru) = lru[1] /\ Len(lru) # 0
        /\ \A i \in 1..Len(lru') : lru'[i] = lru[i + 1]
    BY <2>1, <1>1, HeadTailProperties, EmptySeq
  <2>3. \A i \in 1..Len(lru') : i + 1 \in 1..Len(lru) /\ i + 1 # 1
    BY <2>2, <1>1
  <2>4. \A i, j \in 1..Len(lru') : lru'[i] = lru'[j] => i = j
    <3>1. SUFFICES ASSUME NEW i \in 1..Len(lru'), NEW j \in 1..Len(lru'), lru'[i] = lru'[j]
                   PROVE  i = j
      OBVIOUS
    <3>2. i + 1 = j + 1
      BY <3>1, <2>2, <2>3 DEF Line
    <3> QED
      BY <3>2, <2>2, <1>1
  <2>5. 1 \in 1..Len(lru)
    BY <2>2, <1>1
  <2>6. \A i \in 1..Len(lru') : lru'[i] \in entries' /\ refcount'[lru'[i]] = 0
    BY <2>1, <2>2, <2>3, <2>5 DEF Line
  <2>7. ASSUME NEW q \in entries', refcount'[q] = 0
        PROVE  \E i \in 1..Len(lru') : lru'[i] = q
    <3>1. PICK j \in 1..Len(lru) : lru[j] = q
      BY <2>1, <2>7 DEF Line
    <3>2. j # 1
      BY <3>1, <2>1, <2>2, <2>7
    <3>3. j - 1 \in 1..Len(lru') /\ (j - 1) + 1 = j
      BY <3>2, <2>2, <1>1
    <3> QED
      BY <3>1, <3>3, <2>2
  <2> QED
    BY <2>4, <2>6, <2>7 DEF Line
<1>7. CASE EvictDone
  BY <1>7 DEF EvictDone, Line
<1>8. CASE UNCHANGED cacheVars
  BY <1>8 DEF cacheVars, Line
<1> QED
  BY <1>2, <1>3, <1>4, <1>5, <1>6, <1>7, <1>8 DEF CacheStep

\* The budget's bookkeeping.
LEMMA BudgetStep ==
  ASSUME ThumbnailTypeOK, Line, EvictsByBudget, WithinBudget, CacheStep
  PROVE  EvictsByBudget' /\ WithinBudget'
<1>1. maxBytes \in Nat /\ total \in Int /\ evicting \in BOOLEAN
  BY ThumbnailAssumption DEF ThumbnailTypeOK
<1>2. ASSUME NEW p \in Paths, DecodeHit(p) PROVE EvictsByBudget' /\ WithinBudget'
  <2>1. lru = <<>> => removeFromLRU(p) = <<>>
    BY RemoveFromLine
  <2> QED
    BY <2>1, <1>2 DEF DecodeHit, EvictsByBudget, WithinBudget
<1>3. ASSUME NEW p \in Paths, DecodeMiss(p) \/ ReleaseToIdle(p)
      PROVE  EvictsByBudget' /\ WithinBudget'
  BY <1>3 DEF DecodeMiss, ReleaseToIdle, startEviction, EvictsByBudget, WithinBudget
<1>4. ASSUME NEW p \in Paths, ReleaseShared(p) PROVE EvictsByBudget' /\ WithinBudget'
  BY <1>4 DEF ReleaseShared, EvictsByBudget, WithinBudget
<1>5. CASE EvictOne
  BY <1>5 DEF EvictOne, EvictsByBudget, WithinBudget
<1>6. CASE EvictDone
  BY <1>6 DEF EvictDone, overBudget, EvictsByBudget, WithinBudget
<1>7. CASE UNCHANGED cacheVars
  BY <1>7 DEF cacheVars, EvictsByBudget, WithinBudget
<1> QED
  BY <1>2, <1>3, <1>4, <1>5, <1>6, <1>7 DEF CacheStep

-----------------------------------------------------------------------------
(* The references *)

\* A path without an owner is no path.
LEMMA NoPathIsNoPath ==
  ASSUME NEW p \in Paths
  PROVE  p # NoPath
BY ThumbnailAssumption

\* The counts and the tracker's bookkeeping.
LEMMA CountsStep ==
  ASSUME ThumbnailInv, [Next]_vars
  PROVE  Bookkeeping' /\ CountsMatchHolders'
<1> DEFINE Goal == Bookkeeping' /\ CountsMatchHolders'
<1>1. /\ refcount \in [Paths -> Nat] /\ entries \subseteq Paths /\ held \subseteq Paths
      /\ peeked \in Paths \cup {NoPath}
      /\ visible \subseteq Paths /\ visiblePaths \subseteq Paths
      /\ step \in {"idle", "draw", "release", "decode", "clear"}
  BY DEF ThumbnailInv, ThumbnailTypeOK
<1>2. Bookkeeping /\ CountsMatchHolders
  BY DEF ThumbnailInv
<1>3. \A p \in Paths : p # NoPath
  BY NoPathIsNoPath
<1>4. CASE EvictOne
  <2>1. /\ lru # <<>> /\ entries' = entries \ {Head(lru)}
        /\ UNCHANGED refcount /\ UNCHANGED frameVars
    BY <1>4 DEF EvictOne, overBudget
  <2>2. Head(lru) \in entries /\ refcount[Head(lru)] = 0
    <3>1. Head(lru) = lru[1] /\ 1 \in 1..Len(lru)
      BY <2>1, HeadTailProperties, EmptySeq, LenProperties DEF ThumbnailInv, ThumbnailTypeOK
    <3> QED
      BY <3>1 DEF ThumbnailInv, Line
  <2>3. Head(lru) \notin held /\ Head(lru) # peeked
    BY <2>2, <1>2 DEF CountsMatchHolders
  <2>4. CountsMatchHolders'
    BY <2>1, <2>3, <1>2 DEF CountsMatchHolders, frameVars
  <2> QED
    BY <2>1, <2>4, <1>2 DEF Bookkeeping, frameVars
<1>5. CASE EvictDone
  BY <1>2, <1>5 DEF EvictDone, frameVars, Bookkeeping, CountsMatchHolders
<1>6. ASSUME NEW p \in Paths, DrawRow(p) PROVE Goal
  <2>1. /\ step = "draw" /\ peeked = NoPath /\ UNCHANGED <<visible, step, todo, held>>
    BY <1>6 DEF DrawRow
  <2>2. Bookkeeping'
    BY <2>1, <1>2 DEF Bookkeeping
  <2>3. CASE DecodeFails(p) /\ peeked' = NoPath
    BY <2>1, <2>2, <2>3, <1>2 DEF DecodeFails, cacheVars, CountsMatchHolders
  <2>4. CASE DecodeHit(p) /\ peeked' = p
    BY <2>1, <2>2, <2>4, <1>1, <1>2, <1>3 DEF DecodeHit, CountsMatchHolders
  <2>5. CASE DecodeMiss(p) /\ peeked' = p
    BY <2>1, <2>2, <2>5, <1>1, <1>2, <1>3 DEF DecodeMiss, CountsMatchHolders
  <2> QED
    BY <2>3, <2>4, <2>5, <1>6 DEF DrawRow, Decode
<1>7. ASSUME NEW p \in Paths, ReleaseDeparted(p) PROVE Goal
  <2>1. /\ step \in {"release", "clear"} /\ todo' = todo \ {p} /\ held' = held \ {p}
        /\ UNCHANGED <<visible, visiblePaths, step, peeked>> /\ Release(p) /\ p \in todo
    BY <1>7 DEF ReleaseDeparted
  <2>2. peeked = NoPath /\ p # NoPath
    BY <2>1, <1>2, <1>3 DEF Bookkeeping
  <2>3. Bookkeeping'
    BY <2>1, <2>2, <1>2 DEF Bookkeeping
  <2>4. ~ReleaseShared(p)
    BY <2>2, <1>1, <1>2 DEF ReleaseShared, CountsMatchHolders
  <2>5. CASE ReleaseToIdle(p)
    <3>1. /\ refcount'[p] = 0 /\ \A q \in Paths \ {p} : refcount'[q] = refcount[q]
          /\ entries' = entries /\ peeked' = peeked
      BY <2>1, <2>5, <1>1 DEF ReleaseToIdle
    <3> QED
      BY <3>1, <2>1, <2>2, <2>3, <1>1, <1>2 DEF CountsMatchHolders
  <2>6. CASE ReleaseUnknown(p)
    BY <2>1, <2>3, <2>6, <1>1, <1>2 DEF ReleaseUnknown, cacheVars, CountsMatchHolders
  <2> QED
    BY <2>1, <2>4, <2>5, <2>6 DEF Release
<1>8. ASSUME NEW p \in Paths, DecodeArrived(p) PROVE Goal
  <2>1. /\ step = "decode" /\ p \in todo /\ todo' = todo \ {p}
        /\ UNCHANGED <<visible, visiblePaths, step, peeked>>
    BY <1>8 DEF DecodeArrived
  <2>2. p \notin held /\ peeked = NoPath /\ p # NoPath /\ held \subseteq visiblePaths \ todo
    BY <2>1, <1>2, <1>3 DEF Bookkeeping
  <2>3. CASE DecodeFails(p) /\ UNCHANGED held
    <3>1. Bookkeeping'
      BY <2>1, <2>2, <2>3, <1>2 DEF Bookkeeping
    <3> QED
      BY <3>1, <2>1, <2>3, <1>2 DEF DecodeFails, cacheVars, CountsMatchHolders
  <2>4. CASE Decode(p) /\ held' = held \cup {p}
    <3>1. /\ refcount'[p] = 1 /\ \A q \in Paths \ {p} : refcount'[q] = refcount[q]
          /\ entries' = entries \cup {p}
      BY <2>2, <2>4, <1>1, <1>2 DEF Decode, DecodeHit, DecodeMiss, CountsMatchHolders
    <3>2. CountsMatchHolders'
      BY <3>1, <2>1, <2>2, <2>4, <1>1, <1>2 DEF CountsMatchHolders
    <3>3. todo \subseteq visiblePaths /\ held' \subseteq visiblePaths' \ todo'
      BY <2>1, <2>2, <2>4, <1>2 DEF Bookkeeping
    <3> QED
      BY <3>2, <3>3, <2>1, <2>2, <2>4, <1>2 DEF Bookkeeping
  <2> QED
    BY <2>3, <2>4, <1>8 DEF DecodeArrived
<1>9. CASE ReleasePeeked
  <2> DEFINE p == peeked
  <2>1. /\ p \in Paths /\ p \in entries /\ Release(p) /\ peeked' = NoPath
        /\ UNCHANGED <<visible, visiblePaths, step, todo, held>>
    BY <1>1, <1>2, <1>9 DEF ReleasePeeked, CountsMatchHolders
  <2>2. refcount[p] = (IF p \in held THEN 1 ELSE 0) + 1
    BY <2>1, <1>2 DEF CountsMatchHolders
  <2>3. /\ refcount' = [refcount EXCEPT ![p] = IF p \in held THEN 1 ELSE 0]
        /\ entries' = entries
    BY <2>1, <2>2, <1>1 DEF Release, ReleaseToIdle, ReleaseShared, ReleaseUnknown
  <2>4. Bookkeeping'
    BY <2>1, <1>2 DEF Bookkeeping
  <2>5. CountsMatchHolders'
    <3>1. held' \subseteq entries' /\ peeked' = NoPath
      BY <2>1, <2>3, <1>2 DEF CountsMatchHolders
    <3>2. ASSUME NEW q \in entries'
          PROVE  refcount'[q] = (IF q \in held' THEN 1 ELSE 0) + (IF q = peeked' THEN 1 ELSE 0)
      <4>1. q \in entries /\ q \in Paths /\ q # peeked' /\ held' = held
        BY <3>2, <2>1, <2>3, <1>1, <1>3
      <4>2. CASE q = p
        BY <4>1, <4>2, <2>3, <1>1
      <4>3. CASE q # p
        BY <4>1, <4>3, <2>3, <1>1, <1>2 DEF CountsMatchHolders
      <4> QED
        BY <4>2, <4>3
    <3> QED
      BY <3>1, <3>2 DEF CountsMatchHolders
  <2> QED
    BY <2>4, <2>5
<1>10. CASE StartFrame \/ StartReleases \/ StartDecodes \/ EndFrame \/ StartClear \/ EndClear
  <2>1. UNCHANGED <<entries, refcount, held, peeked>>
    BY <1>10 DEF StartFrame, StartReleases, StartDecodes, EndFrame, StartClear, EndClear, cacheVars
  <2>2. CountsMatchHolders'
    BY <2>1, <1>2 DEF CountsMatchHolders
  <2>3. CASE StartFrame
    BY <2>2, <2>3, <1>2 DEF StartFrame, Bookkeeping
  <2>4. CASE StartReleases
    BY <2>2, <2>4, <1>2 DEF StartReleases, Bookkeeping
  <2>5. CASE StartDecodes
    BY <2>2, <2>5, <1>2 DEF StartDecodes, Bookkeeping
  <2>6. CASE EndFrame
    BY <2>2, <2>6, <1>2 DEF EndFrame, Bookkeeping
  <2>7. CASE StartClear
    BY <2>2, <2>7, <1>2 DEF StartClear, Bookkeeping
  <2>8. CASE EndClear
    BY <2>2, <2>8, <1>2 DEF EndClear, Bookkeeping
  <2> QED
    BY <2>3, <2>4, <2>5, <2>6, <2>7, <2>8, <1>10
<1>11. ASSUME UNCHANGED <<cacheVars, frameVars>> PROVE Goal
  BY <1>2, <1>11 DEF cacheVars, frameVars, Bookkeeping, CountsMatchHolders
<1>12. ASSUME NEW p \in Paths, TruncateFile(p) \/ WriteFile(p) PROVE Goal
  BY <1>11, <1>12 DEF TruncateFile, WriteFile
<1>13. CASE UNCHANGED vars
  BY <1>11, <1>13 DEF vars
<1> HIDE DEF Goal
<1>14. Goal
  BY <1>4, <1>5, <1>6, <1>7, <1>8, <1>9, <1>10, <1>12, <1>13 DEF Next, FrameStep, ThumbnailInv, Goal
<1> QED
  BY <1>14 DEF Goal

-----------------------------------------------------------------------------
(* The invariant *)

\* The cache starts empty.
LEMMA InitInv == Init => ThumbnailInv
<1> SUFFICES ASSUME Init PROVE ThumbnailInv
  OBVIOUS
<1>1. ThumbnailTypeOK
  <2>1. lru \in Seq(Paths)
    BY EmptySeq DEF Init
  <2>2. refcount \in [Paths -> Nat] /\ total \in Int
    BY DEF Init
  <2>6. evicting \in BOOLEAN
    BY Zenon DEF Init
  <2>3. entries \subseteq Paths /\ readable \subseteq Paths
    BY DEF Init
  <2>4. /\ visible \subseteq Paths /\ visiblePaths \subseteq Paths
        /\ todo \subseteq Paths /\ held \subseteq Paths
    BY DEF Init
  <2>5. step = "idle" /\ peeked = NoPath
    BY DEF Init
  <2> QED
    BY <2>1, <2>2, <2>3, <2>4, <2>5, <2>6 DEF ThumbnailTypeOK
<1>2. Line
  BY DEF Init, Line
<1>3. Bookkeeping /\ EvictsByBudget /\ CountsMatchHolders /\ WithinBudget
  BY ThumbnailAssumption DEF Init, Bookkeeping, EvictsByBudget, CountsMatchHolders, WithinBudget
<1> QED
  BY <1>1, <1>2, <1>3 DEF ThumbnailInv

\* Every step keeps the invariant.
LEMMA NextInv == ThumbnailInv /\ [Next]_vars => ThumbnailInv'
<1> SUFFICES ASSUME ThumbnailInv, [Next]_vars PROVE ThumbnailInv'
  OBVIOUS
<1>1. ThumbnailTypeOK /\ Line /\ EvictsByBudget /\ WithinBudget
  BY DEF ThumbnailInv
<1>2. CacheStep
  BY <1>1, NextIsCacheStep
<1>3. ThumbnailTypeOK'
  BY <1>1, ThumbnailTypesStep
<1>4. Line' /\ EvictsByBudget' /\ WithinBudget'
  BY <1>1, <1>2, LineStep, BudgetStep
<1>5. Bookkeeping' /\ CountsMatchHolders'
  BY CountsStep
<1> QED
  BY <1>3, <1>4, <1>5 DEF ThumbnailInv

\* The invariant holds of every reachable state: counts, line, budget and the
\* tracker's bookkeeping together (media.Cache, media.Tracker, ui.View).
THEOREM ThumbnailInvariant == Spec => []ThumbnailInv
  BY InitInv, NextInv, PTL DEF Spec

\* Every variable keeps its type, however the files change under the frame.
THEOREM ThumbnailTypes == Spec => []ThumbnailTypeOK
<1>1. ThumbnailInv => ThumbnailTypeOK
  BY DEF ThumbnailInv
<1> QED
  BY <1>1, ThumbnailInvariant, PTL

\* Every count is the number of references outstanding, for any set of paths:
\* no image is released for somebody else (Tracker.SetVisible, thumbnailFor).
THEOREM CountsAreExact == Spec => []CountsMatchHolders
<1>1. ThumbnailInv => CountsMatchHolders
  BY DEF ThumbnailInv
<1> QED
  BY <1>1, ThumbnailInvariant, PTL

\* The budget is exceeded only by images in use (Cache.evictIfOver).
THEOREM BudgetIsKept == Spec => []WithinBudget
<1>1. ThumbnailInv => WithinBudget
  BY DEF ThumbnailInv
<1> QED
  BY <1>1, ThumbnailInvariant, PTL

-----------------------------------------------------------------------------
(* The cache implements what it promises *)

\* The images in use, as the pool sees them.
InUse == {p \in entries : refcount[p] > 0}

\* A step of the cache is one of the pool's, or none it can see.
LEMMA PoolStep ==
  ASSUME ThumbnailTypeOK, Line, EvictsByBudget, CacheStep
  PROVE  [Pool!PoolNext]_(Pool!poolVars)
<1> DEFINE Goal == [Pool!PoolNext]_(Pool!poolVars)
<1>1. /\ lru \in Seq(Paths) /\ Len(lru) \in Nat /\ DOMAIN lru = 1..Len(lru)
      /\ entries \subseteq Paths /\ refcount \in [Paths -> Nat]
  BY LenProperties DEF ThumbnailTypeOK
<1>2. ASSUME InUse' = InUse, lru' = lru, total' = total PROVE Goal
  BY <1>2 DEF Pool!poolVars, InUse
<1>3. ASSUME NEW p \in Paths, DecodeHit(p) PROVE Goal
  <2>1. /\ refcount'[p] > 0 /\ \A q \in Paths \ {p} : refcount'[q] = refcount[q]
        /\ p \in entries /\ entries' = entries /\ total' = total /\ lru' = removeFromLRU(p)
    BY <1>1, <1>3 DEF DecodeHit
  <2>2. InUse' = InUse \cup {p}
    BY <2>1, <1>1 DEF InUse
  <2>3. CASE refcount[p] > 0
    <3>1. \A i \in 1..Len(lru) : lru[i] # p
      BY <2>3 DEF Line
    <3>2. lru' = lru
      BY <3>1, <2>1, RemoveFirstMisses DEF removeFromLRU
    <3>3. InUse' = InUse
      BY <2>1, <2>2, <2>3 DEF InUse
    <3> QED
      BY <3>2, <3>3, <2>1, <1>2
  <2>4. CASE refcount[p] = 0
    <3>1. PICK k \in 1..Len(lru) : lru[k] = p
      BY <2>1, <2>4 DEF Line
    <3>2. lru' = Cut(lru, k)
      BY <3>1, <2>1, <1>1, RemoveFirstCuts DEF removeFromLRU, Line
    <3>3. Pool!Reuse(k)
      BY <3>1, <3>2, <2>1, <2>2 DEF Pool!Reuse, Pool!Without, Cut, InUse
    <3> QED
      BY <3>1, <3>3, <1>1 DEF Pool!PoolNext
  <2> QED
    BY <2>3, <2>4, <1>1
<1>4. ASSUME NEW p \in Paths, DecodeMiss(p) PROVE Goal
  <2>1. /\ refcount'[p] = 1 /\ \A q \in Paths \ {p} : refcount'[q] = refcount[q]
        /\ p \notin entries /\ entries' = entries \cup {p}
        /\ total' = total + Bytes[p] /\ lru' = lru
    BY <1>1, <1>4 DEF DecodeMiss
  <2>2. InUse' = InUse \cup {p} /\ p \notin InUse
    BY <2>1, <1>1 DEF InUse
  <2>3. \A i \in 1..Len(lru) : lru[i] # p
    BY <2>1 DEF Line
  <2>4. Pool!Load(p)
    BY <2>1, <2>2, <2>3, <1>1 DEF Pool!Load, Pool!Waits, InUse
  <2> QED
    BY <2>4 DEF Pool!PoolNext
<1>5. ASSUME NEW p \in Paths, ReleaseToIdle(p) PROVE Goal
  <2>1. /\ refcount'[p] = 0 /\ \A q \in Paths \ {p} : refcount'[q] = refcount[q]
        /\ p \in entries /\ refcount[p] <= 1 /\ entries' = entries /\ total' = total
        /\ lru' = Append(removeFromLRU(p), p)
    BY <1>1, <1>5 DEF ReleaseToIdle
  <2>2. InUse' = InUse \ {p}
    BY <2>1, <1>1 DEF InUse
  <2>3. CASE refcount[p] > 0
    <3>1. \A i \in 1..Len(lru) : lru[i] # p
      BY <2>3 DEF Line
    <3>2. lru' = Append(lru, p)
      BY <3>1, <2>1, RemoveFirstMisses DEF removeFromLRU
    <3>3. Pool!Rest(p)
      BY <3>2, <2>1, <2>2, <2>3 DEF Pool!Rest, InUse
    <3> QED
      BY <3>3 DEF Pool!PoolNext
  <2>4. CASE refcount[p] = 0
    <3>1. PICK k \in 1..Len(lru) : lru[k] = p
      BY <2>1, <2>4 DEF Line
    <3>2. lru' = Append(Cut(lru, k), lru[k])
      BY <3>1, <2>1, <1>1, RemoveFirstCuts DEF removeFromLRU, Line
    <3>3. InUse' = InUse
      BY <2>2, <2>4 DEF InUse
    <3>4. Pool!Requeue(k)
      BY <3>2, <3>3, <2>1 DEF Pool!Requeue, Pool!Without, Cut, InUse
    <3> QED
      BY <3>1, <3>4, <1>1 DEF Pool!PoolNext
  <2> QED
    BY <2>3, <2>4, <1>1
<1>6. ASSUME NEW p \in Paths, ReleaseShared(p) PROVE Goal
  <2>1. /\ refcount[p] > 0 /\ refcount'[p] > 0 /\ entries' = entries
        /\ \A q \in Paths \ {p} : refcount'[q] = refcount[q]
        /\ lru' = lru /\ total' = total
    BY <1>1, <1>6 DEF ReleaseShared
  <2>2. InUse' = InUse
    BY <2>1, <1>1 DEF InUse
  <2> QED
    BY <2>1, <2>2, <1>2
<1>7. CASE EvictOne
  <2>1. /\ evicting /\ total > maxBytes /\ lru # <<>> /\ lru' = Tail(lru)
        /\ entries' = entries \ {Head(lru)} /\ refcount' = refcount
        /\ total' = total - (IF Head(lru) \in entries THEN Bytes[Head(lru)] ELSE 0)
    BY <1>7 DEF EvictOne, overBudget
  <2>2. Head(lru) \in entries /\ refcount[Head(lru)] = 0
    <3>1. Head(lru) = lru[1] /\ 1 \in 1..Len(lru)
      BY <2>1, <1>1, HeadTailProperties, EmptySeq
    <3> QED
      BY <3>1 DEF Line
  <2>3. InUse' = InUse
    BY <2>1, <2>2 DEF InUse
  <2>4. total' = total - Bytes[Head(lru)] /\ maxBytes > 0
    BY <2>1, <2>2 DEF EvictsByBudget
  <2>5. Pool!Evict
    BY <2>1, <2>3, <2>4 DEF Pool!Evict, InUse
  <2> QED
    BY <2>5 DEF Pool!PoolNext
<1>8. CASE EvictDone
  <2>1. UNCHANGED <<entries, refcount, lru, total>>
    BY <1>8 DEF EvictDone
  <2> QED
    BY <2>1, <1>2 DEF InUse
<1>9. CASE UNCHANGED cacheVars
  <2>1. UNCHANGED <<entries, refcount, lru, total>>
    BY <1>9 DEF cacheVars
  <2> QED
    BY <2>1, <1>2 DEF InUse
<1>10. CASE \E p \in Paths : DecodeHit(p) \/ DecodeMiss(p) \/ ReleaseToIdle(p) \/ ReleaseShared(p)
  BY <1>3, <1>4, <1>5, <1>6, <1>10
<1> QED
  BY <1>7, <1>8, <1>9, <1>10 DEF CacheStep

\* The cache, driven by frames over files that change, is the pool its package
\* comment promises: an image in use stays, and the longest idle one goes first.
THEOREM ThumbnailsImplementPool == Spec => ImplementsPool
<1>1. Init => Pool!PoolInit
  BY DEF Init, Pool!PoolInit
<1>2. ThumbnailInv /\ [Next]_vars => [Pool!PoolNext]_(Pool!poolVars)
  <2> SUFFICES ASSUME ThumbnailInv, [Next]_vars PROVE [Pool!PoolNext]_(Pool!poolVars)
    OBVIOUS
  <2>1. ThumbnailTypeOK /\ Line /\ EvictsByBudget
    BY DEF ThumbnailInv
  <2> QED
    BY <2>1, NextIsCacheStep, PoolStep
<1> QED
  BY <1>1, <1>2, ThumbnailInvariant, PTL DEF Spec, Pool!PoolSpec, ImplementsPool
=============================================================================
