---------------------------- MODULE ThumbnailPool ----------------------------
(***************************************************************************)
(* What media.Cache promises its callers, without counts, holders, frames  *)
(* or files (cache.go's package comment): an image in use stays in memory; *)
(* an image no longer in use waits in line; only when the images cost more *)
(* than the budget does one leave, and it is the one that waited longest.  *)
(***************************************************************************)
EXTENDS Integers, Sequences

CONSTANTS Paths, Bytes, maxBytes

VARIABLES
  pinned,  \* the images in use
  idle,    \* the images nobody uses, the one that has waited longest first
  used     \* what all of them cost

poolVars == <<pinned, idle, used>>

Waits(p) == \E i \in DOMAIN idle : idle[i] = p

PoolInit == pinned = {} /\ idle = <<>> /\ used = 0

Load(p) ==
  /\ p \notin pinned /\ ~Waits(p)
  /\ pinned' = pinned \cup {p} /\ used' = used + Bytes[p]
  /\ UNCHANGED idle

\* The line without its i-th image.
Without(i) == SubSeq(idle, 1, i - 1) \o SubSeq(idle, i + 1, Len(idle))

Reuse(i) ==
  /\ pinned' = pinned \cup {idle[i]} /\ idle' = Without(i)
  /\ UNCHANGED used

Rest(p) ==
  /\ p \in pinned
  /\ pinned' = pinned \ {p} /\ idle' = Append(idle, p)
  /\ UNCHANGED used

\* An image that was waiting already goes to the end of the line.
Requeue(i) ==
  /\ idle' = Append(Without(i), idle[i])
  /\ UNCHANGED <<pinned, used>>

Evict ==
  /\ maxBytes > 0 /\ used > maxBytes /\ idle # <<>>
  /\ idle' = Tail(idle) /\ used' = used - Bytes[Head(idle)]
  /\ UNCHANGED pinned

PoolNext ==
  \/ \E p \in Paths : Load(p) \/ Rest(p)
  \/ \E i \in DOMAIN idle : Reuse(i) \/ Requeue(i)
  \/ Evict

PoolSpec == PoolInit /\ [][PoolNext]_poolVars
=============================================================================
