------------------------------ MODULE Thumbnails ------------------------------
(***************************************************************************)
(* Decoded thumbnails in memory: media.Cache, the media.Tracker on top of  *)
(* it, and the frame that drives both (ui.View.layoutMessages).            *)
(*                                                                         *)
(* A frame draws its rows one after the other; thumbnailFor takes a        *)
(* reference for the time of one row.  When all rows are drawn the tracker *)
(* is given their paths: it releases what has left, then decodes what has  *)
(* come.  Go's map order is random, so both loops pick any member of todo. *)
(* Everything but the files runs on the UI goroutine, so a step never      *)
(* finds the mutex taken; each iteration of the eviction loop is a step.   *)
(*                                                                         *)
(* The files belong to whatsmeow's goroutines: writeThumbnail truncates    *)
(* the file of a redelivered message and writes it again at any moment, so *)
(* two decodes of one path in one frame may end differently.               *)
(***************************************************************************)
EXTENDS Integers, Sequences, SequencesExt, FiniteSetsExt

CONSTANTS
  Paths,     \* the media paths of the messages (one file per message)
  Bytes,     \* what the decoded image of a path costs
  maxBytes   \* the cache's budget; zero disables eviction

NoPath == ""

ASSUME ThumbnailAssumption ==
  /\ NoPath \notin Paths
  /\ Bytes \in [Paths -> Nat]
  /\ maxBytes \in Nat

VARIABLES
  readable,      \* the paths whose file decodes
  entries,       \* Cache.entries: the paths in memory
  refcount,      \* per path, its entry's count (zero without an entry)
  lru,           \* Cache.lru, oldest first
  total,         \* Cache.total
  evicting,      \* evictIfOver is looping
  visible,       \* Tracker.visible
  visiblePaths,  \* View.visiblePaths: rows drawn so far in this frame
  step,          \* where the frame is
  todo,          \* what the loop over a map has still to visit
  peeked,        \* the path thumbnailFor has decoded and not yet released
  held           \* history variable, not in the code: the paths for which the
                 \* tracker's Decode returned an image it has not released

cacheVars == <<entries, refcount, lru, total, evicting>>
frameVars == <<visible, visiblePaths, step, todo, peeked, held>>
vars == <<readable, cacheVars, frameVars>>

ThumbnailTypeOK ==
  /\ readable \subseteq Paths /\ entries \subseteq Paths
  /\ refcount \in [Paths -> Nat]
  /\ lru \in Seq(Paths)
  /\ total \in Int
  /\ evicting \in BOOLEAN
  /\ visible \subseteq Paths /\ visiblePaths \subseteq Paths
  /\ step \in {"idle", "draw", "release", "decode", "clear"}
  /\ todo \subseteq Paths /\ held \subseteq Paths
  /\ peeked \in Paths \cup {NoPath}

Init ==
  /\ readable \in SUBSET Paths
  /\ entries = {} /\ refcount = [p \in Paths |-> 0] /\ lru = <<>> /\ total = 0
  /\ evicting = FALSE
  /\ visible = {} /\ visiblePaths = {} /\ step = "idle" /\ todo = {}
  /\ peeked = NoPath /\ held = {}

-----------------------------------------------------------------------------
(* Cache *)

removeFromLRU(p) == RemoveFirst(lru, p)

startEviction == evicting' = (maxBytes > 0)

\* Mutant: a second holder of an image is not counted.
DecodeHitUncounted(p) ==
  /\ p \in entries
  /\ refcount' = [refcount EXCEPT ![p] = IF @ = 0 THEN 1 ELSE @]
  /\ lru' = removeFromLRU(p)
  /\ UNCHANGED <<entries, total, evicting>>

\* Decode finds the entry.
DecodeHit(p) ==
  /\ p \in entries
  /\ refcount' = [refcount EXCEPT ![p] = @ + 1]
  /\ lru' = removeFromLRU(p)
  /\ UNCHANGED <<entries, total, evicting>>

\* Mutant: only Release looks at the budget.
DecodeMissUnchecked(p) ==
  /\ p \notin entries /\ p \in readable
  /\ entries' = entries \cup {p}
  /\ refcount' = [refcount EXCEPT ![p] = 1]
  /\ total' = total + Bytes[p]
  /\ UNCHANGED <<lru, evicting>>

\* Decode reads the file.
DecodeMiss(p) ==
  /\ p \notin entries /\ p \in readable
  /\ entries' = entries \cup {p}
  /\ refcount' = [refcount EXCEPT ![p] = 1]
  /\ total' = total + Bytes[p]
  /\ startEviction
  /\ UNCHANGED lru

Decode(p) == DecodeHit(p) \/ DecodeMiss(p)

DecodeFails(p) == p \notin entries /\ p \notin readable /\ UNCHANGED cacheVars

\* Mutant: the floor at zero dropped.
ReleaseBelowZero(p) ==
  /\ p \in entries /\ refcount[p] <= 1
  /\ refcount' = [refcount EXCEPT ![p] = @ - 1]
  /\ lru' = Append(removeFromLRU(p), p)
  /\ startEviction
  /\ UNCHANGED <<entries, total>>

\* A count of zero stays zero, and the entry becomes the newest idle one.
ReleaseToIdle(p) ==
  /\ p \in entries /\ refcount[p] <= 1
  /\ refcount' = [refcount EXCEPT ![p] = 0]
  /\ lru' = Append(removeFromLRU(p), p)
  /\ startEviction
  /\ UNCHANGED <<entries, total>>

ReleaseShared(p) ==
  /\ p \in entries /\ refcount[p] > 1
  /\ refcount' = [refcount EXCEPT ![p] = @ - 1]
  /\ UNCHANGED <<entries, lru, total, evicting>>

ReleaseUnknown(p) == p \notin entries /\ UNCHANGED cacheVars

Release(p) == ReleaseToIdle(p) \/ ReleaseShared(p) \/ ReleaseUnknown(p)

overBudget == total > maxBytes /\ lru # <<>>

\* Mutant: the newest idle image goes.
EvictNewest ==
  /\ evicting /\ overBudget
  /\ lru' = Front(lru)
  /\ entries' = entries \ {Last(lru)}
  /\ total' = total - (IF Last(lru) \in entries THEN Bytes[Last(lru)] ELSE 0)
  /\ UNCHANGED <<readable, refcount, evicting, frameVars>>

\* One iteration of the loop; the oldest idle entry goes.
EvictOne ==
  /\ evicting /\ overBudget
  /\ lru' = Tail(lru)
  /\ entries' = entries \ {Head(lru)}
  /\ total' = total - (IF Head(lru) \in entries THEN Bytes[Head(lru)] ELSE 0)
  /\ UNCHANGED <<readable, refcount, evicting, frameVars>>

EvictDone ==
  /\ evicting /\ ~overBudget
  /\ evicting' = FALSE
  /\ UNCHANGED <<readable, entries, refcount, lru, total, frameVars>>

-----------------------------------------------------------------------------
(* The frame and the tracker *)

\* A frame that lays out the conversation begins.
StartFrame ==
  /\ step = "idle" /\ ~evicting
  /\ step' = "draw" /\ visiblePaths' = {}
  /\ UNCHANGED <<readable, cacheVars, visible, todo, peeked, held>>

\* The row of a message with media: thumbnailFor decodes, and on success
\* releases right after.  Two rows may have one path (module Paging shows a
\* message loaded twice).
DrawRow(p) ==
  /\ step = "draw" /\ ~evicting /\ peeked = NoPath
  /\ visiblePaths' = visiblePaths \cup {p}
  /\ \/ Decode(p) /\ peeked' = p
     \/ DecodeFails(p) /\ peeked' = NoPath
  /\ UNCHANGED <<readable, visible, step, todo, held>>

ReleasePeeked ==
  /\ peeked # NoPath /\ ~evicting
  /\ Release(peeked)
  /\ peeked' = NoPath
  /\ UNCHANGED <<readable, visible, visiblePaths, step, todo, held>>

\* layoutMessages returns: SetVisible(v.visiblePaths) begins.
StartReleases ==
  /\ step = "draw" /\ ~evicting /\ peeked = NoPath
  /\ step' = "release" /\ todo' = visible \ visiblePaths
  /\ UNCHANGED <<readable, cacheVars, visible, visiblePaths, peeked, held>>

ReleaseDeparted(p) ==
  /\ step \in {"release", "clear"} /\ ~evicting /\ p \in todo
  /\ Release(p)
  /\ todo' = todo \ {p} /\ held' = held \ {p}
  /\ UNCHANGED <<readable, visible, visiblePaths, step, peeked>>

StartDecodes ==
  /\ step = "release" /\ ~evicting /\ todo = {}
  /\ step' = "decode" /\ todo' = visiblePaths \ visible
  /\ UNCHANGED <<readable, cacheVars, visible, visiblePaths, peeked, held>>

\* The tracker ignores what Decode returns: the path counts as visible even
\* when there was no image.
DecodeArrived(p) ==
  /\ step = "decode" /\ ~evicting /\ p \in todo
  /\ todo' = todo \ {p}
  /\ \/ Decode(p) /\ held' = held \cup {p}
     \/ DecodeFails(p) /\ UNCHANGED held
  /\ UNCHANGED <<readable, visible, visiblePaths, step, peeked>>

EndFrame ==
  /\ step = "decode" /\ ~evicting /\ todo = {}
  /\ visible' = visiblePaths /\ step' = "idle"
  /\ UNCHANGED <<readable, cacheVars, visiblePaths, todo, peeked, held>>

\* Tracker.Clear; nothing in main.go calls it.
StartClear ==
  /\ step = "idle" /\ ~evicting
  /\ step' = "clear" /\ todo' = visible
  /\ UNCHANGED <<readable, cacheVars, visible, visiblePaths, peeked, held>>

EndClear ==
  /\ step = "clear" /\ ~evicting /\ todo = {}
  /\ visible' = {} /\ step' = "idle"
  /\ UNCHANGED <<readable, cacheVars, visiblePaths, todo, peeked, held>>

-----------------------------------------------------------------------------
(* The files *)

\* writeThumbnail opens the file (which truncates it), and has written it.
TruncateFile(p) == readable' = readable \ {p} /\ UNCHANGED <<cacheVars, frameVars>>
WriteFile(p) == readable' = readable \cup {p} /\ UNCHANGED <<cacheVars, frameVars>>

-----------------------------------------------------------------------------

\* What the UI goroutine does once a frame (or Clear) has begun.
FrameStep ==
  \/ EvictOne \/ EvictDone
  \/ \E p \in Paths : DrawRow(p) \/ ReleaseDeparted(p) \/ DecodeArrived(p)
  \/ ReleasePeeked \/ StartReleases \/ StartDecodes \/ EndFrame \/ EndClear

Next ==
  \/ FrameStep \/ StartFrame \/ StartClear
  \/ \E p \in Paths : TruncateFile(p) \/ WriteFile(p)

Spec == Init /\ [][Next]_vars

-----------------------------------------------------------------------------
(* Properties *)

\* Every count equals the references outstanding: one if the tracker holds the
\* path, one while thumbnailFor looks at it.  A Decode that failed leaves no
\* reference, and the Release that answers it takes nobody else's
\* (Tracker.SetVisible, View.thumbnailFor).
CountsMatchHolders ==
  /\ held \subseteq entries
  /\ peeked # NoPath => peeked \in entries
  /\ \A p \in entries :
       refcount[p] = (IF p \in held THEN 1 ELSE 0) + (IF p = peeked THEN 1 ELSE 0)

\* Outside the eviction loop the images cost more than the budget only when
\* every one of them is in use (Cache.evictIfOver).
WithinBudget ==
  ~evicting /\ maxBytes > 0 /\ total > maxBytes => lru = <<>>

\* The cache implements what it promises.
Pool == INSTANCE ThumbnailPool
          WITH pinned <- {p \in entries : refcount[p] > 0}, idle <- lru, used <- total
ImplementsPool == Pool!PoolSpec
=============================================================================
