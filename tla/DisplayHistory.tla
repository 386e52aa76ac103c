--------------------------- MODULE DisplayHistory ---------------------------
(***************************************************************************)
(* The pictures of the car screen: the LRU cache of bitmaps                *)
(* (cache/BitmapCache.kt), the history of what was displayed               *)
(* (cache/DisplayHistory.kt), the surface (VanPilotSurfaceCallback.kt) and *)
(* the way back and forward through them (VanPilotScreen.navigateHistory). *)
(*                                                                         *)
(* Cache and history are bounded each for itself: the history may lead     *)
(* back to a picture that the cache has evicted.  What calls addEntry and  *)
(* displayBitmap for a new picture is not in the repository's sources.     *)
(***************************************************************************)
EXTENDS Naturals, Sequences, SequencesExt, FiniteSetsExt

CONSTANTS
  Keys,         \* bitmaps
  SizeOf,       \* their sizes
  CacheSize,    \* maxSize of the cache
  CacheBytes,   \* maxBytes of the cache
  HistorySize   \* maxSize of the history

ASSUME HistoryAssumption ==
  /\ SizeOf \in [Keys -> Nat \ {0}]
  /\ CacheSize \in Nat /\ CacheBytes \in Nat
  /\ HistorySize \in Nat \ {0}

VARIABLES
  cache,     \* the keys of the cache, the one used last at the end
  entries,   \* the history
  index,     \* currentIndex, counted from one
  picture,   \* currentCacheKey of the surface callback
  surface,   \* "none", or what is drawn on the surface of the host
  missed     \* history: the last step was not drawn

pictureVars == <<cache, entries, index, picture, surface, missed>>

NoKey == "none"
Blank == "blank"

PicturesInit ==
  /\ cache = <<>>
  /\ entries = <<>> /\ index = 0
  /\ picture = NoKey
  /\ surface = "none"
  /\ missed = FALSE

-----------------------------------------------------------------------------
Cached(k) == \E i \in 1..Len(cache) : cache[i] = k

Fits(s) ==
  /\ Len(s) <= CacheSize
  /\ MapThenSumSet(LAMBDA i : SizeOf[s[i]], 1..Len(s)) <= CacheBytes

(* trimToSize: the eldest go until both limits are kept.                   *)
TrimToSize(s) ==
  LET drop == Min({n \in 0..Len(s) : Fits(SubSeq(s, n + 1, Len(s)))}) IN
    SubSeq(s, drop + 1, Len(s))

(* Access order: what is used goes to the end.                             *)
Touch(k) == Append(Remove(cache, k), k)

(* put, on the polling thread.                                             *)
CachePut(k) ==
  /\ cache' = TrimToSize(Touch(k))
  /\ UNCHANGED <<entries, index, picture, surface, missed>>

-----------------------------------------------------------------------------
CanGoBack == index > 1
CanGoForward == index < Len(entries)
CurrentKey == IF index \in 1..Len(entries) THEN entries[index] ELSE NoKey

(* Variant: the index stays when the oldest entry goes.                    *)
AddEntry_KeepsIndex(k) ==
  IF CurrentKey = k THEN UNCHANGED <<entries, index>>
  ELSE LET new == Append(SubSeq(entries, 1, index), k) IN
         /\ entries' = IF Len(new) > HistorySize THEN Tail(new) ELSE new
         /\ index' = Len(new)

(* addEntry: not twice in a row; the way forward is cut; the oldest goes.  *)
AddEntry(k) ==
  IF CurrentKey = k THEN UNCHANGED <<entries, index>>
  ELSE LET new == Append(SubSeq(entries, 1, index), k)
           kept == IF Len(new) > HistorySize THEN Tail(new) ELSE new IN
         /\ entries' = kept
         /\ index' = Len(kept)

(* displayBitmap: it is drawn when there is a surface.                     *)
DisplayBitmap(k) ==
  /\ picture' = k
  /\ surface' = IF surface = "none" THEN surface ELSE k
  /\ missed' = FALSE

(* A new picture, from the cache.                                          *)
Display(k) ==
  /\ Cached(k)
  /\ cache' = Touch(k)
  /\ AddEntry(k)
  /\ DisplayBitmap(k)

(* A click on an arrow moves the index first.  navigateHistory then draws  *)
(* the bitmap, or returns: the screen has been given no cache, the cache   *)
(* does not hold the bitmap any more, or its bytes do not decode.          *)
GoTo(i) ==
  /\ index' = i
  /\ UNCHANGED entries
  /\ \/ Cached(entries[i]) /\ cache' = Touch(entries[i]) /\ DisplayBitmap(entries[i])
     \/ /\ missed' = TRUE
        /\ cache' \in {cache} \cup (IF Cached(entries[i]) THEN {Touch(entries[i])} ELSE {})
        /\ UNCHANGED <<picture, surface>>

GoBack == CanGoBack /\ GoTo(index - 1)
GoForward == CanGoForward /\ GoTo(index + 1)

(* The host gives a surface, or another one, and takes it away.            *)
SurfaceAvailable ==
  /\ surface' = IF picture = NoKey THEN Blank ELSE picture
  /\ UNCHANGED <<cache, entries, index, picture, missed>>

SurfaceDestroyed ==
  /\ surface' = "none"
  /\ UNCHANGED <<cache, entries, index, picture, missed>>

(* clearBitmap.                                                            *)
ClearBitmap ==
  /\ picture' = NoKey
  /\ surface' = IF surface = "none" THEN surface ELSE Blank
  /\ UNCHANGED <<cache, entries, index, missed>>

PicturesTypeOK ==
  /\ entries \in Seq(Keys) /\ Len(entries) <= HistorySize
  /\ index \in 0..Len(entries)
  /\ picture \in Keys \cup {NoKey}
  /\ surface \in Keys \cup {"none", Blank}
  /\ missed \in BOOLEAN
=============================================================================
