---------------------------- MODULE CardsLoader ----------------------------
(***************************************************************************)
(* The cache of card packages of motor-channels: load() reads the file     *)
(* across an await and then fills the cache, invalidate() empties it in    *)
(* between. The text of a card is its version: 0 is "no such file".        *)
(***************************************************************************)
EXTENDS Naturals

CONSTANTS Readers,     \* concurrent calls of load()
          CardIds,     \* names of cards in the valid format
          MaxEdits     \* BOUND: how often a card is written, or deleted

ASSUME LoaderAssumption == MaxEdits \in Nat

VARIABLES
  file,        \* version of each card on the disk
  edits,       \* history: how often each card changed
  cache,       \* version of each card in the map, 0 when it has no entry
  load,        \* each call: what it reads, the version readFile saw
  since,       \* history: the oldest version that is not stale
  overtaken    \* history: cards invalidated while a load of them was reading

loaderVars == <<file, edits, cache, load, since, overtaken>>

Idle == [at |-> "idle"]

Reading(c) == \E r \in Readers : load[r].at # "idle" /\ load[r].card = c

LoaderInit ==
  /\ edits = [c \in CardIds |-> 0]
  /\ file \in [CardIds -> {0, 1}]
  /\ cache = [c \in CardIds |-> 0]
  /\ load = [r \in Readers |-> Idle]
  /\ since = [c \in CardIds |-> 0]
  /\ overtaken = {}

\* A card is written anew or deleted; versions grow.
EditFile(c) ==
  /\ edits[c] < MaxEdits
  /\ edits' = [edits EXCEPT ![c] = @ + 1]
  /\ \E v \in {0, edits[c] + 2} : file' = [file EXCEPT ![c] = v]
  /\ UNCHANGED <<cache, load, since, overtaken>>

\* load() of a card that is not cached calls readFile. A cached card, and an
\* identifier in another format, are answered at once and change nothing.
LoadCard(r, c) ==
  /\ load[r] = Idle
  /\ cache[c] = 0
  /\ load' = [load EXCEPT ![r] = [at |-> "reading", card |-> c]]
  /\ UNCHANGED <<file, edits, cache, since, overtaken>>

\* Faulty variant: a file that is missing is taken for an empty text.
ReadFileCachesMissing(r) ==
  /\ load[r].at = "reading"
  /\ load' = [load EXCEPT ![r] = [at |-> "read", card |-> load[r].card,
                                  text |-> file[load[r].card]]]
  /\ UNCHANGED <<file, edits, cache, since, overtaken>>

\* The file is read, at some moment before the await is over. ENOENT makes
\* load() answer null; any other failure rejects. Neither fills the cache.
ReadFile(r) ==
  /\ load[r].at = "reading"
  /\ \/ /\ file[load[r].card] # 0
        /\ load' = [load EXCEPT ![r] = [at |-> "read", card |-> load[r].card,
                                        text |-> file[load[r].card]]]
     \/ load' = [load EXCEPT ![r] = Idle]
  /\ UNCHANGED <<file, edits, cache, since, overtaken>>

FillCache(r) ==
  /\ load[r].at = "read"
  /\ cache' = [cache EXCEPT ![load[r].card] = load[r].text]
  /\ load' = [load EXCEPT ![r] = Idle]
  /\ UNCHANGED <<file, edits, since, overtaken>>

\* What a read begun now may find: this text or, of a deleted card, the next.
Newest(c) == IF file[c] = 0 THEN edits[c] + 2 ELSE file[c]

\* Faulty variant: without an argument invalidate() deletes the entry "undefined".
InvalidateByIdOnly(cards) ==
  /\ cache' = [c \in CardIds |-> IF cards = {c} THEN 0 ELSE cache[c]]
  /\ since' = [c \in CardIds |-> IF c \in cards THEN Newest(c) ELSE since[c]]
  /\ overtaken' = (overtaken \ cards) \cup {c \in cards : Reading(c)}
  /\ UNCHANGED <<file, edits, load>>

\* invalidate(cardId), or invalidate() for all the cards.
InvalidateCards(cards) ==
  /\ cache' = [c \in CardIds |-> IF c \in cards THEN 0 ELSE cache[c]]
  /\ since' = [c \in CardIds |-> IF c \in cards THEN Newest(c) ELSE since[c]]
  /\ overtaken' = (overtaken \ cards) \cup {c \in cards : Reading(c)}
  /\ UNCHANGED <<file, edits, load>>

LoaderStep ==
  \/ \E c \in CardIds : EditFile(c)
  \/ \E c \in CardIds : InvalidateCards({c})
  \/ InvalidateCards(CardIds)
  \/ \E r \in Readers : \/ ReadFile(r) \/ FillCache(r)
                        \/ \E c \in CardIds : LoadCard(r, c)

LoaderSpec == LoaderInit /\ [][LoaderStep]_loaderVars

-----------------------------------------------------------------------------
(* Properties *)

Versions == 0..(MaxEdits + 1)

LoaderTypeOK ==
  /\ file \in [CardIds -> Versions]
  /\ edits \in [CardIds -> 0..MaxEdits]
  /\ cache \in [CardIds -> Versions]
  /\ load \in [Readers -> {Idle} \cup [at : {"reading"}, card : CardIds]
                             \cup [at : {"read"}, card : CardIds, text : Versions \ {0}]]
  /\ since \in [CardIds -> 0..(MaxEdits + 2)]
  /\ overtaken \subseteq CardIds

\* invalidate() "drops" an entry (cards-loader.ts:62): afterwards the cache
\* holds nothing older than what the disk held then, unless a load was reading
\* the card at that moment. Then it may put the old text back.
StaleOnlyIfOvertaken ==
  \A c \in CardIds : cache[c] # 0 /\ c \notin overtaken => cache[c] >= since[c]
=============================================================================
