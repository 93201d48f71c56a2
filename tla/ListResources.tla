--------------------------- MODULE ListResources ---------------------------
(***************************************************************************)
(* The two list resources of packages/admin-core, as transformers of the   *)
(* state they keep: ListResource (one request for the whole list) and      *)
(* WindowedListResource (blocks of rows, fetched as they scroll into view).*)
(* An answer of the server is the version of the table it was computed     *)
(* from and the number of rows that matched.  Neither class ever cancels a *)
(* request: what an overtaken one brings back is ignored when it arrives.  *)
(***************************************************************************)
EXTENDS Integers, FiniteSets

CONSTANTS BlockSize,    \* rows per block
          Blocks,       \* the blocks a list can have
          AllRows       \* the parameters of a list without filters

Hole == [version |-> -1]              \* no row fetched here yet
Waiting == [version |-> -2]           \* the server has not computed an answer
Failed == [version |-> -3]            \* the answer is an error
----------------------------------------------------------------------------
(* ListResource: a token per load(), only the newest one may write.        *)

NewList == [token |-> 0, loads |-> {}, rows |-> Hole, loading |-> FALSE,
            error |-> FALSE]

Load(l) ==
    LET token == l.token + 1
    IN [l EXCEPT !.token = token, !.loading = TRUE, !.error = FALSE,
                 !.loads = @ \cup {[token |-> token, answer |-> Waiting]}]

NeverOvertaken(l, load) == l.token < 0

Overtaken(l, load) == load.token # l.token

Loaded(l, load) ==
    LET rest == [l EXCEPT !.loads = @ \ {load}]
    IN IF Overtaken(l, load) THEN rest
       ELSE IF load.answer = Failed
            THEN [rest EXCEPT !.error = TRUE, !.loading = FALSE]
            ELSE [rest EXCEPT !.rows = load.answer, !.loading = FALSE]
----------------------------------------------------------------------------
(* WindowedListResource: `calls' are the ensureRange() calls that wait for *)
(* their blocks, `fetches' the requests of those blocks.  inFlightBlocks   *)
(* is cleared whenever the generation moves on, so it holds the blocks of  *)
(* the current generation's calls.  `failed' is auxiliary: the blocks this *)
(* generation asked for in vain.                                           *)

NewWindowed ==
    [generation |-> 0, params |-> AllRows, rows |-> [b \in Blocks |-> Hole],
     totalCount |-> 0, counted |-> FALSE, loading |-> FALSE, error |-> FALSE,
     calls |-> {}, fetches |-> {}, lastRange |-> <<0, 0>>, failed |-> {}]

BlocksFor(range) ==
    IF range[2] <= range[1] THEN {}
    ELSE (range[1] \div BlockSize) .. ((range[2] - 1) \div BlockSize)

InFlight(w) ==
    UNION {c.blocks : c \in {d \in w.calls : d.generation = w.generation}}

ToFetch(w, range) ==
    {b \in BlocksFor(range) : w.rows[b] = Hole /\ b \notin InFlight(w)}

EnsureRange(w, range) ==
    LET blocks == ToFetch(w, range)
        asked  == [w EXCEPT !.lastRange = range]
    IN IF blocks = {} THEN asked
       ELSE [asked EXCEPT
              !.loading = TRUE,
              !.calls = @ \cup {[generation |-> w.generation,
                                 blocks |-> blocks, left |-> blocks]},
              !.fetches = @ \cup
                  {[generation |-> w.generation, block |-> b,
                    params |-> w.params, answer |-> Waiting] : b \in blocks}]

KeepsTheCount(w) ==
    [w EXCEPT !.generation = @ + 1, !.failed = {},
              !.rows = [b \in Blocks |-> Hole]]

BumpGeneration(w) ==
    [w EXCEPT !.generation = @ + 1, !.counted = FALSE, !.failed = {},
              !.rows = [b \in Blocks |-> Hole]]

SetParams(w, params) == BumpGeneration([w EXCEPT !.params = params])

Refresh(w) == EnsureRange(BumpGeneration(w), w.lastRange)

NeverSuperseded(w, f) == w.generation < 0

Superseded(w, f) == f.generation # w.generation

\* What #fetchBlock does with its answer.  Only the first answer of a
\* generation sets the number of rows.
Arrive(w, f) ==
    LET b    == f.block
        rest == [w EXCEPT !.fetches = @ \ {f}]
    IN IF Superseded(w, f) THEN rest
       ELSE IF f.answer = Failed
            THEN [rest EXCEPT !.error = TRUE, !.failed = @ \cup {b}]
            ELSE [rest EXCEPT
                   !.totalCount = IF w.counted THEN @ ELSE f.answer.total,
                   !.counted = TRUE, !.error = FALSE, !.failed = @ \ {b},
                   !.rows[b] = [version |-> f.answer.version,
                                params |-> f.params]]

CallOf(w, f) ==
    CHOOSE c \in w.calls : c.generation = f.generation /\ f.block \in c.left

\* The end of the ensureRange() call that waited for f, when f was the last
\* of its blocks: the call leaves the bookkeeping of a newer generation alone.
Finish(w, f) ==
    LET c    == CallOf(w, f)
        left == c.left \ {f.block}
        kept == [w EXCEPT !.calls = (@ \ {c}) \cup
                     IF left = {} THEN {} ELSE {[c EXCEPT !.left = left]}]
    IN IF left # {} \/ c.generation # w.generation THEN kept
       ELSE [kept EXCEPT !.loading = InFlight(kept) # {}]
============================================================================
