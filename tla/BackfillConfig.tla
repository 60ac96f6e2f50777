---------------------------- MODULE BackfillConfig ----------------------------
(***************************************************************************)
(* The constants of the embedding backfill and what is assumed of them.     *)
(***************************************************************************)
EXTENDS Naturals, FiniteSets

CONSTANTS
    Entries,   \* catalog_items
    Refused,   \* entries whose text Gemini refuses, and their chunk with it
    PassSize,  \* embeddingBackfillBatchSize
    ChunkSize  \* embeddingGenBatchSize

\* A table is finite; the sizes are 50 and 10.
ASSUME BackfillAssumption ==
    /\ IsFiniteSet(Entries)
    /\ PassSize \in Nat \ {0}
    /\ ChunkSize \in Nat \ {0}

===============================================================================
