--------------------------- MODULE MCFlashController ---------------------------
(***************************************************************************)
(* FlashController for TLC: two sectors of two words.  The callers program *)
(* whole words, chunks of any length at any address, and a word at an      *)
(* address that is not aligned.                                            *)
(***************************************************************************)
EXTENDS FlashController

c(fn, addr, size, value) == [fn |-> fn, addr |-> addr, size |-> size, value |-> value]

MCCalls == {c("erase_range", 7, 9, "x"), c("program_word", 12, 4, "y"),
            c("program_word", 6, 4, "x"), c("program_bytes", 4, 12, "y"),
            c("program_bytes", 0, 5, "x"), c("program_bytes", 7, 2, "y")}
ChunkCalls == {c("erase_range", 0, 8, "x"), c("program_bytes", 0, 5, "x")}
=============================================================================
