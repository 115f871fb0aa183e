------------------------------ MODULE Replace ------------------------------
(***************************************************************************)
(* `culvert replace ram`, cmd/replace.c: the DRAM below the video memory   *)
(* is read a window at a time, and each match in the window as it was read *)
(* is overwritten in place.  The BMC runs, and writes to its memory.       *)
(***************************************************************************)
EXTENDS Siphon, FiniteSets

CONSTANTS
  Win,      \* DUMP_RAM_WIN
  Rams,     \* what the DRAM may hold: sequences of whole windows
  MaxPokes, \* bound: on the bytes that the BMC wrote last
  Strings   \* the <<MATCH, REPLACE>> of the user: MATCH is not empty

ReplaceAssumption ==
  /\ Win \in Nat \ {0} /\ MaxPokes \in Nat
  /\ Rams \subseteq Seq({0, 1}) /\ Strings \subseteq Seq({0, 1}) \X Seq({0, 1})
  /\ \A r \in Rams : Len(r) % Win = 0
  /\ \A s \in Strings : 0 < Len(s[1]) /\ Len(s[2]) <= Len(s[1]) /\ Len(s[1]) <= Win

VARIABLES
  strings,  \* the arguments
  ram,      \* the DRAM
  cursor,   \* ram_cursor: the offset of the window ...
  win,      \* ... win_chunk ...
  needle,   \* ... and how much of it has been searched
  pokes,    \* history: where the BMC wrote last, behind the read of the window
            \* and behind the command's own writes
  read,     \* history: the windows as they were read
  lost      \* history: the offsets of the windows in which a write failed

replaceVars == <<strings, ram, cursor, win, needle, pokes, read, lost>>

ReplaceIdle ==
  /\ strings = <<<<>>, <<>>>> /\ ram = <<>> /\ cursor = 0 /\ win = <<>> /\ needle = 0
  /\ pokes = {} /\ read = <<>> /\ lost = {}

ReplaceInit ==
  /\ SiphonInit /\ input = 0 /\ kind = "replace"
  /\ strings \in Strings /\ ram \in Rams /\ cursor = 0 /\ win = <<>> /\ needle = 0
  /\ pokes = {} /\ read = ram /\ lost = {}

Match == strings[1]
Replacement == strings[2]

\* MATCH is found at an offset of a window.
At(w, o) == o + Len(Match) <= Win /\ SubSeq(w, o + 1, o + Len(Match)) = Match

\* The first n bytes of s overwrite r from offset o.
Over(r, o, s, n) == [a \in 1 .. Len(r) |-> IF a \in o + 1 .. o + n THEN s[a - o] ELSE r[a]]

\* soc_probe(), sdmc_get(), sdmc_get_dram() and sdmc_get_vram()
ReplaceProbe ==
  /\ pc = "probe"
  /\ Goto("scan") \/ Fail("close", EIO)
  /\ UNCHANGED replaceVars

\* ahb_read() of the next window: its length stays in rc.
Scan ==
  /\ pc = "scan"
  /\ IF cursor >= Len(ram) THEN Goto("close") /\ UNCHANGED <<win, needle, read, pokes>>
     ELSE \/ /\ pc' = "search" /\ rc' = Win /\ needle' = 0
             /\ win' = SubSeq(ram, cursor + 1, cursor + Win)
             /\ read' = Over(read, cursor, win', Win)
             /\ pokes' = pokes \ (cursor + 1 .. cursor + Win)
          \/ Fail("close", EIO) /\ UNCHANGED <<win, needle, read, pokes>>
  /\ UNCHANGED <<strings, ram, cursor, lost>>

\* The first n bytes of REPLACE are in the RAM, at offset o.
Written(o, n) ==
  ram' = Over(ram, o, Replacement, n) /\ pokes' = pokes \ (o + 1 .. o + n)

NextWindow == cursor' = cursor + Win /\ pc' = "scan"

(* Mutated: the search goes on behind the first byte of the match.          *)
Search_bytewise ==
  LET hits == {o \in needle .. Win - 1 : At(win, o)}
      o == CHOOSE h \in hits : \A g \in hits : h <= g
  IN  /\ pc = "search"
      /\ IF hits = {} THEN NextWindow /\ UNCHANGED <<rc, ram, needle, pokes, lost>>
         ELSE /\ Fail("search", Len(Replacement)) /\ needle' = o + 1
              /\ Written(cursor + o, Len(Replacement)) /\ UNCHANGED <<cursor, lost>>
      /\ UNCHANGED <<strings, win, read>>

\* memmem() behind the last match, and ahb_write() over the next.  A write
\* that fails ends the search of this window.
Search ==
  LET hits == {o \in needle .. Win - 1 : At(win, o)}
      o == CHOOSE h \in hits : \A g \in hits : h <= g
  IN  /\ pc = "search"
      /\ IF hits = {} THEN NextWindow /\ UNCHANGED <<rc, ram, needle, pokes, lost>>
         ELSE \/ /\ Fail("search", Len(Replacement)) /\ Written(cursor + o, Len(Replacement))
                 /\ needle' = o + Len(Match) /\ UNCHANGED <<cursor, lost>>
              \/ /\ NextWindow /\ rc' = EIO /\ \E n \in 0 .. Len(Replacement) : Written(cursor + o, n)
                 /\ lost' = lost \union {cursor} /\ UNCHANGED needle
      /\ UNCHANGED <<strings, win, read>>

\* The BMC, which is external, writes to its memory: any byte, as often as it
\* likes.  Between two bytes of a read or a write of the command it may do so
\* too, which is as if it had before, or behind, all of them.
Poke ==
  /\ kind = "replace"
  /\ \E a \in 1 .. Len(ram) : \E b \in {0, 1} \ {ram[a]} :
       ram' = [ram EXCEPT ![a] = b] /\ pokes' = pokes \union {a}
  /\ Cardinality(pokes') <= MaxPokes
  /\ UNCHANGED <<ahbVars, strings, cursor, win, needle, read, lost>>

ReplaceStep ==
  /\ kind = "replace" /\ UNCHANGED <<kind, siphonVars>>
  /\ \/ (OpenBridge \/ Close) /\ UNCHANGED replaceVars
     \/ (ReplaceProbe \/ Scan \/ Search) /\ UNCHANGED bridge

-----------------------------------------------------------------------------
ReplaceTypeOK ==
  /\ ram \in Seq({0, 1}) /\ cursor \in 0 .. Len(ram) /\ win \in Seq({0, 1})
  /\ needle \in 0 .. Win /\ pokes \subseteq 1 .. Len(ram) /\ Len(read) = Len(ram)

\* A window is known by its offset, and a byte of it by its own in the window.
Starts == {s \in 0 .. Len(ram) - 1 : s % Win = 0}
Window(s) == SubSeq(read, s + 1, s + Win)

\* The matches of a window that start before its byte n, from the left, none
\* of which overlaps the one before it: what is passed over is covered.
Covers(m, o, n) == o \in m .. m + n - 1
Found(w, M, n) ==
  /\ M \subseteq {o \in 0 .. n - 1 : At(w, o)}
  /\ \A o \in M : \A m \in M \ {o} : ~Covers(m, o, Len(Match))
  /\ \A o \in 0 .. n - 1 : At(w, o) /\ o \notin M => \E m \in M : Covers(m, o, Len(Match))

\* b is what byte i of the window becomes: its place in the replacement of the
\* match it belongs to, or what it was.
Becomes(w, M, i, b) ==
  \/ \E m \in M : Covers(m, i, Len(Replacement)) /\ b = Replacement[i - m + 1]
  \/ (\A m \in M : ~Covers(m, i, Len(Replacement))) /\ b = w[i + 1]

\* The window at s has been replaced up to its byte n, and not behind.
ReplacedTo(s, n, M) ==
  /\ Found(Window(s), M, n)
  /\ \A i \in 0 .. Win - 1 :
       \/ s + i + 1 \in pokes
       \/ Becomes(Window(s), M, i, ram[s + i + 1]) /\ i < n
       \/ ram[s + i + 1] = Window(s)[i + 1] /\ i >= n

\* In each window that has been searched, and in which no write failed, the
\* matches have been replaced from the left; in the others, up to some byte;
\* and no byte has become anything else, but where the BMC wrote to it behind
\* the read of its window, and the command not again.
Replaces ==
  kind = "replace" =>
    \A s \in Starts : \E n \in 0 .. Win : \E M \in SUBSET (0 .. n - 1) :
      ReplacedTo(s, n, M) /\ (s < cursor /\ s \notin lost => n = Win)

-----------------------------------------------------------------------------
(***************************************************************************)
(* Said of the program, and not what it does: see "Known divergences" in   *)
(* README.md.                                                              *)
(***************************************************************************)

\* cmd/replace.c: rc is the result of the command, and a write that fails is
\* an error, as is nothing else.
FailureShows ==
  kind = "replace" /\ pc = "end" => (rc = OK <=> cursor = Len(ram) /\ lost = {})

=============================================================================
