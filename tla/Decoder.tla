------------------------------- MODULE Decoder -------------------------------
(***************************************************************************)
(* The input decoder (ompui/input/decoder.go, frame.go): bytes arrive in   *)
(* whatever chunks the kernel hands over and leave as whole sequences.     *)
(* A byte is a string; the digits and separators inside a sequence are     *)
(* abstracted to one letter where nothing depends on them.  Mouse reports, *)
(* UTF-8 and the meaning of a key are left out.                            *)
(***************************************************************************)
EXTENDS Integers, FiniteSetsExt, SequencesExt

Esc        == "ESC"
Bel        == "BEL"
pasteStart == <<Esc, "[", "2", "~">>
pasteEnd   == <<Esc, "[", "1", "~">>

(* Bytes that end a control sequence.                                      *)
Finals == {"~", "A", "c", "n", "u", "y", "["}

(* Where pat begins in s, 0 if nowhere.                                    *)
indexOfBytes(s, pat) ==
  LET at == {i \in 1..(Len(s) - Len(pat) + 1) : SubSeq(s, i, i + Len(pat) - 1) = pat}
  IN  IF at = {} THEN 0 ELSE Min(at)

(* Is this candidate, which begins with ESC, a whole sequence?  An ESC     *)
(* before ESC [ or ESC O belongs to the sequence that follows.             *)
isCompleteSequence(s) ==
  LET Ends(c) ==
        /\ Len(c) >= 2
        /\ CASE c[2] = "[" -> Len(c) >= 3 /\ Last(c) \in Finals
             [] c[2] = "]" -> Last(c) = Bel \/ (Len(c) >= 4 /\ IsSuffix(<<Esc, "\\">>, c))
             [] c[2] = "O" -> Len(c) >= 3
             [] OTHER      -> TRUE
  IN  Ends(IF Len(s) >= 3 /\ s[2] = Esc /\ s[3] \in {"[", "O"} THEN Tail(s) ELSE s)

(* Splits the buffer into whole sequences and what has to wait for more.   *)
extractCompleteSequences(buf) ==
  LET Held(i, e) == e = i + 1 /\ buf[e] = Esc /\ (e = Len(buf) \/ buf[e + 1] \in {"[", "O"})
      from[i \in 1..(Len(buf) + 1)] ==
        LET ends == IF buf[i] # Esc THEN {i}
                    ELSE {e \in i..Len(buf) : isCompleteSequence(SubSeq(buf, i, e)) /\ ~Held(i, e)}
        IN  IF i > Len(buf) \/ ends = {} THEN [whole |-> <<>>, rest |-> SubSeq(buf, i, Len(buf))]
            ELSE LET next == from[Min(ends) + 1]
                 IN  [whole |-> <<SubSeq(buf, i, Min(ends))>> \o next.whole, rest |-> next.rest]
  IN  from[1]

-----------------------------------------------------------------------------
(* buf is the unfinished sequence; pasted and overlap what a paste has     *)
(* gathered and its last bytes; out the sequences for the input loop.      *)
NewDecoder == [buf |-> <<>>, paste |-> FALSE, pasted |-> <<>>, overlap |-> <<>>, out |-> <<>>]

Framed(d) ==
  LET split == extractCompleteSequences(d.buf)
  IN  [d EXCEPT !.out = @ \o split.whole, !.buf = split.rest]

(* The end marker is looked for in the chunk and the few bytes before it.  *)
consumePasteChunk(d, chunk) ==
  LET probe == d.overlap \o chunk
      flat  == d.pasted \o chunk
      end   == indexOfBytes(flat, pasteEnd)
  IN  IF indexOfBytes(probe, pasteEnd) = 0
      THEN [d EXCEPT !.buf = <<>>, !.pasted = flat,
                     !.overlap = SubSeq(probe, Max({1, Len(probe) - Len(pasteEnd) + 2}), Len(probe))]
      ELSE Framed([d EXCEPT !.buf = SubSeq(flat, end + Len(pasteEnd), Len(flat)), !.paste = FALSE,
                            !.pasted = <<>>, !.overlap = <<>>,
                            !.out = @ \o <<pasteStart \o SubSeq(flat, 1, end - 1) \o pasteEnd>>])

(* Write.  What precedes a paste and is unfinished is dropped; a paste     *)
(* that follows another in the same chunk is not met with these inputs.    *)
Write(d, chunk) ==
  LET all   == d.buf \o chunk
      start == indexOfBytes(all, pasteStart)
  IN  CASE d.paste                 -> consumePasteChunk(d, all)
        [] ~d.paste /\ start > 0   ->
             consumePasteChunk(
               [d EXCEPT !.out = @ \o extractCompleteSequences(SubSeq(all, 1, start - 1)).whole,
                         !.paste = TRUE, !.pasted = <<>>, !.overlap = <<>>],
               SubSeq(all, start + Len(pasteStart), Len(all)))
        [] OTHER                   -> Framed([d EXCEPT !.buf = all])

(* PopDue after the flush deadline: the unfinished sequence goes out as it *)
(* is.                                                                     *)
flushExpired(d) == [d EXCEPT !.out = Append(@, d.buf), !.buf = <<>>]
=============================================================================
