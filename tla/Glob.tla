-------------------------------- MODULE Glob --------------------------------
(***************************************************************************)
(* The role patterns of kaas-ui-auth's policy.rs: `*` is the only          *)
(* wildcard, and what is on either side of one is anchored.  A pattern and *)
(* a name are sequences of characters.                                     *)
(***************************************************************************)
EXTENDS SequencesExt

Star == "*"

\* pattern.split('*'): the pieces between the stars, one more than there are.
Segments(pattern) ==
  FoldLeft(LAMBDA pieces, c :
             IF c = Star THEN Append(pieces, <<>>)
             ELSE [pieces EXCEPT ![Len(pieces)] = Append(@, c)],
           <<(<<>>)>>, pattern)

\* rest.find(segment), as the positions before the first place it is at.
Finds(rest, segment) ==
  LET at == {i \in 0 .. Len(rest) - Len(segment) :
               SubSeq(rest, i + 1, i + Len(segment)) = segment}
  IN  {i \in at : \A j \in at : i <= j}

After(rest, n) == SubSeq(rest, n + 1, Len(rest))

\* What is left of the name after a middle segment: a set of one, or of none.
PastMiddle(rests, segment) ==
  IF segment = <<>> THEN rests
  ELSE UNION {{After(rest, i + Len(segment)) : i \in Finds(rest, segment)} : rest \in rests}

\* Mutant of Ends: the last segment is looked for, and not at the end.
EndsAnywhere(rest, last) == Finds(rest, last) # {}

Ends(rest, last) == IsSuffix(last, rest)

Matches(pattern, name) ==
  LET segments == Segments(pattern)
      first    == Head(segments)
      rest     == After(name, Len(first))
      tail     == Tail(segments)
  IN  /\ IsPrefix(first, name)
      /\ IF tail = <<>> THEN rest = <<>>
         ELSE LET left == FoldLeft(PastMiddle, {rest}, Front(tail))
              IN  \E remainder \in left : Last(tail) = <<>> \/ Ends(remainder, Last(tail))

\* TopicCodec::matches, of the config's codecs: a star may only be at the end.
CodecMatches(pattern, topic) ==
  IF pattern # <<>> /\ Last(pattern) = Star THEN IsPrefix(Front(pattern), topic)
  ELSE pattern = topic

(***************************************************************************)
(* What a pattern means: how much of the name can be read so far, when a   *)
(* star reads anything and a character itself.                             *)
(***************************************************************************)
Reads(pattern, name) ==
  LET step(read, c) ==
        IF c = Star THEN {j \in 0 .. Len(name) : \E i \in read : i <= j}
        ELSE {i \in 1 .. Len(name) : i - 1 \in read /\ name[i] = c}
  IN  Len(name) \in FoldLeft(step, {0}, pattern)

\* The one pass from left to right, without going back, matches exactly the
\* names the pattern can be read as; and a pattern a codec rule can have, with
\* one star at its end or none, means the same to a codec rule and a role.
MatchesAsRead(pattern, name) ==
  /\ Matches(pattern, name) <=> Reads(pattern, name)
  /\ (\A i \in 1 .. Len(pattern) - 1 : pattern[i] # Star) =>
       (CodecMatches(pattern, name) <=> Matches(pattern, name))
=============================================================================
