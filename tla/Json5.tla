------------------------------- MODULE Json5 -------------------------------
(* common/json5: prep, which blanks the comments and the trailing commas of  *)
(* a configuration file before it is decoded.  Each action is one iteration  *)
(* of one of its loops.  The indices are Go's and start at 0.                *)
EXTENDS Integers, Sequences

CONSTANTS
    Chars,      \* the bytes of the files read
    MaxLength   \* bound on their length

\* The bytes that prep tells apart, by name.
Blank == "blank"
Quote == "dquote"
Backslash == "backslash"
Slash == "solidus"
Asterisk == "asterisk"
Separator == "comma"
Newlines == {"newline", "return"}
Spaces == {Blank, "tab"} \cup Newlines
Closing == {"brace", "bracket"}

ASSUME CharsAssumption == MaxLength \in Nat

VARIABLES
    input,     \* what the reader returned
    s,         \* prep's buffer, which it edits in place
    i, j,      \* prep's indices: the next byte, the last comma
    loop,      \* the loop prep is in
    back       \* the loop consumeComment returns to

prepVars == <<input, s, i, j, loop, back>>

n == Len(input)
At(k) == s[k + 1]
Blanked(ks) == [k \in 1..n |-> IF k - 1 \in ks THEN Blank ELSE s[k]]

isNL(c) == c \in Newlines
isWS(c) == c \in Spaces
isClose(c) == c \in Closing

\* Even in a file that is Tangled an index is at most two bytes past the end.
PrepTypeOK ==
    /\ input \in Seq(Chars) /\ s \in [1..n -> Chars \cup {Blank}]
    /\ i \in 0..(n + 2) /\ j \in Nat
    /\ loop \in {"scan", "string", "comma", "line", "block", "done"}
    /\ loop \notin {"scan", "done"} => i <= n + 1
    /\ back \in {"scan", "comma"}

PrepInit ==
    /\ \E m \in 0..MaxLength : input \in [1..m -> Chars]
    /\ s = input /\ i = 0 /\ j = 0
    /\ loop = "scan" /\ back = "scan"

-----------------------------------------------------------------------------
Enter(l, k) == loop' = l /\ i' = k

\* Faulty variant of ConsumeComment, for a mutant.
ConsumeLineComment(k, from) ==
    \/ /\ k < n /\ At(k) = Slash
       /\ s' = Blanked({k - 1})
       /\ Enter("line", k) /\ back' = from
    \/ /\ ~ (k < n /\ At(k) = Slash)
       /\ Enter(from, k) /\ UNCHANGED <<s, back>>

\* consumeComment(s, k), called with the index after a slash.
ConsumeComment(k, from) ==
    \/ /\ k < n /\ At(k) = Slash
       /\ s' = Blanked({k - 1})
       /\ Enter("line", k) /\ back' = from
    \/ /\ k < n /\ At(k) = Asterisk
       /\ s' = Blanked({k - 1, k})
       /\ Enter("block", k) /\ back' = from
    \/ /\ ~ (k < n /\ At(k) \in {Slash, Asterisk})
       /\ Enter(from, k) /\ UNCHANGED <<s, back>>

\* The line's end stays.
LineComment ==
    /\ loop = "line"
    /\ IF i < n /\ ~ isNL(At(i))
       THEN s' = Blanked({i}) /\ Enter("line", i + 1)
       ELSE Enter(back, i) /\ UNCHANGED s
    /\ UNCHANGED <<input, j, back>>

\* Faulty variant of BlockComment, for a mutant.
BlockCommentStays ==
    /\ loop = "block"
    /\ \/ i >= n /\ Enter(back, i) /\ UNCHANGED s
       \/ /\ i < n /\ At(i) # Asterisk
          /\ s' = Blanked({i}) /\ Enter("block", i + 1)
       \/ /\ i < n /\ At(i) = Asterisk
          /\ IF i + 1 < n /\ At(i + 1) = Slash
             THEN s' = Blanked({i, i + 1}) /\ Enter(back, i + 1)
             ELSE UNCHANGED s /\ Enter("block", i)
    /\ UNCHANGED <<input, j, back>>

\* A star that no slash follows takes the byte after it along, unblanked.
BlockComment ==
    /\ loop = "block"
    /\ \/ i >= n /\ Enter(back, i) /\ UNCHANGED s
       \/ /\ i < n /\ At(i) # Asterisk
          /\ s' = Blanked({i}) /\ Enter("block", i + 1)
       \/ /\ i < n /\ At(i) = Asterisk
          /\ IF i + 1 < n /\ At(i + 1) = Slash
             THEN s' = Blanked({i, i + 1}) /\ Enter(back, i + 1)
             ELSE s' = Blanked({i}) /\ Enter("block", i + 2)
    /\ UNCHANGED <<input, j, back>>

String ==
    /\ loop = "string"
    /\ IF i >= n THEN Enter("scan", i)
       ELSE IF At(i) = Quote THEN Enter("scan", i + 1)
       ELSE Enter("string", IF At(i) = Backslash THEN i + 2 ELSE i + 1)
    /\ UNCHANGED <<input, s, j, back>>

\* A comma: over white space and comments to what follows it.  The index
\* consumeComment returns is stepped over as well.
Comma ==
    /\ loop = "comma"
    /\ \/ i + 1 >= n /\ Enter("scan", i + 1) /\ UNCHANGED <<s, back>>
       \/ /\ i + 1 < n /\ isClose(At(i + 1))
          /\ s' = Blanked({j}) /\ Enter("scan", i + 1) /\ UNCHANGED back
       \/ i + 1 < n /\ At(i + 1) = Slash /\ ConsumeComment(i + 2, "comma")
       \/ /\ i + 1 < n /\ ~ isClose(At(i + 1)) /\ At(i + 1) # Slash
          /\ Enter(IF isWS(At(i + 1)) THEN "comma" ELSE "scan", i + 1)
          /\ UNCHANGED <<s, back>>
    /\ UNCHANGED <<input, j>>

Scan ==
    /\ loop = "scan"
    /\ \/ i >= n /\ Enter("done", i) /\ UNCHANGED <<s, j, back>>
       \/ i < n /\ At(i) = Quote /\ Enter("string", i + 1) /\ UNCHANGED <<s, j, back>>
       \/ i < n /\ At(i) = Slash /\ ConsumeComment(i + 1, "scan") /\ UNCHANGED j
       \/ i < n /\ At(i) = Separator /\ j' = i /\ Enter("comma", i) /\ UNCHANGED <<s, back>>
       \/ /\ i < n /\ At(i) \notin {Quote, Slash, Separator}
          /\ Enter("scan", i + 1) /\ UNCHANGED <<s, j, back>>
    /\ UNCHANGED input

\* The cleaned file is decoded; nothing is scanned any more.
Done == loop = "done" /\ UNCHANGED prepVars

PrepStep == Scan \/ String \/ Comma \/ LineComment \/ BlockComment

PrepNext == PrepStep \/ Done

PrepSpec == PrepInit /\ [][PrepNext]_prepVars

\* prep runs in the goroutine that reads the file, without waiting.
PrepFairSpec == PrepSpec /\ WF_prepVars(PrepStep)

-----------------------------------------------------------------------------
(* What a cleaned file is: a reference definition over the input, in which   *)
(* each byte is in the text, in a string or in a comment.                    *)

Opens(t, k, c) == k < Len(t) /\ t[k] = Slash /\ t[k + 1] = c
Ends(t, k) == k < Len(t) /\ t[k] = Asterisk /\ t[k + 1] = Slash

\* What byte k of the text is part of, if the byte before it is part of
\* before.  "slash" and "star" are the second byte of a comment's opening,
\* "last" and "end" the two bytes of its end.
After(t, k, before) ==
    LET c == t[k] IN
    CASE before = "open" -> IF c = Slash THEN "slash" ELSE "star"
      [] before \in {"slash", "line"} /\ ~ isNL(c) -> "line"
      [] before \in {"star", "block"} -> IF Ends(t, k) THEN "last" ELSE "block"
      [] before = "last" -> "end"
      [] before = "escape" -> "string"
      [] before \in {"begin", "string"} ->
             CASE c = Quote -> "quote" [] c = Backslash -> "escape" [] OTHER -> "string"
      [] OTHER -> CASE c = Quote -> "begin"
                    [] Opens(t, k, Slash) \/ Opens(t, k, Asterisk) -> "open"
                    [] OTHER -> "text"

Parts(t) ==
    LET part[k \in 0..Len(t)] == IF k = 0 THEN "text" ELSE After(t, k, part[k - 1])
    IN part

Part == Parts(input)

InComment(k) == Part[k] \in {"open", "slash", "star", "line", "block", "last", "end"}

Skipped(k) == InComment(k) \/ (Part[k] = "text" /\ isWS(input[k]))

\* A comma in the text whose next byte that counts closes a list or an object.
TrailingComma(k) ==
    /\ Part[k] = "text" /\ input[k] = Separator
    /\ \E e \in (k + 1)..n : /\ Part[e] = "text" /\ isClose(input[e])
                             /\ \A m \in (k + 1)..(e - 1) : Skipped(m)

Clean == [k \in 1..n |-> IF InComment(k) \/ TrailingComma(k) THEN Blank ELSE input[k]]

\* A block comment with a star that does not end it; and a slash after a
\* comma that opens no comment, which no JSON has.
Tangled ==
    \/ \E k \in 1..n : Part[k] = "block" /\ input[k] = Asterisk
    \/ \E k, m \in 1..n : /\ k < m /\ Part[k] = "text" /\ input[k] = Separator
                          /\ Part[m] = "text" /\ input[m] = Slash
                          /\ \A e \in (k + 1)..(m - 1) : Skipped(e)

\* Every file that is not Tangled is cleaned of exactly its comments and its
\* trailing commas, and keeps every other byte, whatever comment markers,
\* commas and brackets its strings hold and wherever it ends (json5.go:95).
CleansExactly == loop = "done" /\ ~ Tangled => s = Clean

\* What makes it so.  Byte k + 1 is read as text.
InText(k) ==
    \/ Part[k] \in {"text", "quote", "end"}
    \/ Part[k] \in {"slash", "line"} /\ isNL(input[k + 1])

\* The comma at index j still waits for what follows it.
Pending == loop = "comma" \/ (loop \in {"line", "block"} /\ back = "comma")

\* How many bytes are settled.
Front ==
    IF \/ loop = "comma"
       \/ loop = "scan" /\ i < n /\ Part[i] = "last"
       \/ loop = "block" /\ i < n /\ Part[i] = "open"
    THEN i + 1 ELSE i

\* The loop prep is in is the one for what the next byte is part of.
PlaceInv ==
    /\ i \in 0..(n + 1)
    /\ loop \in {"line", "block", "comma"} => i <= n
    /\ loop = "scan" /\ i < n => InText(i) \/ Part[i] = "last"
    /\ loop = "string" /\ i <= n => Part[i] \in {"begin", "string"}
    /\ loop = "line" /\ i < n =>
           Part[i] \in {"slash", "line"} \/ (Part[i] = "open" /\ input[i + 1] = Slash)
    /\ loop = "block" /\ i < n =>
           Part[i] \in {"star", "block"} \/ (Part[i] = "open" /\ input[i + 1] = Asterisk)
    /\ loop = "comma" /\ i + 1 < n => InText(i + 1)
    /\ loop = "done" => i >= n

\* Between a comma that waits and the front there is only what it may skip.
CommaInv ==
    Pending => /\ j < n /\ j < Front
               /\ Part[j + 1] = "text" /\ input[j + 1] = Separator
               /\ \A k \in (j + 2)..n : k <= Front => Skipped(k)

\* Up to the front the buffer is clean, but for a comma that waits, and from
\* there on it is untouched.
BufferInv ==
    \A k \in 1..n :
        s[k] = IF k <= Front /\ ~ (Pending /\ k = j + 1) THEN Clean[k] ELSE input[k]

PrepInv == ~ Tangled => PlaceInv /\ CommaInv /\ BufferInv

\* What is left to do; no iteration leaves it as it is.
Remaining ==
    4 * (n + 2 - i) + CASE loop \in {"string", "line", "block"} -> 3
                        [] loop = "scan" -> 2
                        [] loop = "comma" -> 1
                        [] loop = "done" -> 0

\* prep gets to the end of every file, Tangled or not, so that a
\* configuration never hangs the start (json5.go:58, loops within loops).
Terminates == <>(loop = "done")
=============================================================================
