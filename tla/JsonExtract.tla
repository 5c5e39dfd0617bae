----------------------------- MODULE JsonExtract -----------------------------
(***************************************************************************)
(* structured.py, extract_json_object: how an object is found in what a    *)
(* model wrote.                                                            *)
(*                                                                         *)
(* A text is a sequence of characters: the braces, the brackets, "quote",  *)
(* "escape" (the backslash), "colon", "nl", "1" for what a number is made  *)
(* of, "fence" for ``` or ```json, and others, of which no JSON is made.   *)
(* Commas are left out: an object has at most one member.                  *)
(***************************************************************************)
EXTENDS Integers, Sequences, SequencesExt

Chars == STRING
NoJson == <<"no json">>

Openers == {"{", "["}
Closer == [opener \in Openers |-> IF opener = "{" THEN "}" ELSE "]"]

-----------------------------------------------------------------------------
(* json.loads: whether a text is JSON.  The stack holds the open brackets, *)
(* and the mode says what may follow.                                      *)

NothingRead == [stack |-> <<>>, mode |-> "value", key |-> FALSE]

InString(p, c) ==
    CASE p.mode = "string" /\ c = "quote" ->
           [p EXCEPT !.mode = IF p.key THEN "colon" ELSE "after"]
      [] p.mode = "string" /\ c = "escape" -> [p EXCEPT !.mode = "escape"]
      [] p.mode = "string" /\ c \notin {"quote", "escape", "nl"} -> p
      [] p.mode = "escape" /\ c \in {"quote", "escape"} -> [p EXCEPT !.mode = "string"]
      [] OTHER -> [p EXCEPT !.mode = "bad"]

Between(p, c) ==
    LET in == IF p.stack = <<>> THEN "nothing" ELSE Last(p.stack)
        awaits == p.mode = "value" \/ (p.mode = "opened" /\ in = "[")
        to(mode) == [p EXCEPT !.mode = mode, !.key = FALSE]
    IN  CASE c = "nl" -> IF p.mode = "number" THEN to("after") ELSE p
          [] awaits /\ c \in Openers ->
               [stack |-> Append(p.stack, c), mode |-> "opened", key |-> FALSE]
          [] awaits /\ c = "quote" -> to("string")
          [] (awaits \/ p.mode = "number") /\ c = "1" -> to("number")
          [] p.mode = "opened" /\ in = "{" /\ c = "quote" ->
               [p EXCEPT !.mode = "string", !.key = TRUE]
          [] p.mode = "colon" /\ c = "colon" -> to("value")
          [] /\ p.mode \in {"opened", "after", "number"}
             /\ in # "nothing" /\ c = Closer[in] ->
               [stack |-> Front(p.stack), mode |-> "after", key |-> FALSE]
          [] OTHER -> to("bad")

ReadChar(p, c) == IF p.mode \in {"string", "escape"} THEN InString(p, c) ELSE Between(p, c)

\* What is known of a text after each of its characters.
Reading(text) ==
    LET read[i \in 0..Len(text)] ==
          IF i = 0 THEN NothingRead ELSE ReadChar(read[i - 1], text[i])
    IN  read

IsJson(text) ==
    LET end == Reading(text)[Len(text)]
    IN  end.stack = <<>> /\ end.mode \in {"after", "number"}

-----------------------------------------------------------------------------
(* extract_json_object                                                     *)

\* What _CODE_FENCE matches: a fence that begins or ends a line.
Fenced(text, i) ==
    /\ text[i] = "fence"
    /\ \/ i = 1 \/ text[i - 1] = "nl"
       \/ i = Len(text) \/ text[i + 1] = "nl"

Cleaned(text) ==
    LET kept[i \in 0..Len(text)] ==
          IF i = 0 THEN <<>>
          ELSE IF Fenced(text, i) THEN kept[i - 1] ELSE Append(kept[i - 1], text[i])
    IN  kept[Len(text)]

AtOpener == [depth |-> 0, in_string |-> FALSE, escape |-> FALSE, i |-> 0, end |-> 0]

ScanChar_Blind(scan, char, opener) ==
    LET depth == scan.depth + (IF char = opener THEN 1 ELSE 0)
                            - (IF char = Closer[opener] THEN 1 ELSE 0)
        next == [scan EXCEPT !.i = @ + 1, !.depth = depth]
    IN  IF scan.end > 0 THEN scan
        ELSE IF depth = 0 THEN [next EXCEPT !.end = next.i] ELSE next

\* One round of the loop: brackets inside of strings do not count.
ScanChar(scan, char, opener) ==
    LET next == [scan EXCEPT !.i = @ + 1]
    IN  CASE scan.end > 0 -> scan
          [] scan.end = 0 /\ scan.in_string ->
               [next EXCEPT !.escape = ~scan.escape /\ char = "escape",
                            !.in_string = scan.escape \/ char # "quote"]
          [] scan.end = 0 /\ ~scan.in_string /\ char = "quote" -> [next EXCEPT !.in_string = TRUE]
          [] scan.end = 0 /\ ~scan.in_string /\ char = opener -> [next EXCEPT !.depth = @ + 1]
          [] scan.end = 0 /\ ~scan.in_string /\ char = Closer[opener] ->
               [next EXCEPT !.depth = @ - 1, !.end = IF scan.depth = 1 THEN next.i ELSE 0]
          [] OTHER -> next

Scanning(text, opener) ==
    LET scan[i \in 0..Len(text)] ==
          IF i = 0 THEN AtOpener ELSE ScanChar(scan[i - 1], text[i], opener)
    IN  scan

\* The block from the first opener to where it closes, or nothing.
Block(text, opener) ==
    LET rest == SubSeq(text, Min({i \in DOMAIN text : text[i] = opener}), Len(text))
    IN  IF opener \notin Range(text) THEN <<>>
        ELSE SubSeq(rest, 1, Scanning(rest, opener)[Len(rest)].end)

\* The JSON in a text.  The first block that closes is the last that is tried.
ExtractJsonObject(content) ==
    LET text == Cleaned(content)
        braces == Block(text, "{")
        found == IF braces # <<>> THEN braces ELSE Block(text, "[")
    IN  IF IsJson(text) THEN text ELSE IF IsJson(found) THEN found ELSE NoJson
=============================================================================
