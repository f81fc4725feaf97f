---------------------------- MODULE MCConverter ----------------------------
(* A small instance of Converter for TLC. *)
EXTENDS Converter

User(text, image, answers) ==
  [role |-> "user", text |-> text, thinking |-> FALSE, image |-> image,
   results |-> answers, uses |-> <<>>]
Assistant(text, thinking, uses) ==
  [role |-> "assistant", text |-> text, thinking |-> thinking, image |-> FALSE,
   results |-> <<>>, uses |-> uses]
Use(id, name) == [id |-> id, name |-> name]

MCContents ==
  {User("words", FALSE, <<>>), User("none", FALSE, <<1>>), User("blank", TRUE, <<2, 1, 2>>),
   Assistant("words", FALSE, <<>>), Assistant("none", FALSE, <<Use(1, "Read")>>),
   Assistant("blank", FALSE, <<Use(2, "read")>>),
   Assistant("words", TRUE, <<Use(1, "read"), Use(2, "long")>>),
   [User("words", FALSE, <<>>) EXCEPT !.role = "system"]}

Option(supported, system, thinking, ts) ==
  [supported |-> supported, system |-> system, thinking |-> thinking, tools |-> ts]
MCOptions ==
  {Option(TRUE, "none", FALSE, <<>>), Option(TRUE, "none", TRUE, <<"Read">>),
   Option(TRUE, "empty", TRUE, <<"long", "wide">>), Option(TRUE, "words", TRUE, <<"long", "read">>),
   Option(FALSE, "words", FALSE, <<>>)}

\* "long" is ASCII, "wide" has 60 characters of 3 bytes each.
MCSize == [n \in {"Read", "read", "long", "l_hash", "wide", "w_hash"} |->
             CASE n = "long" -> 70 [] n = "l_hash" -> 63 [] n = "wide" -> 180 [] n = "w_hash" -> 171
               [] OTHER -> 4]
MCLead == [n \in Names |-> CASE n \in {"wide", "w_hash"} -> 162 [] n \in {"long", "l_hash"} -> 54
                              [] OTHER -> 4]
MCShort == [n \in Long |-> IF n = "long" THEN "l_hash" ELSE "w_hash"]
MCLower == [n \in Names |-> IF n = "Read" THEN "read" ELSE n]
=============================================================================
