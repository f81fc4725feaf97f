---------------------------- MODULE MCSseStream -----------------------------
(* Instances of SseStream for TLC: tags of two characters and the pieces in  *)
(* which a text arrives.                                                     *)
EXTENDS SseStream

Open  == <<"<th", "ink>">>
Close == <<"</th", "ink>.">>
White == {"nl", "sp"}
Quote == {"<th", "ink>", "</th", "ink>.", "dot"}

\* Tags whole and cut, alone and with their surroundings.
Pieces ==
  {<<"x">>, <<"nl">>,
   <<"<th">>, <<"ink>">>, <<"nl", "<th", "ink>", "nl", "x">>,
   <<"</th">>, <<"ink>.", "nl", "nl">>, <<"</th", "ink>.">>,
   <<"x", "</th", "ink>.", "nl", "nl", "x">>, <<"dot", "</th", "ink>.", "dot", "x">>}
=============================================================================
