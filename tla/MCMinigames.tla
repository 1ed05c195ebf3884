---- MODULE MCMinigames ----
EXTENDS GameScreens

CONSTANTS a, b, c

MCSeats == [kind \in Kinds |->
    IF kind \in {"PREDICT_THEM", "DESCRIBE_IT", "BOMB_PROTOCOL"} THEN {a, b, c} ELSE {a, b}]

MCMaxSends == [kind \in Kinds |-> CASE kind = "BOMB_PROTOCOL" -> 4 [] OTHER -> 3]

Do(type, data) == [type |-> type, data |-> data]

MCInputs ==
    [RANK_IT |-> {Do("SUBMIT_RANKING", d) : d \in {<<1, 2>>, <<2, 1>>, <<1, 1>>}},
     COMPLETE_IT |-> {Do("SUBMIT_TEXT", [blanks |-> 1, characters |-> n]) : n \in 0 .. 3},
     DRAW_IT |-> {Do("SUBMIT_DRAWING", d) : d \in {<<>>, <<1, 2>>, <<2, 2>>}},
     PREDICT_THEM |-> {Do(t, d) : t \in {"SUBMIT_AUDIENCE_VOTE", "SUBMIT_PREDICTION"}, d \in {"A", "B"}},
     DESCRIBE_IT |-> {Do("FINISH_SPEAKING", "none")},
     DEFEND_IT |-> {Do(t, "none") : t \in {"FINISH_DEFENCE", "FINISH_FOLLOW_UP_QUESTION",
                                           "FINISH_FOLLOW_UP_RESPONSE"}},
     BOMB_PROTOCOL |-> {Do("PRESS_SYMBOL", s) : s \in Symbol} \cup {Do("CUT_WIRE", w) : w \in Wire}
                       \cup {Do("SUBMIT_CODE", d) : d \in Code}]
====
