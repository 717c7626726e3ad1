---------------------------- MODULE MainImagesMC ----------------------------
(* Instances of MainImages for TLC. *)
EXTENDS MainImages

Photos == {<<<<"white_bg", 1>>>>,
           <<<<"white_bg", 1>>, <<"detail", 2>>, <<"detail", 3>>, <<"background_style", 4>>>>,
           <<<<"white_bg", 1>>, <<"background_style", 2>>, <<"background_style", 3>>, <<"background_style", 4>>>>}
AllPhotos == CHOOSE p \in Photos : Len(p) = 4 /\ p[2][1] = "detail"

BaseRequest ==
    [task |-> [product |-> 5, brand |-> 4], shots |-> 3, photos |-> AllPhotos,
     frame |-> <<"3:4", "2K">>, text |-> "real", route |-> "banana2", keys |-> {"google", "runapi"},
     cached |-> TRUE, overlay |-> TRUE, badCalls |-> 0, faults |-> 0, cuts |-> 0]

(* Names that are too short, too long, or missing; every number of pictures. *)
PlanRequests ==
    {[BaseRequest EXCEPT !.task = [product |-> p, brand |-> b], !.shots = n, !.photos = a]
        : p \in {0, 2, 8, 12}, b \in {0, 5}, n \in {1, 8, 12}, a \in Photos}

(* Calls that fail, store calls that raise and workers that die. *)
FaultRequests ==
    {[BaseRequest EXCEPT !.route = r, !.cached = c, !.badCalls = 2, !.cuts = 1]
        : r \in {"banana2", "runapi_gemini31"}, c \in BOOLEAN}
    \cup {[BaseRequest EXCEPT !.shots = 2, !.badCalls = 2, !.faults = 1, !.overlay = o] : o \in BOOLEAN}
    \cup {[BaseRequest EXCEPT !.shots = 2, !.text = "mock", !.route = r, !.cuts = 1, !.faults = 1, !.badCalls = 1]
            : r \in {"mock", "banana2"}}

(* No key, or a frame nobody knows. *)
OddRequests ==
    {[BaseRequest EXCEPT !.text = t, !.route = r, !.keys = {}] : t \in {"mock", "real"}, r \in {"banana2", "runapi_gemini31"}}
    \cup {[BaseRequest EXCEPT !.frame = <<"2:1", "2K">>, !.route = r, !.text = t, !.badCalls = 1]
            : r \in {"mock", "banana2"}, t \in {"mock", "real"}}

RequestsMC ==
    {[r EXCEPT !.badCalls = IF @ = 0 /\ r.keys = {} THEN 2 ELSE @]
        : r \in PlanRequests \cup FaultRequests \cup OddRequests}

DirectorShot(id, points, strategy, render, share) ==
    [id |-> id, points |-> points, strategy |-> strategy, density |-> "medium", render |-> render, share |-> share]

(* Nothing; shots out of order, twice, and of a number nobody asked for. *)
DirectorAnswersMC ==
    {<<>>,
     <<DirectorShot(2, <<9>>, "none", TRUE, 40), DirectorShot(99, <<>>, "light", TRUE, 0),
       DirectorShot(1, <<>>, "bold", FALSE, 20), DirectorShot(2, <<1, 2, 3>>, "strong", TRUE, 0),
       DirectorShot(4, <<20>>, "strong", TRUE, 70)>>}

RefineShot(id, strategy, title, subtitle, points, frame) ==
    [id |-> id, share |-> 0, frame |-> frame,
     copy |-> [strategy |-> strategy, density |-> "heavy", title |-> title, subtitle |-> subtitle, points |-> points]]

RefineAnswersMC ==
    {<<>>,
     <<RefineShot(1, "none", 9, 16, <<0, 12, 3>>, LeftOut), RefineShot(3, "strong", 4, 10, <<3>>, EmptyFrame),
       RefineShot(1, "light", 4, 8, <<>>, LeftOut), RefineShot(6, "loud", 3, 7, <<8, 0, 9>>, EmptyFrame),
       RefineShot(20, "light", 5, 9, <<>>, <<"9:9", "8K">>)>>}
=============================================================================
