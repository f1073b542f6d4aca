------------------------------ MODULE MCValues ------------------------------
(* The values of the constants of Values that are not written in values.cfg. *)
EXTENDS Values

(* Requests: a name is the beginning of another and differs from a third in case
   only, a value is empty, a parameter has no value, and there are escaped
   separators. *)
ShortNames == {<<"a">>, <<"a", "b">>, <<"A">>}
ShortValues == {<<>>, <<"v", "w">>}
ShortParams == {<<"a">>, <<"a", "=", "%26">>, <<"%3D", "=", "b">>, <<"b", "=">>}
SomePartData == {<<"x", "y">>}

(* Dates: texts with a zone, and with three digits behind the "." or none. *)
SomeTimes == {[sec |-> 0, nsec |-> 0], [sec |-> 93659, nsec |-> 5000007]}
Walls == [day : {1}, hour : {2, 11}, min : {0, 30}, sec : {0, 59}]
Fractions == [digits : {3}, value : {0, 7, 125}]
Zones ==
    [sign : {"+", "-"}, h : {0, 8}, m : {0, 30}] \cup [sign : {"Z"}, h : {0}, m : {0}]
WellFormedTexts ==
    [form : {"ISO"}, wall : Walls, fraction : Fractions, zone : Zones]
      \cup [form : {"GMT"}, wall : Walls, fraction : [digits : {0}, value : {0}],
            zone : [sign : {"none"}, h : {0}, m : {0}]]

(* Cookies: one name is the beginning of another, a value is empty or has a "=". *)
SomeNames == {<<"a">>, <<"a", "b">>}
SomeValues == {<<>>, <<"v", "=">>}

(* Routes: a path, and a path with "*" that matches it too. *)
SomeUrls == {"/x", "/y"}
SomePatterns == {"/x", "/*"}
PathCaptures ==
    [p \in SomePatterns |-> [u \in SomeUrls |->
        IF p = "/*" THEN <<u, "/", IF u = "/x" THEN "x" ELSE "y">>
        ELSE IF u = p THEN <<u>> ELSE <<>>]]

SomeHeaders == [field : {0, 12}, value : {0, 30}]

(* What is written: nothing, a byte, and more. *)
SomeData == {<<>>, <<"a">>, <<"b", "c">>}
=============================================================================
