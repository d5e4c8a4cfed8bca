----------------------------- MODULE MCPrograms -----------------------------
(* Programs for TLC: two terminals, one program on each; a directory, the  *)
(* RTC and a file of three bytes, which cat and grep read two at a time.   *)
EXTENDS Programs

MCProcs == 0..3
MCDirectory == <<[name |-> ".", type |-> "dir", size |-> 0],
                 [name |-> "rtc", type |-> "rtc", size |-> 0],
                 [name |-> "f", type |-> "file", size |-> 3]>>
Use(a, b) == [t \in Terms |-> IF t = 0 THEN a ELSE b]
MCUses == {Use({<<"ls", "">>}, {<<"syserr", "">>}),
           Use({<<"cat", "f">>, <<"ls", "">>}, {<<"grep", "x">>}),
           Use({<<"pingpong", "">>}, {<<"pingpong", "">>}),
           Use({<<"shell", "">>}, {<<"cat", "">>})}
=============================================================================
