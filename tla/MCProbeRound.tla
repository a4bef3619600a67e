---------------------------- MODULE MCProbeRound ----------------------------
(***************************************************************************)
(* Instances of ProbeRound for TLC.  Times are hours, raw amounts are in   *)
(* thousandths: 800 and 80000 are both 80 %.                               *)
(***************************************************************************)
EXTENDS ProbeRound, TLC

SomeCreds == 1..3

\* "5h", "weekly", "7d 5h", "15h" and "pro5h".
Span(number, unit) == [number |-> number, unit |-> unit, inWord |-> FALSE]
Name(week, spans) == [week |-> week, spans |-> spans]
FiveHours == Name(FALSE, {Span(5, "h")})
WeeklyNames == {Name(TRUE, {}), Name(FALSE, {Span(7, "d"), Span(5, "h")})}
OtherNames == {Name(FALSE, {Span(15, "h")}), Name(FALSE, {[Span(5, "h") EXCEPT !.inWord = TRUE]})}

ASSUME NamesAssumption ==
    /\ ClassifyWindow(FiveHours) = "five_hour"
    /\ \A name \in WeeklyNames : ClassifyWindow(name) = "weekly"
    /\ \A name \in OtherNames : ClassifyWindow(name) = "unknown"

Five(reset, raw) == [name |-> FiveHours, reset |-> reset, raw |-> raw]
Weekly(reset, raw) ==
    [name |-> CHOOSE n \in WeeklyNames : n.week = (reset < 12), reset |-> reset, raw |-> raw]
Other(reset, raw) ==
    [name |-> CHOOSE n \in OtherNames : (reset < 8) = (Span(15, "h") \in n.spans),
     reset |-> reset, raw |-> raw]

NotListed == [listed |-> FALSE, windows |-> {}]
Answer(gemini, claude) ==
    {[named |-> [g \in Groups |-> IF g = "gemini" THEN [listed |-> TRUE, windows |-> gemini]
                                  ELSE NotListed],
      loose |-> [g \in Groups |-> claude]]}

Present(p) == [listed |-> TRUE, priority |-> p, missing |-> FALSE, disabled |-> FALSE,
               documentPriority |-> {}, documentDisabled |-> {}]
Absent == [Present(0) EXCEPT !.listed = FALSE]
Hosts(f) == [c \in SomeCreds |-> IF c \in DOMAIN f THEN f[c] ELSE Absent]

Nowhere == [c \in SomeCreds |-> Zero]
EmptyFile == [entries |-> [k \in SomeCreds \X Groups |-> NoEntry], cooldowns |-> Nowhere,
              runs |-> <<>>]

\* A file of an earlier version: samples without numbers, one of them twice,
\* and a cooldown.
Legacy ==
    [EmptyFile EXCEPT
        !.entries[<<1, "gemini">>] =
            [@ EXCEPT !.at = 1, !.reset = 5, !.rem = 90, !.sreset = 5, !.srem = 90,
                      !.lreset = 100, !.lrem = 64, !.rate = 2500,
                      !.samples = <<Sample(0, 1, 5, 95, 65), Sample(0, 1, 5, 90, 64),
                                    Sample(0, 1, 5, 90, 64)>>],
        !.cooldowns[2] = 3]

Config(workers) ==
    [control |-> "gemini", boost |-> 4, normal |-> 2, minChange |-> 0, tolerance |-> 50,
     ignoreDisabled |-> TRUE, capacity |-> 2, workers |-> workers]

\* One credential, read often: windows that empty, move and fill up again.
Learning ==
    {[config |-> Config(1), rounds |-> IF f = Legacy THEN 3 ELSE 2, puts |-> 0,
      times |-> IF f = Legacy THEN {1} ELSE {1, 6},
      hosts |-> {Hosts(1 :> Present(2))},
      file |-> f,
      answers |-> {{},
                   Answer({Five(5, 80000), Weekly(15, 550)}, {Other(9, 0), Other(7, 500)}),
                   Answer({Five(5, 700), Weekly(15, 530)}, {Five(8, 1)}),
                   Answer({Five(10, 700), Weekly(15, 530)}, {}),
                   Answer({Five(5, 0), Five(6, 0), Weekly(4, 0)}, {Weekly(90, 300)})}] :
        f \in {EmptyFile, Legacy}}

\* Two credentials and two workers.
Together ==
    {[config |-> [Config(0) EXCEPT !.ignoreDisabled = FALSE], rounds |-> 2, puts |-> 0,
      times |-> {1},
      hosts |-> {Hosts(1 :> Present(2) @@ 2 :> Present(2)),
                 Hosts(2 :> [Present(2) EXCEPT !.documentPriority = {3}])},
      file |-> Legacy,
      answers |-> {{}, Answer({Five(5, 700), Weekly(10, 590)}, {Weekly(90, 300)})}]}

\* Three credentials whose urgencies are close to each other.
Ranking ==
    {[config |-> [Config(1) EXCEPT !.minChange = mb[1], !.boost = mb[2]], rounds |-> 1, puts |-> 0,
      times |-> {1},
      hosts |-> {Hosts([c \in SomeCreds |-> Present(c)]),
                 Hosts([c \in SomeCreds |-> [Present(1) EXCEPT
                            !.missing = c = 1, !.documentDisabled = {c = 2}]])},
      file |-> IF mb[1] = 0 THEN EmptyFile ELSE Legacy,
      answers |-> {Answer({Five(5, 500), Weekly(t, r)}, {}) : t \in {10, 101}, r \in {600, 560, 520}}] :
        mb \in {<<0, 6>>, <<2, 2>>}}

\* One credential, and configuration calls between and during the rounds.
Configured ==
    {[config |-> Config(1), rounds |-> 2, puts |-> 2, times |-> {1},
      hosts |-> {Hosts(1 :> Present(2))},
      file |-> Legacy,
      answers |-> {Answer({Five(5, 80000), Weekly(15, 550)}, {}),
                   Answer({Five(5, 700), Weekly(15, 530)}, {Five(8, 1)})}]}

AllScenarios == Learning \cup Together \cup Ranking \cup Configured

=============================================================================
