------------------------------- MODULE MCZlog ------------------------------
(* The instance for TLC of Zlog: the daemon's zlog.conf, an edit that      *)
(* zlog refuses and one that it takes.                                     *)
EXTENDS Zlog, ZlogChecks, TLC

MCCategory == << <<"my", "cat">>, <<"aux">> >>
MCLevels == {20, 40, 60}
Symmetry == Permutations(Thread)

section(n) == [kind |-> "section", name |-> n, more |-> FALSE, ok |-> TRUE]
global(k, v) == [kind |-> "global", key |-> k, value |-> v, ok |-> TRUE, more |-> FALSE]
format(n, times) == [kind |-> "format", name |-> n, times |-> times, ok |-> TRUE, more |-> FALSE]
rule(cat, under, cmp, level, out) ==
  [kind |-> "rule", cat |-> cat, under |-> under, cmp |-> cmp, level |-> level, out |-> out,
   format |-> "", limit |-> 1, count |-> 2, mv |-> "", ok |-> TRUE, more |-> FALSE]
blank == [kind |-> "blank"]

Daemon == << section("global"), global("reload conf period", 1), section("formats"), format("simple", 0),
             format("normal", 1), section("rules"), rule(<<"my", "cat">>, FALSE, ".", "DEBUG", "file") >>
Bad == << section("rules"), section("formats") >>
Edited == << section("global"), global("buffer max", 4), global("reload conf period", 1), section("rules"),
             blank, [rule(<<"my">>, TRUE, ".", "INFO", "file") EXCEPT !.more = TRUE], blank, rule(<<"x">>, FALSE, "*", "*", "stdout"),
             rule(<<"my", "cat">>, FALSE, "=", "NOTICE", "stdout"), rule(<<"!">>, FALSE, "=", "INFO", "stderr") >>
MCTexts == <<Daemon, Bad, Edited>>
=============================================================================
