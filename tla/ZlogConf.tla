------------------------------ MODULE ZlogConf -----------------------------
(***************************************************************************)
(* How zlog turns a configuration text into a conf and its rules, and      *)
(* which levels of which categories a rule lets through: conf.c, level.c,  *)
(* level_list.c, the constructor and the selector of rule.c, category.c.   *)
(*                                                                         *)
(* A raw line is [kind |-> "blank"] (also a comment) or a record with the  *)
(* parsed words and more, which says that the line ends in a backslash;    *)
(* the pieces of a continued line are joined, so only the first piece      *)
(* says what the line is.  A line whose scanf would fail has ok = FALSE.   *)
(***************************************************************************)
EXTENDS Integers, Sequences, SequencesExt, FiniteSets, FiniteSetsExt

CONSTANT Levels        \* the level numbers the instance looks at, of 0 .. 255

Unset == "unset"

Sections == <<"global", "levels", "formats", "rules">>
SectionNo(name) == CHOOSE i \in 1 .. 4 : Sections[i] = name

DefaultLevels == [ l \in {0, 20, 40, 60, 80, 100, 120, 254, 255} |->
  CASE l = 0 -> "*" [] l = 20 -> "DEBUG" [] l = 40 -> "INFO" [] l = 60 -> "NOTICE"
    [] l = 80 -> "WARN" [] l = 100 -> "ERROR" [] l = 120 -> "FATAL"
    [] l = 254 -> "UNKNOWN" [] OTHER -> "!" ]

(* zc_parse_byte_size: a number with a unit ("", "K", "M", "G"), in powers *)
(* of 1024 when a B follows; the scale is a parameter, 1024 and 1000 in C. *)
ByteSize(n, unit, binary, decimal, b) ==
  LET m == IF b THEN binary ELSE decimal
  IN  IF n <= 0 THEN 0
      ELSE n * (CASE unit = "K" -> m [] unit = "M" -> m * m [] unit = "G" -> m * m * m [] OTHER -> 1)

(* zlog_conf_new before it reads anything; times is what the default       *)
(* format needs of time caches.                                            *)
ConfDefault ==
  [strict |-> TRUE, bufMin |-> 1, bufMax |-> 2, period |-> 0, fsync |-> 0, lock |-> "conf",
   perms |-> 600, times |-> 1, levels |-> DefaultLevels, formats |-> << >>, format |-> Unset,
   rotater |-> FALSE, rules |-> << >>, caches |-> 0]

-----------------------------------------------------------------------------
LevelSet(levels, line) ==
  [l \in DOMAIN levels \cup {line.level} |-> IF l = line.level THEN line.name ELSE levels[l]]
LevelLineGood(line) == line.ok /\ line.level \in 0 .. 255

(* zlog_level_list_atoi: the first slot with the name, or -1.  The name of *)
(* an unknown level makes a rule of level -1, which nothing refuses.       *)
LevelAtoi(levels, name) ==
  LET at == {l \in DOMAIN levels : levels[l] = name}
  IN  IF at = {} THEN -1 ELSE Min(at)

(* An undefined level is shown as UNKNOWN. *)
LevelGet(levels, l) == IF l \in DOMAIN levels THEN levels[l] ELSE levels[254]

(* A bitmap is the set of the levels whose bit is set; byte and bit are    *)
(* the C quotient and remainder, so -1 is bit -1 of byte 0.                *)
ByteOf(l) == IF l < 0 THEN 0 ELSE l \div 8
BitOf(l) == IF l < 0 THEN l ELSE l % 8
Bitmap(cmp, level) ==
  CASE cmp = "=" -> {l \in Levels : ByteOf(l) = ByteOf(level) /\ BitOf(l) = BitOf(level)}
    [] cmp = "!" -> {l \in Levels : ~ (ByteOf(l) = ByteOf(level) /\ BitOf(l) = BitOf(level))}
    [] cmp = "*" -> Levels
    [] cmp = "." -> {l \in Levels : \/ ByteOf(l) = ByteOf(level) /\ BitOf(l) >= BitOf(level)
                                    \/ ByteOf(l) > ByteOf(level)}

(* zlog_level_switch: the bits from level on are set, the others cleared.  *)
LevelSwitch(level) ==
  {l \in Levels : \/ ByteOf(l) = ByteOf(level) /\ BitOf(l) >= BitOf(level)
                  \/ ByteOf(l) > ByteOf(level)}

(* zlog_rule_output *)
Lets(rule, level) ==
  CASE rule.cmp = "*" -> TRUE
    [] rule.cmp = "." -> level >= rule.level
    [] rule.cmp = "=" -> level = rule.level
    [] rule.cmp = "!" -> level # rule.level

-----------------------------------------------------------------------------
(* A category name is a sequence of words joined by "_"; a rule's may end  *)
(* in a "_" (under), may be "*", or "!" for the wastebin.                  *)
MatchCategory(rule, name) ==
  \/ rule.cat = <<"*">>
  \/ rule.cat = name /\ ~ rule.under
  \/ rule.under /\ IsPrefix(rule.cat, name)

Wastebin(rule) == rule.cat = <<"!">>

(* zlog_category_obtain_rules: the rules that match, or else the last      *)
(* wastebin rule; as positions in the list of rules.                       *)
FitRules(rules, name) ==
  LET fit   == SelectSeq([i \in DOMAIN rules |-> i], LAMBDA i : MatchCategory(rules[i], name))
      waste == {i \in DOMAIN rules : Wastebin(rules[i])}
  IN  IF fit # << >> THEN fit ELSE IF waste = {} THEN << >> ELSE <<Max(waste)>>

FitBits(rules, fit) == UNION {Bitmap(rules[i].cmp, rules[i].level) : i \in ToSet(fit)}

-----------------------------------------------------------------------------
(* zlog_rule_new.  out says where the rule writes: "file" (the text starts *)
(* with a quote), "sync" (-"), "pipe", "syslog", "stdout", "stderr" or     *)
(* "record"; limit and count are the parsed size limit, mv how the archive *)
(* pattern numbers files ("" when there is no pattern: rolling).           *)
Outputs == {"file", "sync", "pipe", "syslog", "stdout", "stderr", "record"}

FormatOf(conf, name) ==
  IF name = "" THEN {conf.format} ELSE {f \in ToSet(conf.formats) : f.name = name}

RuleGood(conf, line) ==
  /\ line.ok /\ line.out \in Outputs
  /\ FormatOf(conf, line.format) # {}
  /\ line.mv \in {"", "r", "s"}

Files == {"file", "sync"}

RuleNew(conf, line) ==
  [cat |-> line.cat, under |-> line.under, cmp |-> line.cmp,
   level |-> LevelAtoi(conf.levels, line.level),
   format |-> CHOOSE f \in FormatOf(conf, line.format) : TRUE,
   fsync |-> IF line.out = "sync" THEN 0 ELSE conf.fsync,
   how |-> IF line.out \notin Files THEN line.out
           ELSE IF line.limit > 0 THEN "rotate" ELSE "single",
   limit |-> line.limit, count |-> line.count, mv |-> IF line.mv = "s" THEN "s" ELSE "r"]

-----------------------------------------------------------------------------
(* zlog_conf_parse_line answers -1 (rc) or goes on.  A line that only      *)
(* strict init refuses is skipped.                                         *)
Refused(st, strictOnly) ==
  [st EXCEPT !.rc = IF strictOnly /\ ~ st.conf.strict THEN 0 ELSE -1]

(* At [rules] the rotater and the default format are built from what the   *)
(* global section said; a fsync period no rule would live to see is off.   *)
SectionLine(st, line) ==
  LET c == st.conf
  IN  IF line.name \notin ToSet(Sections) \/ st.section >= SectionNo(line.name) THEN Refused(st, FALSE)
      ELSE IF line.name # "rules" THEN [st EXCEPT !.section = SectionNo(line.name)]
      ELSE [st EXCEPT !.section = 4, !.conf.rotater = TRUE,
                      !.conf.format = [name |-> "default", times |-> c.times],
                      !.conf.caches = @ + c.times,
                      !.conf.fsync = IF c.period # 0 /\ c.fsync >= c.period THEN 0 ELSE @]

GlobalLine(st, line) ==
  IF ~ line.ok THEN Refused(st, FALSE)
  ELSE CASE line.key = "strict init" -> [st EXCEPT !.conf.strict = line.value # "false"]
         [] line.key = "buffer min" -> [st EXCEPT !.conf.bufMin = line.value]
         [] line.key = "buffer max" -> [st EXCEPT !.conf.bufMax = line.value]
         [] line.key = "file perms" -> [st EXCEPT !.conf.perms = line.value]
         [] line.key = "default format" -> [st EXCEPT !.conf.times = line.value]
         [] line.key = "rotate lock file" ->
              [st EXCEPT !.conf.lock = IF line.value = "self" THEN "conf" ELSE line.value]
         [] line.key = "reload conf period" -> [st EXCEPT !.conf.period = line.value]
         [] line.key = "fsync period" -> [st EXCEPT !.conf.fsync = line.value]
         [] OTHER -> Refused(st, TRUE)

LevelLine(st, line) ==
  IF LevelLineGood(line) THEN [st EXCEPT !.conf.levels = LevelSet(@, line)] ELSE Refused(st, TRUE)

(* zlog_format_new; each %d takes the next time cache. *)
FormatLine(st, line) ==
  IF line.ok THEN [st EXCEPT !.conf.formats = Append(@, [name |-> line.name, times |-> line.times]),
                             !.conf.caches = @ + line.times]
  ELSE Refused(st, TRUE)

RuleLine(st, line) ==
  IF RuleGood(st.conf, line) THEN [st EXCEPT !.conf.rules = Append(@, RuleNew(st.conf, line))]
  ELSE Refused(st, TRUE)

ParseLine(st, line) ==
  IF st.rc # 0 THEN st
  ELSE CASE line.kind = "section" -> SectionLine(st, line)
         [] st.section = 1 -> GlobalLine(st, line)
         [] st.section = 2 -> LevelLine(st, line)
         [] st.section = 3 -> FormatLine(st, line)
         [] st.section = 4 -> RuleLine(st, line)
         [] OTHER -> Refused(st, FALSE)

(* zlog_conf_build_without_file: everything goes to the standard output.   *)
AnyRule == [kind |-> "rule", cat |-> <<"*">>, under |-> FALSE, cmp |-> "*", level |-> "*", format |-> "",
            out |-> "stdout", limit |-> 0, count |-> 0, mv |-> "", ok |-> TRUE, more |-> FALSE]
ConfNoFile ==
  LET c == [ConfDefault EXCEPT !.rotater = TRUE, !.caches = 1,
                               !.format = [name |-> "default", times |-> 1]]
  IN  [c EXCEPT !.rules = <<RuleNew(c, AnyRule)>>]

(* zlog_conf_build_with_file: blank lines and comments are dropped, also   *)
(* inside a continued line; a continuation the text ends in never counts.  *)
JoinLines(raw) ==
  FoldLeft(LAMBDA acc, l :
             IF l.kind = "blank" THEN acc
             ELSE LET head == IF acc.open = << >> THEN l ELSE acc.open[1]
                  IN  IF l.more THEN [acc EXCEPT !.open = <<head>>]
                      ELSE [open |-> << >>, lines |-> Append(acc.lines, head)],
           [open |-> << >>, lines |-> << >>], raw).lines

ConfNew(raw) == FoldLeft(ParseLine, [conf |-> ConfDefault, section |-> 0, rc |-> 0], JoinLines(raw))

ConfGood(raw) == ConfNew(raw).rc = 0
=============================================================================
