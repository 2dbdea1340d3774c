-------------------------------- MODULE Zlog -------------------------------
(***************************************************************************)
(* zlog inside the daemon: com/tls_log.c opens it, threads log to a        *)
(* category under the read lock of zlog_env_lock, a thread that finds the  *)
(* reload period reached reloads the configuration under the write lock,   *)
(* and a record that fills the log file makes its thread rotate the        *)
(* archives.  A second process (Rival) logs to the same files.             *)
(*                                                                         *)
(* Everything done under the write lock is one step.  The data of a record *)
(* is its number; a message is a number of units (Sizes).  Objects that    *)
(* are freed are told apart by the serial number of the conf they came     *)
(* from: a category whose rules are of another serial than the conf in use *)
(* points to freed memory.                                                 *)
(***************************************************************************)
EXTENDS ZlogConf, ZlogFiles

CONSTANTS Thread,      \* threads of the daemon that log
          Rival,       \* threads of another process that writes the same files
          Category,    \* the categories of the daemon, in hash table order
          Texts,       \* what the configuration file says, edit after edit
          LogLevels,   \* the levels the daemon logs at
          Sizes,       \* lengths of messages
          MaxRecords, MaxReloads, MaxTrouble

Loggers == Thread \cup Rival
NoText == 0
Nil == "nil"

VARIABLES env,         \* zlog_env_*: is_init, init_version, conf, reload_conf_count
          category,    \* zlog_env_categories
          app,         \* tls_log_t: "none", "up", "half" (no category), "down"
          text,        \* which of Texts the file holds now
          serial,      \* confs built so far
          tls,         \* each thread's zlog_thread_t
          pc, job,     \* where a logging thread is, and what it works on
          mutex,       \* holder of the rotater's lock_mutex, by process
          flock,       \* the process with the fcntl lock
          dir, file,   \* names of the files, and the records in each
          written,     \* the lengths of the records written so far
          late,        \* history: records written to a file no longer the log file
          gone,        \* history: files unlinked, with the archives there were
          crushed,     \* history: a rename replaced a file
          fault,       \* history: a logging call followed a freed or NULL pointer
          halfway,     \* history: an allocation failed while categories were updated
          trouble      \* failing calls and crashes so far

envVars  == <<env, category, app, text, serial>>
fileVars == <<dir, file, written, late, gone, crushed>>
lockVars == <<mutex, flock>>
sums     == <<fault, halfway, trouble>>
vars     == <<envVars, tls, pc, job, lockVars, fileVars, sums>>

(* The configurations, parsed once: [conf, section, rc]. *)
Built == [i \in DOMAIN Texts |-> ConfNew(Texts[i])]

NoConf == [serial |-> 0, text |-> NoText]
ConfOf(c) == Built[c.text].conf
Off == [init |-> FALSE, version |-> 0, conf |-> NoConf, count |-> 0]

NoThread == [version |-> 0, max |-> 0, caches |-> 0]

NoJob == [fit |-> << >>, level |-> 0, len |-> 0, fd |-> 0, plan |-> << >>, max |-> 0, count |-> 0,
          mv |-> "", rc |-> 0]

Init ==
  /\ env = Off /\ category = << >> /\ app = "none" /\ text = 1 /\ serial = 0
  /\ tls = [t \in Thread |-> NoThread]
  /\ pc = [t \in Loggers |-> "idle"] /\ job = [t \in Loggers |-> NoJob]
  /\ mutex = [p \in {"daemon", "rival"} |-> Nil] /\ flock = Nil
  /\ dir = << >> /\ file = << >> /\ written = << >> /\ late = {} /\ gone = {} /\ crushed = FALSE
  /\ fault = FALSE /\ halfway = FALSE /\ trouble = 0

Proc(t) == IF t \in Thread THEN "daemon" ELSE "rival"

(* The threads that hold the read lock. *)
Readers == {t \in Thread : pc[t] \notin {"idle", "lock", "reload"}}

(* Bounds: the records written or on their way, the failures and crashes.  *)
InRecords == Len(written) + Cardinality({t \in Loggers : pc[t] # "idle"}) < MaxRecords
Trouble == trouble < MaxTrouble /\ trouble' = trouble + 1

-----------------------------------------------------------------------------
(* A directory as the rules leave it: a rule for a file creates it.        *)
NewFile == Len(file) + 1
Created(c) ==
  IF Base \in DOMAIN dir \/ ~ \E r \in ToSet(c.rules) : r.how \in {"rotate", "single"}
  THEN <<dir, file>>
  ELSE <<[n \in DOMAIN dir \cup {Base} |-> IF n = Base THEN NewFile ELSE dir[n]], Append(file, << >>)>>

Open == IF Base \in DOMAIN dir THEN <<dir, file, dir[Base]>>
        ELSE <<[n \in DOMAIN dir \cup {Base} |-> IF n = Base THEN NewFile ELSE dir[n]],
               Append(file, << >>), NewFile>>

-----------------------------------------------------------------------------
(* A category: the rules it points to (positions, and the conf they belong *)
(* to), its bitmap, and the backups of both.                               *)
Fresh(name, conf) ==
  LET fit == FitRules(ConfOf(conf).rules, name)
  IN  [of |-> conf, fit |-> fit, bits |-> FitBits(ConfOf(conf).rules, fit),
       oldOf |-> NoConf, oldFit |-> << >>, oldBits |-> {}]

(* (slip: the bits of the old rules stay). *)
UpdateAdds(c, name, conf) ==
  [Fresh(name, conf) EXCEPT !.bits = @ \cup c.bits, !.oldOf = c.of, !.oldFit = c.fit, !.oldBits = c.bits]

(* zlog_category_update_rules: fit_rules go to the backup, then the new    *)
(* ones are obtained; if that fails fit_rules is NULL (serial 0) and the   *)
(* bitmap has the bits of the first k rules.                               *)
Update(c, name, conf) ==
  [Fresh(name, conf) EXCEPT !.oldOf = c.of, !.oldFit = c.fit, !.oldBits = c.bits]
UpdateFails(c, name, conf, k) ==
  LET new == Fresh(name, conf)
  IN  [of |-> NoConf, fit |-> << >>, bits |-> FitBits(ConfOf(conf).rules, SubSeq(new.fit, 1, k)),
       oldOf |-> c.of, oldFit |-> c.fit, oldBits |-> c.bits]
Commit(c) == IF c.oldOf = NoConf THEN c ELSE [c EXCEPT !.oldOf = NoConf, !.oldFit = << >>, !.oldBits = {}]

-----------------------------------------------------------------------------
(* tls_log_initialize: zlog_init, then the category.                       *)
ZlogInit ==
  /\ app = "none" /\ Readers = {} /\ ~ env.init /\ Built[text].rc = 0
  /\ serial' = serial + 1
  /\ env' = [init |-> TRUE, version |-> env.version + (IF env.version = 0 THEN 2 ELSE 1),
             conf |-> [serial |-> serial', text |-> text], count |-> env.count]
  /\ dir' = Created(Built[text].conf)[1] /\ file' = Created(Built[text].conf)[2]
  /\ \/ /\ category' = <<Fresh(Category[1], env'.conf)>>
        /\ app' = "up" /\ trouble' = trouble
     \/ /\ Trouble /\ category' = << >> /\ app' = "half"
  /\ UNCHANGED <<text, tls, pc, job, lockVars, written, late, gone, crushed, fault, halfway>>

(* zlog_get_category: another part of the daemon asks for its category.    *)
GetCategory ==
  /\ env.init /\ app = "up" /\ Readers = {} /\ Len(category) < Len(Category)
  /\ category' = Append(category, Fresh(Category[Len(category) + 1], env.conf))
  /\ UNCHANGED <<env, app, text, serial, tls, pc, job, lockVars, fileVars, sums>>

(* tls_log_initialize with a text zlog_init refuses: nothing stays.        *)
ZlogInitFails ==
  /\ app = "none" /\ Readers = {} /\ Built[text].rc # 0
  /\ app' = "down"
  /\ dir' = Created(Built[text].conf)[1] /\ file' = Created(Built[text].conf)[2]
  /\ UNCHANGED <<env, category, text, serial, tls, pc, job, lockVars, written, late, gone, crushed, sums>>

(* tls_log_uninitialize.  Without a category it returns before zlog_fini.  *)
ZlogFini ==
  /\ app = "up" /\ Readers = {}
  /\ app' = "down" /\ category' = << >>
  /\ env' = [env EXCEPT !.init = FALSE, !.conf = NoConf]
  /\ UNCHANGED <<text, serial, tls, pc, job, lockVars, fileVars, sums>>

Edit == /\ app = "up" /\ text < Len(Texts) /\ text' = text + 1
        /\ UNCHANGED <<env, category, app, serial, tls, pc, job, lockVars, fileVars, sums>>

-----------------------------------------------------------------------------
(* vzlog.  The level is looked up before the lock is taken.                *)
Needless(c, level) == level \notin category[c].bits

Log(t, level, len) ==
  /\ pc[t] = "idle" /\ InRecords /\ app = "up" /\ ~ Needless(1, level)
  /\ pc' = [pc EXCEPT ![t] = "lock"]
  /\ job' = [job EXCEPT ![t] = [NoJob EXCEPT !.level = level, !.len = len]]
  /\ UNCHANGED <<envVars, tls, lockVars, fileVars, sums>>

(* A call of zlog returns. *)
Leaves(t) == pc' = [pc EXCEPT ![t] = "idle"] /\ job' = [job EXCEPT ![t] = NoJob]

(* (slip: a thread keeps the buffers it was made with). *)
FetchThreadOnce(t) ==
  IF tls[t] # NoThread THEN tls[t]
  ELSE [version |-> env.version, max |-> ConfOf(env.conf).bufMax, caches |-> ConfOf(env.conf).caches]

(* zlog_fetch_thread: buffers and time caches are made for the conf in     *)
(* use, and again when the version says that the conf is another one.      *)
FetchThread(t) ==
  IF tls[t].version = env.version THEN tls[t]
  ELSE [version |-> env.version, max |-> ConfOf(env.conf).bufMax, caches |-> ConfOf(env.conf).caches]

(* zlog_category_output goes through the rules fit, of which the last one  *)
(* gave rc.  The message is made for every rule that lets the level        *)
(* through; one that does not fit the buffer makes the rule fail.  Only a  *)
(* rule that rotates takes more steps; the others are passed in this one.  *)
(* Behind the last rule vzlog returns, or first counts towards a reload.   *)
Rule(i) == ConfOf(env.conf).rules[i]
Fits(j, max) == j.len < max
Writes(i, j, max) == Lets(Rule(i), j.level) /\ Rule(i).how = "rotate" /\ Fits(j, max)

Onward(t, fit, rc, max) ==
  LET j     == job[t]
      stops == {k \in DOMAIN fit : Writes(fit[k], j, max)}
      r     == Rule(fit[Min(stops)])
      rest  == [NoJob EXCEPT !.fit = SubSeq(fit, Min(stops) + 1, Len(fit)), !.level = j.level, !.len = j.len,
                             !.max = r.limit, !.count = r.count, !.mv = r.mv]
      last  == IF fit = << >> THEN rc
               ELSE IF Lets(Rule(Last(fit)), j.level) /\ ~ Fits(j, max) THEN -1 ELSE 0
  IN  IF stops # {} THEN pc' = [pc EXCEPT ![t] = "open"] /\ job' = [job EXCEPT ![t] = rest]
      ELSE IF last = 0 /\ ConfOf(env.conf).period # 0
           THEN pc' = [pc EXCEPT ![t] = "count"] /\ job' = [job EXCEPT ![t] = NoJob]
           ELSE Leaves(t)

NextRule(t, rc) == IF t \in Rival THEN Leaves(t) ELSE Onward(t, job[t].fit, rc, tls[t].max)

Locked(t) ==
  /\ pc[t] = "lock" /\ env.init /\ category[1].of = env.conf
  /\ tls' = [tls EXCEPT ![t] = FetchThread(t)]
  /\ Onward(t, category[1].fit, 0, FetchThread(t).max)
  /\ UNCHANGED <<envVars, lockVars, fileVars, sums>>

LockedOff(t) ==
  /\ pc[t] = "lock" /\ ~ env.init
  /\ Leaves(t)
  /\ UNCHANGED <<envVars, tls, lockVars, fileVars, sums>>

(* A process ends: the kernel drops its fcntl lock, its memory is gone.    *)
Ends(p, down) ==
  /\ mutex' = [mutex EXCEPT ![p] = Nil] /\ flock' = IF flock = p THEN Nil ELSE flock
  /\ pc' = [t \in Loggers |-> IF Proc(t) = p THEN "idle" ELSE pc[t]]
  /\ job' = [t \in Loggers |-> IF Proc(t) = p THEN NoJob ELSE job[t]]
  /\ IF p = "rival" THEN UNCHANGED <<env, category, app, tls>>
     ELSE env' = Off /\ category' = << >> /\ app' = down /\ tls' = [t \in Thread |-> NoThread]
  /\ UNCHANGED <<text, serial, fileVars, halfway>>

(* The rules are freed memory or NULL: no outcome can be relied on; here   *)
(* the process dies of it and is not started again.                        *)
LockedFault(t) ==
  /\ pc[t] = "lock" /\ env.init /\ category[1].of # env.conf
  /\ fault' = TRUE /\ trouble' = trouble /\ Ends("daemon", "down")

Crash(p) == /\ Trouble /\ fault' = fault
            /\ \E t \in Loggers : Proc(t) = p /\ pc[t] # "idle"
            /\ Ends(p, "none")

(* The rival has the first text, which it never reloads. *)
RivalLogs(t, len) ==
  /\ pc[t] = "idle" /\ t \in Rival /\ InRecords
  /\ \E r \in ToSet(Built[1].conf.rules) :
       /\ r.how = "rotate"
       /\ job' = [job EXCEPT ![t] = [NoJob EXCEPT !.len = len, !.max = r.limit, !.count = r.count,
                                                  !.mv = r.mv]]
  /\ pc' = [pc EXCEPT ![t] = "open"]
  /\ UNCHANGED <<envVars, tls, lockVars, fileVars, sums>>

-----------------------------------------------------------------------------
(* zlog_rule_output_static_file_rotate. *)
OpenFile(t) ==
  /\ pc[t] = "open"
  /\ \/ /\ dir' = Open[1] /\ file' = Open[2]
        /\ job' = [job EXCEPT ![t].fd = Open[3]] /\ pc' = [pc EXCEPT ![t] = "write"]
        /\ trouble' = trouble
     \/ /\ Trouble /\ UNCHANGED <<dir, file>> /\ NextRule(t, -1)
  /\ UNCHANGED <<envVars, tls, lockVars, written, late, gone, crushed, fault, halfway>>

IsBase(f) == Base \in DOMAIN dir /\ dir[Base] = f

WriteFile(t) ==
  /\ pc[t] = "write"
  /\ written' = Append(written, job[t].len)
  /\ file' = [file EXCEPT ![job[t].fd] = Append(@, Len(written'))]
  /\ late' = IF IsBase(job[t].fd) THEN late ELSE late \cup {Len(written')}
  /\ pc' = [pc EXCEPT ![t] = "stat"]
  /\ UNCHANGED <<envVars, tls, job, lockVars, dir, gone, crushed, sums>>

WriteFails(t) ==
  /\ pc[t] = "write" /\ Trouble /\ NextRule(t, -1)
  /\ UNCHANGED <<envVars, tls, lockVars, fileVars, fault, halfway>>

Size(f) == FoldLeft(LAMBDA sum, r : sum + written[r], 0, file[f])

StatFile(t) ==
  /\ pc[t] = "stat"
  /\ IF job[t].len > job[t].max \/ Base \notin DOMAIN dir
        \/ (Base \in DOMAIN dir /\ Size(dir[Base]) + job[t].len < job[t].max)
     THEN NextRule(t, 0)
     ELSE pc' = [pc EXCEPT ![t] = "trylock"] /\ job' = job
  /\ UNCHANGED <<envVars, tls, lockVars, fileVars, sums>>

(* (slip: the lock of the process alone). *)
TryLockMutex(t) ==
  /\ pc[t] = "trylock"
  /\ IF mutex[Proc(t)] = Nil
     THEN /\ mutex' = [mutex EXCEPT ![Proc(t)] = t] /\ flock' = Proc(t)
          /\ pc' = [pc EXCEPT ![t] = "look"] /\ job' = job
     ELSE UNCHANGED lockVars /\ NextRule(t, 0)
  /\ UNCHANGED <<envVars, tls, fileVars, sums>>

(* zlog_rotater_trylock: the mutex of the process, then the fcntl lock.    *)
TryLock(t) ==
  /\ pc[t] = "trylock"
  /\ IF mutex[Proc(t)] = Nil /\ flock \in {Nil, Proc(t)}
     THEN /\ mutex' = [mutex EXCEPT ![Proc(t)] = t] /\ flock' = Proc(t)
          /\ pc' = [pc EXCEPT ![t] = "look"] /\ job' = job
     ELSE UNCHANGED lockVars /\ NextRule(t, 0)
  /\ UNCHANGED <<envVars, tls, fileVars, sums>>

(* zlog_rotater_rotate under the locks; what lsmv will do is settled here. *)
Look(t) ==
  /\ pc[t] = "look"
  /\ pc' = [pc EXCEPT ![t] = "move"]
  /\ job' = IF Base \notin DOMAIN dir THEN [job EXCEPT ![t].rc = -1]
            ELSE IF Size(dir[Base]) + job[t].len <= job[t].max THEN job
            ELSE [job EXCEPT ![t].plan = Plan(dir, job[t].mv, job[t].count)]
  /\ UNCHANGED <<envVars, tls, lockVars, fileVars, sums>>

Oldest(n, mv) == \A m \in DOMAIN dir \ {Base} : IF mv = "r" THEN m <= n ELSE m >= n

Move(t) ==
  /\ pc[t] = "move" /\ job[t].plan # << >>
  /\ LET s == Head(job[t].plan)
     IN  /\ Possible(dir, s)
         /\ dir' = Apply(dir, s)
         /\ crushed' = (crushed \/ Overwrites(dir, s))
         /\ gone' = IF s.op # "unlink" THEN gone
                    ELSE gone \cup {[file |-> dir[s.from], oldest |-> Oldest(s.from, job[t].mv),
                                     archives |-> Cardinality(DOMAIN dir \ {Base})]}
  /\ job' = [job EXCEPT ![t].plan = Tail(@)]
  /\ UNCHANGED <<envVars, tls, pc, lockVars, file, written, late, sums>>

(* A call fails: the rest of the plan is given up. *)
MoveFails(t) ==
  /\ pc[t] = "move" /\ job[t].plan # << >>
  /\ \/ ~ Possible(dir, Head(job[t].plan)) /\ trouble' = trouble
     \/ Trouble
  /\ job' = [job EXCEPT ![t].plan = << >>, ![t].rc = -1]
  /\ UNCHANGED <<envVars, tls, pc, lockVars, fileVars, fault, halfway>>

Unlocked(t) ==
  /\ pc[t] = "move" /\ job[t].plan = << >>
  /\ mutex' = [mutex EXCEPT ![Proc(t)] = Nil] /\ flock' = Nil
  /\ NextRule(t, job[t].rc)
  /\ UNCHANGED <<envVars, tls, fileVars, sums>>

-----------------------------------------------------------------------------
(* The end of vzlog: ++zlog_env_reload_conf_count under a lock that others *)
(* hold too, so the value read may be old when the sum is stored.          *)
Count(t) ==
  /\ pc[t] = "count" /\ job[t] = NoJob
  /\ job' = [job EXCEPT ![t].count = env.count + 1]
  /\ UNCHANGED <<envVars, tls, pc, lockVars, fileVars, sums>>

Counted(t) ==
  /\ pc[t] = "count" /\ job[t] # NoJob
  /\ env' = [env EXCEPT !.count = job[t].count]
  /\ pc' = [pc EXCEPT ![t] = IF job[t].count > ConfOf(env.conf).period THEN "reload" ELSE "idle"]
  /\ job' = [job EXCEPT ![t] = NoJob]
  /\ UNCHANGED <<category, app, text, serial, tls, lockVars, fileVars, sums>>

(* zlog_reload((char * ) -1). *)
Due == env.init /\ env.count > ConfOf(env.conf).period

Reloads(t) == pc[t] = "reload" /\ Readers = {} /\ pc' = [pc EXCEPT ![t] = "idle"]

ReloadQuits(t) ==
  /\ Reloads(t) /\ ~ Due
  /\ UNCHANGED <<envVars, tls, job, lockVars, fileVars, sums>>

(* The new text is refused: the old conf stays. *)
ReloadRefused(t) ==
  /\ Reloads(t) /\ Due /\ Built[text].rc # 0
  /\ env' = [env EXCEPT !.count = 0]
  /\ dir' = Created(Built[text].conf)[1] /\ file' = Created(Built[text].conf)[2]
  /\ UNCHANGED <<category, app, text, serial, tls, job, lockVars, written, late, gone, crushed, sums>>

NewConf == [serial |-> serial + 1, text |-> text]

Reload(t) ==
  /\ Reloads(t) /\ Due /\ Built[text].rc = 0 /\ serial < MaxReloads
  /\ serial' = serial + 1
  /\ env' = [env EXCEPT !.count = 0, !.version = @ + 1, !.conf = NewConf]
  /\ category' = [i \in DOMAIN category |-> Commit(Update(category[i], Category[i], NewConf))]
  /\ dir' = Created(Built[text].conf)[1] /\ file' = Created(Built[text].conf)[2]
  /\ UNCHANGED <<app, text, tls, job, lockVars, written, late, gone, crushed, sums>>

(* An allocation fails at category j, after k of its rules: the new conf   *)
(* is freed, and as c_up is 0 nothing is rolled back.                      *)
ReloadBreaks(t) ==
  /\ Reloads(t) /\ Due /\ Built[text].rc = 0 /\ serial < MaxReloads /\ Trouble
  /\ serial' = serial + 1 /\ halfway' = TRUE
  /\ env' = [env EXCEPT !.count = 0]
  /\ \E j \in DOMAIN category : \E k \in 0 .. Len(Fresh(Category[j], NewConf).fit) :
       category' = [i \in DOMAIN category |->
                      IF i < j THEN Update(category[i], Category[i], NewConf)
                      ELSE IF i = j THEN UpdateFails(category[i], Category[i], NewConf, k)
                      ELSE category[i]]
  /\ dir' = Created(Built[text].conf)[1] /\ file' = Created(Built[text].conf)[2]
  /\ UNCHANGED <<app, text, tls, job, lockVars, written, late, gone, crushed, fault>>

-----------------------------------------------------------------------------
Call(t) == \/ \E level \in LogLevels, len \in Sizes : Log(t, level, len)
           \/ Locked(t) \/ LockedOff(t) \/ LockedFault(t)
           \/ Count(t) \/ Counted(t)
           \/ ReloadQuits(t) \/ ReloadRefused(t) \/ Reload(t) \/ ReloadBreaks(t)

WriteOut(t) == \/ OpenFile(t) \/ WriteFile(t) \/ WriteFails(t) \/ StatFile(t)
               \/ TryLock(t) \/ Look(t) \/ Move(t) \/ MoveFails(t) \/ Unlocked(t)

Next == \/ ZlogInit \/ GetCategory \/ ZlogInitFails \/ ZlogFini \/ Edit
        \/ \E t \in Thread : Call(t)
        \/ \E t \in Loggers : WriteOut(t)
        \/ \E t \in Rival : RivalLogs(t, 1)
        \/ \E p \in {"daemon", "rival"} : Crash(p)

Spec == Init /\ [][Next]_vars

-----------------------------------------------------------------------------
TypeOK ==
  /\ env.conf.text \in 0 .. Len(Texts) /\ app \in {"none", "up", "half", "down"}
  /\ Len(category) <= Len(Category)
  /\ \A t \in Loggers : pc[t] \in {"idle", "lock", "open", "write", "stat", "trylock",
                                   "look", "move", "count", "reload"}
  /\ \A n \in DOMAIN dir : dir[n] \in DOMAIN file

(* What the threads work with under the lock belongs to the conf in use:   *)
(* their buffers and time caches were made for it.                         *)
ThreadsCurrent ==
  \A t \in Readers : /\ env.init /\ category # << >>
                     /\ tls[t] = [version |-> env.version, max |-> ConfOf(env.conf).bufMax,
                                  caches |-> ConfOf(env.conf).caches]

(* Every category points to rules of the conf in use, and exactly to those *)
(* that match it; its bitmap lets a level through when one of them does.   *)
(* Only an allocation that fails in the middle of an update breaks this.   *)
CategoriesLive ==
  \/ halfway
  \/ /\ ~ fault
     /\ \A i \in DOMAIN category :
          LET c == category[i]  rules == ConfOf(env.conf).rules
              match == {k \in DOMAIN rules : MatchCategory(rules[k], Category[i])}
          IN  /\ c.of = env.conf
              /\ match # {} => ToSet(c.fit) = match
              /\ \A l \in Levels : l \in c.bits <=> \E k \in ToSet(c.fit) : Lets(rules[k], l)

(* The logging environment: no call of zlog works with freed rules, with   *)
(* buffers of another configuration or with a stale level bitmap, whatever *)
(* reload, shutdown and configuration errors happen around it              *)
(* (zlog.c:211-298, 417-454, category.c:148-217).                          *)
EnvSound == TypeOK /\ ThreadsCurrent /\ CategoriesLive

-----------------------------------------------------------------------------
Linked == {dir[n] : n \in DOMAIN dir}
Unlinked == {g.file : g \in gone}

(* The limit of the rule, which all texts agree on. *)
Limit == (CHOOSE r \in ToSet(Built[1].conf.rules) : r.how = "rotate").count
Kind == (CHOOSE r \in ToSet(Built[1].conf.rules) : r.how = "rotate").mv

(* No record is lost but by the limit on archives: a rename never lands on *)
(* another archive, what is unlinked is the oldest, at the limit.          *)
NothingCrushed ==
  /\ ~ crushed
  /\ Linked \cup Unlinked = DOMAIN file
  /\ \A g \in gone : g.oldest /\ g.archives >= Limit

ArchivesBounded ==
  Cardinality(DOMAIN dir \ {Base}) <= Limit + (IF Kind = "s" THEN 1 ELSE 0)

(* A file holds later records than an older archive; a record written      *)
(* through a descriptor opened before its file was moved may be late.      *)
Newer(n, m) == CASE n = Base -> TRUE [] m = Base -> FALSE
                 [] OTHER -> IF Kind = "r" THEN n < m ELSE n > m
InOrder ==
  \A n, m \in DOMAIN dir : n # m /\ Newer(n, m) =>
    \A a \in ToSet(file[dir[n]]), b \in ToSet(file[dir[m]]) : a > b \/ b \in late

(* The log files: whatever two threads, another process, failing calls and *)
(* crashes between two renames do, records are kept in order up to the     *)
(* limit of archives (rotater.c:181-345, 469-573, rule.c:160-219).         *)
LogsKept == NothingCrushed /\ ArchivesBounded /\ InOrder
=============================================================================
