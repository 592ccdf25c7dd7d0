------------------------------ MODULE DeployProofs ------------------------------
(* What scripts/deploy_react.py says is true of the host: after REVERTED the     *)
(* modules and the build are those before it began, after DEPLOYED those it was  *)
(* given, whatever fails, and whatever systemd starts again in between. And what  *)
(* scripts/deploy_all.py restarts runs no mixture of old and new. The commands of *)
(* the scripts come first, then the scripts, then the steps.                     *)
EXTENDS HostDeploy, WellFoundedInduction, TLAPS

----------------------------------------------------------------------------
(* The host and the command of the operator, as sets of records.             *)

Backup == [by : {"ship", "react"}, api : Int, dist : Int, restored : BOOLEAN]

Process == [up : BOOLEAN, core : Int, api : Int, deps : Int]

Host ==
  [disk : [Shipped -> Int], dist : Int, venv : Int, linked : BOOLEAN,
   db : [has : SUBSET Int, stamp : Int], run : [Services -> Process], backups : Seq(Backup)]

Plan == [changed : SUBSET Shipped, migration : BOOLEAN, linked : BOOLEAN]

Told ==
  [name : {None, "all", "ship", "react", "rollback"},
   flags : [deps : BOOLEAN, migrate : BOOLEAN, restart : SUBSET Services], plan : Plan,
   repo : [Parts -> Int], day : BOOLEAN, ui : BOOLEAN, kept : BOOLEAN,
   before : [api : Int, dist : Int]]

\* The commands the scripts of ship_host.py are made of, and the start of a service.
Plain ==
  ({"write"} \X Shipped) \cup ({"stop", "start"} \X Services)
    \cup {<<"keep", "ship">>, <<"pip">>, <<"link">>, <<"upgrade">>}

\* The newest backup is not restored yet, and holds what before says.
Undoable(host, before) ==
  /\ Newest(host) > 0
  /\ LET kept == host.backups[Newest(host)]
     IN  /\ ~ kept.restored /\ kept.api = before.api
         /\ kept.dist # NoBuild => kept.dist = before.dist

\* The build and the modules are those of the commit c was given, and run.
Served(host, c) ==
  /\ host.dist = c.repo.ui
  /\ host.disk.api = c.repo.api
  /\ host.linked => host.run.api.up /\ host.run.api.api = c.repo.api

----------------------------------------------------------------------------
(* Services.                                                                 *)

LEMMA ImageType ==
  ASSUME NEW host \in Host
  PROVE  Image(host) \in Process /\ Image(host).up
         /\ (host.linked => Image(host).api = host.disk.api)
<1>1. "api" \in Shipped /\ "core" \in Shipped
  BY DEF Shipped, Parts
<1>2. host.disk.api \in Int /\ host.disk.core \in Int /\ host.venv \in Int
  BY <1>1 DEF Host
<1> QED BY <1>2 DEF Image, Process

\* A start changes what the service runs, and the worker's the database: nothing else.
LEMMA StartHost ==
  ASSUME NEW host \in Host, NEW s \in Services
  PROVE  /\ Start(host, s) \in Host
         /\ Start(host, s).disk = host.disk /\ Start(host, s).dist = host.dist
         /\ Start(host, s).linked = host.linked /\ Start(host, s).backups = host.backups
         /\ s = "api" => Start(host, s).run.api = Image(host)
         /\ s = "worker" => Start(host, s).run.api = host.run.api
<1>1. Image(host) \in Process /\ Down \in Process
  BY ImageType DEF Process, Down
<1>2. CreateSchema(host) \in [has : SUBSET Int, stamp : Int]
  <2>1. "schema" \in Shipped
    BY DEF Shipped, Parts
  <2>2. host.disk.schema \in Int /\ host.db.has \in SUBSET Int
    BY <2>1 DEF Host
  <2>3. 1 .. host.disk.schema \in SUBSET Int
    BY <2>2
  <2> QED BY <2>2, <2>3 DEF CreateSchema
<1>3. host.run \in [Services -> Process] /\ "api" \in Services /\ "worker" \in Services
  BY DEF Host, Services
<1>4. CASE s = "api"
  <2>1. Start(host, s) = [host EXCEPT !.run = [host.run EXCEPT !["api"] = Image(host)]]
    BY <1>4 DEF Start, Host
  <2> QED BY <2>1, <1>1, <1>3, <1>4 DEF Host
<1>5. CASE s = "worker" /\ ~ host.linked
  <2>1. Start(host, s) = [host EXCEPT !.run = [host.run EXCEPT !["worker"] = Down]]
    BY <1>5 DEF Start, Host
  <2> QED BY <2>1, <1>1, <1>3, <1>5 DEF Host
<1>6. CASE s = "worker" /\ host.linked
  <2>1. PICK run \in [Services -> Process] : run = [host.run EXCEPT !["worker"] = Image(host)]
    BY <1>1, <1>3
  <2>2. PICK db \in [has : SUBSET Int, stamp : Int] : db = CreateSchema(host)
    BY <1>2
  <2>3. Start(host, s) = [host EXCEPT !.run = run, !.db = db]
    BY <1>6, <2>1, <2>2 DEF Start, Host
  <2>4. run.api = host.run.api
    BY <2>1, <1>3
  <2> QED BY <2>3, <2>4, <1>6 DEF Host
<1> QED BY <1>4, <1>5, <1>6 DEF Services

----------------------------------------------------------------------------
(* The commands.                                                             *)

LEMMA ShipCommands ==
  ASSUME NEW host, NEW c, NEW x
  PROVE  /\ Command(host, c, <<"write", x>>) = Write(host, c, x)
         /\ Command(host, c, <<"keep", x>>) = Keep(host, x)
         /\ Command(host, c, <<"pip">>) = Pip(host)
         /\ Command(host, c, <<"link">>) = Link(host)
         /\ Command(host, c, <<"upgrade">>) = Upgrade(host)
         /\ Command(host, c, <<"stop", x>>) = Stop(host, x)
         /\ Command(host, c, <<"start", x>>) = Start(host, x)
BY DEF Command

LEMMA ReactCommands ==
  ASSUME NEW host, NEW c
  PROVE  /\ Command(host, c, <<"keepdist">>) = KeepDist(host)
         /\ Command(host, c, <<"putdist">>) = PutDist(host, c)
         /\ Command(host, c, <<"backapi">>) = BackApi(host)
         /\ Command(host, c, <<"backdist">>) = BackDist(host)
         /\ Command(host, c, <<"mark">>) = Mark(host)
<1>1. ASSUME NEW do, do[1] \in {"keepdist", "putdist", "backapi", "backdist", "mark"}
      PROVE  Command(host, c, do) = ReactCommand(host, c, do)
  BY <1>1 DEF Command
<1>2. /\ ReactCommand(host, c, <<"keepdist">>) = KeepDist(host)
         /\ ReactCommand(host, c, <<"putdist">>) = PutDist(host, c)
         /\ ReactCommand(host, c, <<"backapi">>) = BackApi(host)
         /\ ReactCommand(host, c, <<"backdist">>) = BackDist(host)
         /\ ReactCommand(host, c, <<"mark">>) = Mark(host)
  BY DEF ReactCommand
<1> QED BY <1>1, <1>2

LEMMA WriteHost ==
  ASSUME NEW host \in Host, NEW c \in Told, NEW p \in Shipped
  PROVE  LET x == Write(host, c, p)
         IN  /\ x \in Host /\ x.disk[p] = c.repo[p]
             /\ x.dist = host.dist /\ x.linked = host.linked /\ x.backups = host.backups
<1>1. c.repo[p] \in Int
  BY DEF Told, Shipped
<1>2. PICK disk \in [Shipped -> Int] : disk = [host.disk EXCEPT ![p] = c.repo[p]]
  BY <1>1 DEF Host
<1>3. Write(host, c, p) = [host EXCEPT !.disk = disk]
  BY <1>2 DEF Write, Host
<1>4. disk[p] = c.repo[p]
  BY <1>2 DEF Host
<1> QED BY <1>3, <1>4 DEF Host

\* What is kept is the module on disk; the build comes by another command.
LEMMA KeepHost ==
  ASSUME NEW host \in Host, NEW by \in {"ship", "react"}, NEW before,
         before.api = host.disk.api
  PROVE  LET x == Keep(host, by)
         IN  /\ x \in Host /\ Newest(x) = Newest(host) + 1 /\ Undoable(x, before)
             /\ x.disk = host.disk /\ x.dist = host.dist /\ x.linked = host.linked
<1> DEFINE new == [by |-> by, api |-> host.disk.api, dist |-> NoBuild, restored |-> FALSE]
<1>1. host.backups \in Seq(Backup) /\ host.disk.api \in Int
  BY DEF Host, Shipped, Parts
<1>2. new \in Backup
  BY <1>1 DEF Backup, NoBuild
<1> HIDE DEF new
<1>3. PICK backups \in Seq(Backup) : backups = Append(host.backups, new)
  <2>1. Append(host.backups, new) \in Seq(Backup)
    BY <1>1, <1>2, SMT
  <2> QED BY <2>1, Zenon
<1>4. Len(backups) = Len(host.backups) + 1 /\ backups[Len(backups)] = new
      /\ Len(host.backups) \in Nat
  BY <1>1, <1>2, <1>3
<1>5. Keep(host, by) = [host EXCEPT !.backups = backups]
  BY <1>3 DEF Keep, Host, new
<1>6. Keep(host, by) \in Host /\ Keep(host, by).backups = backups
      /\ Keep(host, by).disk = host.disk /\ Keep(host, by).dist = host.dist
      /\ Keep(host, by).linked = host.linked
  BY <1>5 DEF Host
<1> QED BY <1>4, <1>6 DEF Undoable, Newest, new

LEMMA PlainKeepsHost ==
  ASSUME NEW host \in Host, NEW c \in Told, NEW do \in Plain
  PROVE  Command(host, c, do) \in Host
<1>1. CASE do \in {"write"} \X Shipped
  <2>1. PICK p \in Shipped : do = <<"write", p>>
    BY <1>1
  <2>2. Command(host, c, do) = Write(host, c, p)
    BY <2>1, ShipCommands
  <2> QED BY <2>2, WriteHost
<1>2. CASE do = <<"keep", "ship">>
  <2>1. Command(host, c, do) = Keep(host, "ship")
    BY <1>2, ShipCommands
  <2>2. "ship" \in {"ship", "react"}
    OBVIOUS
  <2>3. [api |-> host.disk.api].api = host.disk.api
    OBVIOUS
  <2> QED BY <2>1, <2>2, <2>3, KeepHost
<1>3. CASE do = <<"pip">>
  <2>1. host.disk.deps \in Int
    BY DEF Host, Shipped, Parts
  <2>2. Command(host, c, do) = [host EXCEPT !.venv = host.disk.deps]
    BY <1>3, ShipCommands DEF Pip
  <2> QED BY <2>1, <2>2 DEF Host
<1>4. CASE do = <<"link">>
  <2>1. Command(host, c, do) = [host EXCEPT !.linked = TRUE]
    BY <1>4, ShipCommands DEF Link
  <2> QED BY <2>1 DEF Host
<1>5. CASE do = <<"upgrade">>
  <2>1. host.disk.schema \in Int /\ host.db.stamp \in Int /\ host.db.has \in SUBSET Int
    BY DEF Host, Shipped, Parts
  <2>2. (host.db.stamp + 1 .. host.disk.schema) \in SUBSET Int
    BY <2>1
  <2>3. PICK db \in [has : SUBSET Int, stamp : Int] :
          db = [has |-> host.db.has \cup (host.db.stamp + 1 .. host.disk.schema),
                stamp |-> host.disk.schema]
    BY <2>1, <2>2
  <2>4. Command(host, c, do) = [host EXCEPT !.db = db]
    BY <1>5, <2>3, ShipCommands DEF Upgrade, Host
  <2> QED BY <2>4 DEF Host
<1>6. CASE do \in {"stop"} \X Services
  <2>1. PICK s \in Services : do = <<"stop", s>>
    BY <1>6
  <2>2. Down \in Process
    BY DEF Down, Process
  <2>3. PICK run \in [Services -> Process] : run = [host.run EXCEPT ![s] = Down]
    BY <2>2 DEF Host
  <2>4. Command(host, c, do) = [host EXCEPT !.run = run]
    BY <2>1, <2>3, ShipCommands DEF Stop, Host
  <2> QED BY <2>4 DEF Host
<1>7. CASE do \in {"start"} \X Services
  <2>1. PICK s \in Services : do = <<"start", s>>
    BY <1>7
  <2>2. Command(host, c, do) = Start(host, s)
    BY <2>1, ShipCommands
  <2> QED BY <2>2, StartHost
<1> QED BY <1>1, <1>2, <1>3, <1>4, <1>5, <1>6, <1>7 DEF Plain

LEMMA PlainScriptKeepsHost ==
  ASSUME NEW host \in Host, NEW c \in Told, NEW script \in Seq(Plain), NEW n \in 0 .. Len(script)
  PROVE  Ran(host, c, script, n) \in Host
<1> DEFINE After(x, i) == IF i <= n THEN Command(x, c, script[i]) ELSE x
<1>1. ASSUME NEW x \in Host, NEW i \in 1 .. 5
      PROVE  After(x, i) \in Host
  <2>1. i <= n => script[i] \in Plain
    OBVIOUS
  <2> QED BY <2>1, PlainKeepsHost
<1>2. Ran(host, c, script, n) = After(After(After(After(After(host, 1), 2), 3), 4), 5)
  BY DEF Ran
<1>3. 1 \in 1 .. 5 /\ 2 \in 1 .. 5 /\ 3 \in 1 .. 5 /\ 4 \in 1 .. 5 /\ 5 \in 1 .. 5
  OBVIOUS
<1> HIDE DEF After
<1>4. After(host, 1) \in Host BY <1>1, <1>3
<1>5. After(After(host, 1), 2) \in Host BY <1>1, <1>3, <1>4
<1>6. After(After(After(host, 1), 2), 3) \in Host BY <1>1, <1>3, <1>5
<1>7. After(After(After(After(host, 1), 2), 3), 4) \in Host BY <1>1, <1>3, <1>6
<1> QED BY <1>1, <1>2, <1>3, <1>7

\* The scripts of ship_host.py are made of such commands.
LEMMA ShipScripts ==
  ASSUME NEW plan \in Plan, NEW services \in SUBSET Services
  PROVE  /\ InstallScript(plan) \in Seq(Plain) /\ MigrateScript \in Seq(Plain)
         /\ RestartScript(services) \in Seq(Plain)
         /\ <<<<"pip">>>> \in Seq(Plain) /\ <<<<"link">>>> \in Seq(Plain)
<1>1. \A p \in Shipped : <<"write", p>> \in Plain
  BY DEF Plain
<1>2. \A s \in Services : <<"start", s>> \in Plain /\ <<"stop", s>> \in Plain
  BY DEF Plain
<1>3. <<"keep", "ship">> \in Plain /\ <<"pip">> \in Plain /\ <<"link">> \in Plain
      /\ <<"upgrade">> \in Plain
  BY DEF Plain
<1>4. {"schema", "deps", "api", "core"} \subseteq Shipped
  BY DEF Shipped, Parts
<1>5. InstallScript(plan) \in Seq(Plain)
  <2> DEFINE Written(p) == IF p \in plan.changed THEN <<<<"write", p>>>> ELSE <<>>
  <2>1. ASSUME NEW p \in Shipped
        PROVE  Written(p) \in Seq(Plain)
    <3>1. <<<<"write", p>>>> \in Seq(Plain)
      BY <1>1
    <3>2. <<>> \in Seq(Plain)
      OBVIOUS
    <3> QED BY <3>1, <3>2, Zenon
  <2>2. <<<<"keep", "ship">>>> \in Seq(Plain)
    BY <1>3
  <2>3. InstallScript(plan) = <<<<"keep", "ship">>>> \o Written("schema") \o Written("deps")
                                \o Written("api") \o Written("core")
    BY DEF InstallScript
  <2> HIDE DEF Written
  <2> QED BY <2>1, <2>2, <2>3, <1>4
<1>6. RestartScript(services) \in Seq(Plain)
  <2> DEFINE Started(s) == IF s \in services THEN <<<<"start", s>>>> ELSE <<>>
  <2>1. ASSUME NEW s \in Services
        PROVE  Started(s) \in Seq(Plain)
    <3>1. <<"start", s>> \in Plain
      BY <1>2
    <3>3. <<<<"start", s>>>> \in Seq(Plain)
      BY <3>1
    <3>2. <<>> \in Seq(Plain)
      OBVIOUS
    <3> QED BY <3>2, <3>3, Zenon
  <2>2. RestartScript(services) = Started("api") \o Started("worker")
    BY DEF RestartScript
  <2> HIDE DEF Started
  <2> QED BY <2>1, <2>2 DEF Services
<1>7. MigrateScript \in Seq(Plain)
  BY <1>2, <1>3 DEF MigrateScript, Services
<1> QED BY <1>3, <1>5, <1>6, <1>7

----------------------------------------------------------------------------
(* The scripts of deploy_react.py.                                           *)

\* Once the modules are kept, the build is moved beside them.
LEMMA KeepDistHost ==
  ASSUME NEW host \in Host, NEW before, Undoable(host, before), before.dist = host.dist
  PROVE  LET x == KeepDist(host)
         IN  /\ x \in Host /\ Newest(x) = Newest(host) /\ Undoable(x, before)
             /\ x.disk = host.disk /\ x.linked = host.linked
<1> DEFINE n == Len(host.backups)
           moved == [host.backups[n] EXCEPT !.dist = host.dist]
<1>1. host.backups \in Seq(Backup) /\ host.dist \in Int /\ n \in Nat /\ n > 0
  BY DEF Host, Undoable, Newest
<1>2. n \in 1 .. n /\ host.backups[n] \in Backup
  BY <1>1
<1>3. moved \in Backup /\ moved.dist = host.dist /\ moved.api = host.backups[n].api
      /\ moved.restored = host.backups[n].restored
  BY <1>1, <1>2 DEF Backup
<1> HIDE DEF moved
<1>4. PICK backups : backups = [host.backups EXCEPT ![n] = moved]
  OBVIOUS
<1>5. backups \in Seq(Backup) /\ Len(backups) = n /\ backups[n] = moved
  BY <1>1, <1>2, <1>3, <1>4
<1>6. KeepDist(host) = [host EXCEPT !.backups = backups, !.dist = NoBuild]
  BY <1>4 DEF KeepDist, Newest, Host, moved
<1>7. KeepDist(host) \in Host /\ KeepDist(host).backups = backups
      /\ KeepDist(host).disk = host.disk /\ KeepDist(host).linked = host.linked
  <2>1. NoBuild \in Int
    BY DEF NoBuild
  <2> QED BY <1>5, <1>6, <2>1 DEF Host
<1> QED BY <1>1, <1>3, <1>5, <1>7 DEF Undoable, Newest

LEMMA PutDistHost ==
  ASSUME NEW host \in Host, NEW c \in Told
  PROVE  LET x == PutDist(host, c)
         IN  /\ x \in Host /\ x.dist = c.repo.ui
             /\ x.disk = host.disk /\ x.linked = host.linked /\ x.backups = host.backups
<1>1. c.repo.ui \in Int
  BY DEF Told, Parts
<1> QED BY <1>1 DEF PutDist, Host

\* The swap, as far as it ran: the host can be put back once something was kept,
\* and serves what it was given when all of it ran.
LEMMA ReactRuns ==
  ASSUME NEW host \in Host, NEW c \in Told, NEW before,
         before.api = host.disk.api, before.dist = host.dist,
         NEW n \in 0 .. Len(ReactScript)
  PROVE  LET x == Ran(host, c, ReactScript, n)
         IN  /\ x \in Host
             /\ Newest(x) > Newest(host) => Undoable(x, before)
             /\ n = Len(ReactScript) => Newest(x) > Newest(host) /\ Served(x, c)
<1> DEFINE h1 == Keep(host, "react")
           h2 == KeepDist(h1)
           h3 == Write(h2, c, "api")
           h4 == PutDist(h3, c)
           h5 == Start(h4, "api")
<1>1. Newest(host) \in Nat
  BY DEF Newest, Host
<1>2. /\ h1 \in Host /\ Newest(h1) = Newest(host) + 1 /\ Undoable(h1, before)
      /\ before.dist = h1.dist
  BY KeepHost
<1> HIDE DEF h1
<1>3. h2 \in Host /\ Newest(h2) = Newest(host) + 1 /\ Undoable(h2, before)
  BY <1>2, KeepDistHost
<1> HIDE DEF h2
<1>4. /\ h3 \in Host /\ Newest(h3) = Newest(host) + 1 /\ Undoable(h3, before)
      /\ h3.disk.api = c.repo.api
  BY <1>3, WriteHost DEF Undoable, Newest, Shipped, Parts
<1> HIDE DEF h3
<1>5. /\ h4 \in Host /\ Newest(h4) = Newest(host) + 1 /\ Undoable(h4, before)
      /\ h4.disk.api = c.repo.api /\ h4.dist = c.repo.ui
  BY <1>4, PutDistHost DEF Undoable, Newest
<1> HIDE DEF h4
<1>6. /\ h5 \in Host /\ Newest(h5) = Newest(host) + 1 /\ Undoable(h5, before)
      /\ Served(h5, c)
  <2>1. "api" \in Services
    BY DEF Services
  <2>2. /\ h5 \in Host /\ h5.disk = h4.disk /\ h5.dist = h4.dist
        /\ h5.linked = h4.linked /\ h5.backups = h4.backups /\ h5.run.api = Image(h4)
    BY <1>5, <2>1, StartHost
  <2>3. Image(h4).up /\ (h4.linked => Image(h4).api = h4.disk.api)
    BY <1>5, ImageType
  <2> HIDE DEF h5
  <2> QED BY <1>5, <2>2, <2>3 DEF Undoable, Newest, Served
<1> HIDE DEF h5
<1>7. /\ n = 0 => Ran(host, c, ReactScript, n) = host
      /\ n = 1 => Ran(host, c, ReactScript, n) = h1
      /\ n = 2 => Ran(host, c, ReactScript, n) = h2
      /\ n = 3 => Ran(host, c, ReactScript, n) = h3
      /\ n = 4 => Ran(host, c, ReactScript, n) = h4
      /\ n = 5 => Ran(host, c, ReactScript, n) = h5
  <2>1. /\ Command(host, c, ReactScript[1]) = h1 /\ Command(h1, c, ReactScript[2]) = h2
        /\ Command(h2, c, ReactScript[3]) = h3 /\ Command(h3, c, ReactScript[4]) = h4
        /\ Command(h4, c, ReactScript[5]) = h5
    BY ShipCommands, ReactCommands DEF ReactScript, h1, h2, h3, h4, h5
  <2> QED BY <2>1 DEF Ran
<1>8. Len(ReactScript) = 5
  BY DEF ReactScript
<1>9. n \in {0, 1, 2, 3, 4, 5}
  BY <1>8
<1> QED BY <1>1, <1>2, <1>3, <1>4, <1>5, <1>6, <1>7, <1>8, <1>9

\* The newest backup that is left is one of the host's.
LEMMA UnrestoredIs ==
  ASSUME NEW host \in Host, Restorable(host)
  PROVE  Unrestored(host) \in 1 .. Len(host.backups)
<1> DEFINE left == {i \in DOMAIN host.backups : ~ host.backups[i].restored}
           n == Len(host.backups)
           Back == {n - i : i \in left}
<1>1. left \subseteq 1 .. n /\ n \in Nat
  BY DEF Host
<1>2. left # {}
  BY DEF Restorable, Unrestored
<1> HIDE DEF left
<1>3. Back \subseteq Nat /\ Back # {}
  <2>1. ASSUME NEW i \in left
        PROVE  n - i \in Nat
    <3>1. i \in 1 .. n
      BY <1>1
    <3> QED BY <1>1, <3>1
  <2> QED BY <1>2, <2>1
<1>4. PICK least \in Back : \A k \in Back : ~ (<<k, least>> \in OpToRel(<, Nat))
  <2> HIDE DEF Back
  <2> QED BY <1>3, WFMin, NatLessThanWellFounded
<1>5. \A k \in Back : ~ (k < least)
  BY <1>3, <1>4 DEF OpToRel
<1>6. PICK top \in left : least = n - top
  OBVIOUS
<1>7. \A j \in left : j <= top
  <2> SUFFICES ASSUME NEW j \in left
               PROVE  j <= top
    OBVIOUS
  <2>1. ~ (n - j < n - top)
    BY <1>5, <1>6
  <2>2. j \in 1 .. n /\ top \in 1 .. n
    BY <1>1, <1>6
  <2> QED BY <1>1, <2>1, <2>2
<1>8. Unrestored(host) = CHOOSE i \in left : \A j \in left : j <= i
  BY <1>2 DEF Unrestored, left
<1> HIDE DEF n
<1>9. Unrestored(host) \in left
  BY <1>6, <1>7, <1>8
<1> QED BY <1>1, <1>9 DEF n

LEMMA UndoableIsNext ==
  ASSUME NEW host \in Host, NEW before, Undoable(host, before)
  PROVE  Unrestored(host) = Newest(host)
<1> DEFINE left == {i \in DOMAIN host.backups : ~ host.backups[i].restored}
<1>1. DOMAIN host.backups = 1 .. Newest(host) /\ Newest(host) \in Nat
  BY DEF Host, Newest
<1>2. Newest(host) \in left
  BY <1>1 DEF Undoable
<1>3. \A j \in left : j \in Int /\ j <= Newest(host)
  BY <1>1
<1>4. Unrestored(host) = CHOOSE i \in left : \A j \in left : j <= i
  BY <1>2 DEF Unrestored
<1> HIDE DEF left
<1>5. PICK u : u = Unrestored(host)
  OBVIOUS
<1>6. u \in left /\ \A j \in left : j <= u
  BY <1>2, <1>3, <1>4, <1>5
<1>7. u \in Int /\ u <= Newest(host) /\ Newest(host) <= u
  BY <1>2, <1>3, <1>6
<1> QED BY <1>1, <1>5, <1>7

\* The revert, as far as it ran; all of it puts back what the backup holds.
LEMMA RevertRuns ==
  ASSUME NEW host \in Host, NEW c \in Told, Restorable(host),
         NEW n \in 0 .. Len(RevertScript)
  PROVE  LET x == Ran(host, c, RevertScript, n)
             kept == host.backups[Unrestored(host)]
         IN  /\ x \in Host
             /\ n = Len(RevertScript) => x.disk.api = kept.api /\ x.dist = kept.dist
<1> DEFINE kept == host.backups[Unrestored(host)]
           h1 == BackApi(host)
           h2 == BackDist(h1)
           h3 == Mark(h2)
           h4 == Start(h3, "api")
<1>1. kept \in Backup /\ Unrestored(host) \in 1 .. Len(host.backups)
  BY UnrestoredIs DEF Host
<1>2. kept.api \in Int /\ kept.dist \in Int
  BY <1>1 DEF Backup
<1>3. h1 \in Host /\ h1.disk.api = kept.api /\ h1.backups = host.backups
  <2> HIDE DEF kept
  <2>1. PICK disk \in [Shipped -> Int] : disk = [host.disk EXCEPT !["api"] = kept.api]
    BY <1>2 DEF Host
  <2>2. h1 = [host EXCEPT !.disk = disk]
    BY <2>1 DEF BackApi, Host, kept
  <2>3. disk.api = kept.api
    BY <2>1 DEF Host, Shipped, Parts
  <2> QED BY <2>2, <2>3 DEF Host
<1>4. Unrestored(h1) = Unrestored(host)
  BY <1>3 DEF Unrestored
<1> HIDE DEF h1
<1>5. /\ h2 \in Host /\ h2.disk.api = kept.api /\ h2.dist = kept.dist
      /\ h2.backups = host.backups
  <2>1. h2 = [h1 EXCEPT !.dist = kept.dist]
    BY <1>3, <1>4 DEF BackDist
  <2> HIDE DEF kept, h2
  <2> QED BY <1>2, <1>3, <2>1 DEF Host
<1>6. Unrestored(h2) = Unrestored(host)
  BY <1>5 DEF Unrestored
<1> HIDE DEF h2
<1>7. h3 \in Host /\ h3.disk = h2.disk /\ h3.dist = h2.dist
  <2> DEFINE marked == [kept EXCEPT !.restored = TRUE]
  <2>1. marked \in Backup
    BY <1>1 DEF Backup
  <2>2. PICK backups : backups = [host.backups EXCEPT ![Unrestored(host)] = marked]
    OBVIOUS
  <2>3. backups \in Seq(Backup)
    <3> HIDE DEF marked
    <3>1. host.backups \in Seq(Backup)
      BY DEF Host
    <3> QED BY <1>1, <2>1, <2>2, <3>1
  <2>4. h3 = [h2 EXCEPT !.backups = backups]
    BY <1>5, <1>6, <2>2 DEF Mark, Host
  <2> QED BY <1>5, <2>3, <2>4 DEF Host
<1> HIDE DEF h3, kept
<1>8. h4 \in Host /\ h4.disk.api = kept.api /\ h4.dist = kept.dist
  <2>1. "api" \in Services
    BY DEF Services
  <2> QED BY <1>5, <1>7, <2>1, StartHost
<1> HIDE DEF h4
<1>9. /\ n = 0 => Ran(host, c, RevertScript, n) = host
      /\ n = 1 => Ran(host, c, RevertScript, n) = h1
      /\ n = 2 => Ran(host, c, RevertScript, n) = h2
      /\ n = 3 => Ran(host, c, RevertScript, n) = h3
      /\ n = 4 => Ran(host, c, RevertScript, n) = h4
  <2>1. /\ Command(host, c, RevertScript[1]) = h1 /\ Command(h1, c, RevertScript[2]) = h2
        /\ Command(h2, c, RevertScript[3]) = h3 /\ Command(h3, c, RevertScript[4]) = h4
    BY ShipCommands, ReactCommands DEF RevertScript, h1, h2, h3, h4
  <2> QED BY <2>1 DEF Ran
<1>10. Len(RevertScript) = 4
  BY DEF RevertScript
<1>11. n \in {0, 1, 2, 3, 4}
  BY <1>10
<1> QED BY <1>3, <1>5, <1>7, <1>8, <1>9, <1>10, <1>11 DEF kept

----------------------------------------------------------------------------
(* The steps. Neither property is inductive: what a revert puts back was     *)
(* kept two scripts earlier, and what port 80 serves when the command ends   *)
(* was started before the checks.                                            *)

\* Until the swap, before is what the host has; nothing is kept.
Aimed ==
  /\ pc \in {"upload", "swap"} => cmd.before.api = h.disk.api /\ cmd.before.dist = h.dist
  /\ cmd.kept => pc \in {"idle", "check", "revert", "confirm"}

\* After it, what was kept can be put back, and the whole of it serves the commit.
Swapped ==
  /\ pc \in {"check", "revert"} /\ cmd.kept => Undoable(h, cmd.before)
  /\ pc = "check" => Served(h, cmd)
  /\ pc = "confirm" => cmd.name = "all" /\ (cmd.ui => Served(h, cmd))

DeployTypes == repo \in [Parts -> Int] /\ h \in Host /\ cmd \in Told

DeployInv == DeployTypes /\ Aimed /\ Swapped /\ RevertRestores /\ DeployedServed

LEMMA IdleType == Idle \in Told /\ ~ Idle.kept
<1>1. NoFlags \in [deps : BOOLEAN, migrate : BOOLEAN, restart : SUBSET Services]
  BY DEF NoFlags, Flags
<1>2. [changed |-> {}, migration |-> FALSE, linked |-> TRUE] \in Plan
  BY DEF Plan
<1>3. [p \in Parts |-> 0] \in [Parts -> Int]
  OBVIOUS
<1> QED BY <1>1, <1>2, <1>3 DEF Idle, Told

LEMMA ReadPlanType ==
  ASSUME DeployTypes
  PROVE  ReadPlan \in Plan
BY DEF DeployTypes, Host, ReadPlan, Plan, Differs, NeedsMigration

\* What systemd starts changes nothing a revert or a deploy is judged by.
LEMMA StartKeeps ==
  ASSUME NEW host \in Host, NEW s \in Services, NEW c, NEW before
  PROVE  /\ Undoable(host, before) => Undoable(Start(host, s), before)
         /\ Served(host, c) => Served(Start(host, s), c)
<1>1. Image(host).up /\ (host.linked => Image(host).api = host.disk.api)
  BY ImageType
<1>2. s = "api" \/ s = "worker"
  BY DEF Services
<1> QED BY <1>1, <1>2, StartHost DEF Undoable, Newest, Served

\* Where nothing is kept or under way, types are all there is to keep.
LEMMA NothingUnderWay ==
  ASSUME DeployTypes', ~ cmd'.kept,
         pc' \notin {"upload", "swap", "check", "revert", "confirm"},
         pc' = "idle" => result' # "deployed"
  PROVE  DeployInv'
BY DEF DeployInv, Aimed, Swapped, RevertRestores, DeployedServed

LEMMA DeployInit == Init => DeployInv
<1> SUFFICES ASSUME Init
             PROVE  DeployInv
  OBVIOUS
<1>1. repo \in [Parts -> Int] /\ cmd \in Told /\ ~ cmd.kept /\ pc = "idle" /\ result = None
  BY IdleType DEF Init
<1>2. h \in Host
  <2>1. PICK linked \in BOOLEAN :
          h = [disk |-> [p \in Shipped |-> 0], dist |-> 0, venv |-> 0, linked |-> linked,
               db |-> [has |-> {}, stamp |-> 0],
               run |-> [s \in Services |-> [Down EXCEPT !.up = TRUE]], backups |-> <<>>]
    BY DEF Init
  <2>2. [Down EXCEPT !.up = TRUE] \in Process
    <3>1. Down \in Process
      BY DEF Down, Process
    <3> QED BY <3>1 DEF Process
  <2>3. PICK run \in [Services -> Process] : run = [s \in Services |-> [Down EXCEPT !.up = TRUE]]
    BY <2>2
  <2>4. PICK disk \in [Shipped -> Int] : disk = [p \in Shipped |-> 0]
    <3>1. [p \in Shipped |-> 0] \in [Shipped -> Int]
      OBVIOUS
    <3> QED BY <3>1, Zenon
  <2>5. [has |-> {}, stamp |-> 0] \in [has : SUBSET Int, stamp : Int] /\ <<>> \in Seq(Backup)
    OBVIOUS
  <2>6. h = [disk |-> disk, dist |-> 0, venv |-> 0, linked |-> linked,
             db |-> [has |-> {}, stamp |-> 0], run |-> run, backups |-> <<>>]
    BY <2>1, <2>3, <2>4, Zenon
  <2> QED BY <2>5, <2>6 DEF Host
<1> QED BY <1>1, <1>2 DEF DeployInv, DeployTypes, Aimed, Swapped, RevertRestores, DeployedServed, None

\* A commit, and a service systemd starts.
LEMMA OutsideInv ==
  ASSUME DeployInv, Commit \/ (\E s \in Services : Restarts(s))
  PROVE  DeployInv'
<1>1. CASE Commit
  <2>1. repo' \in [Parts -> Int]
    <3>1. PICK c \in Commits : repo' = [p \in Parts |-> IF p \in c THEN repo[p] + 1 ELSE repo[p]]
      BY <1>1 DEF Commit
    <3>2. \A p \in Parts : (IF p \in c THEN repo[p] + 1 ELSE repo[p]) \in Int
      BY DEF DeployInv, DeployTypes
    <3> QED BY <3>1, <3>2
  <2>2. UNCHANGED <<h, cmd, pc, result>>
    BY <1>1 DEF Commit
  <2> QED BY <2>1, <2>2 DEF DeployInv, DeployTypes, Aimed, Swapped, RevertRestores, DeployedServed, Served
<1>2. CASE \E s \in Services : Restarts(s)
  <2>1. PICK s \in Services : Restarts(s)
    BY <1>2
  <2>2. h' = Start(h, s) /\ UNCHANGED <<repo, cmd, pc, result>>
    BY <2>1 DEF Restarts
  <2>3. h' \in Host /\ h'.disk = h.disk /\ h'.dist = h.dist
    BY <2>2, StartHost DEF DeployInv, DeployTypes
  <2>4. Undoable(h, cmd.before) => Undoable(h', cmd.before)
    BY <2>2, StartKeeps DEF DeployInv, DeployTypes
  <2>5. Served(h, cmd) => Served(h', cmd)
    BY <2>2, StartKeeps DEF DeployInv, DeployTypes
  <2>6. DeployTypes' /\ Aimed' /\ Swapped' /\ RevertRestores'
    BY <2>2, <2>3, <2>4, <2>5 DEF DeployInv, DeployTypes, Aimed, Swapped, RevertRestores
  <2>7. DeployedServed'
    BY <2>2, <2>5 DEF DeployInv, DeployedServed, Served
  <2> QED BY <2>6, <2>7 DEF DeployInv
<1> QED BY <1>1, <1>2

\* The operator gives a command.
LEMMA BeginsInv ==
  ASSUME DeployInv, RunsAll \/ RunsShip \/ RunsReact \/ RunsRollback
  PROVE  DeployInv'
<1>1. ASSUME NEW name \in {"all", "ship", "react", "rollback"},
             NEW flags \in [deps : BOOLEAN, migrate : BOOLEAN, restart : SUBSET Services],
             NEW ui \in BOOLEAN, NEW at \in {"plan", "ship", "inspect", "rollback"},
             Begins(name, flags, ui, at)
      PROVE  DeployInv'
  <2>1. PICK day \in BOOLEAN :
          cmd' = [Idle EXCEPT !.name = name, !.flags = flags, !.ui = ui, !.day = day,
                              !.repo = repo, !.before = [api |-> h.disk.api, dist |-> h.dist]]
    BY <1>1 DEF Begins
  <2>2. [api |-> h.disk.api, dist |-> h.dist] \in [api : Int, dist : Int]
    BY DEF DeployInv, DeployTypes, Host, Shipped, Parts
  <2>3. cmd' \in Told /\ ~ cmd'.kept
    BY <2>1, <2>2, IdleType DEF Told, DeployInv, DeployTypes
  <2>4. DeployTypes' /\ pc' = at
    BY <1>1, <2>3 DEF Begins, DeployInv, DeployTypes
  <2> QED BY <2>3, <2>4, NothingUnderWay
<1>2. NoFlags \in [deps : BOOLEAN, migrate : BOOLEAN, restart : SUBSET Services]
  BY DEF NoFlags, Flags
<1>3. CASE RunsAll
  BY <1>1, <1>2, <1>3 DEF RunsAll
<1>4. CASE RunsShip
  <2>1. PICK deps \in BOOLEAN, migrate \in BOOLEAN, restart \in SUBSET Services :
          Begins("ship", Flags(deps, migrate, restart), FALSE, "ship")
    BY <1>4 DEF RunsShip
  <2>2. Flags(deps, migrate, restart) \in [deps : BOOLEAN, migrate : BOOLEAN, restart : SUBSET Services]
    BY DEF Flags
  <2> QED BY <1>1, <2>1, <2>2
<1>5. CASE RunsReact
  BY <1>1, <1>2, <1>5 DEF RunsReact
<1>6. CASE RunsRollback
  BY <1>1, <1>2, <1>6 DEF RunsRollback
<1> QED BY <1>3, <1>4, <1>5, <1>6

\* A script of plain commands, however far it ran.
LEMMA ShipSends ==
  ASSUME DeployInv, ~ cmd.kept, NEW script \in Seq(Plain),
         NEW at \in {"deps", "link", "migrate", "restart", "verify"},
         Sends(script, Goes(at), Ends("stopped")), UNCHANGED <<repo, cmd>>
  PROVE  DeployInv'
<1>1. \A n \in 0 .. Len(script) : Ran(h, cmd, script, n) \in Host
  BY PlainScriptKeepsHost DEF DeployInv, DeployTypes
<1>2. Len(script) \in 0 .. Len(script)
  OBVIOUS
<1>3. h' \in Host /\ (pc' = at \/ (pc' = "idle" /\ result' = "stopped"))
  BY <1>1, <1>2 DEF Sends, Goes, Ends
<1>4. DeployTypes' /\ ~ cmd'.kept
  BY <1>3 DEF DeployInv, DeployTypes
<1> QED BY <1>3, <1>4, NothingUnderWay

\* ship_host.py, and the plan deploy_all.py makes for it.
LEMMA ShipInv ==
  ASSUME DeployInv,
         Plans \/ Ships \/ Installs \/ InstallsDeps \/ Links \/ Migrates
           \/ RestartsServices \/ Verifies \/ Shipping
  PROVE  DeployInv'
<1>1. ~ cmd.kept
  BY DEF DeployInv, Aimed, Plans, Ships, Installs, InstallsDeps, Links, Migrates,
         RestartsServices, Verifies, Shipping
<1>2. ReadPlan \in Plan
  BY ReadPlanType DEF DeployInv
<1>3. StepsFor(ReadPlan) \in [deps : BOOLEAN, migrate : BOOLEAN, restart : SUBSET Services]
  BY <1>2 DEF StepsFor, Flags, NoFlags, Plan, RestartsFor
<1>4. cmd.plan \in Plan /\ cmd.flags.restart \in SUBSET Services
  BY DEF DeployInv, DeployTypes, Told
<1>5. CASE Plans
  <2>1. cmd' \in Told /\ ~ cmd'.kept
    BY <1>1, <1>2, <1>3, <1>5 DEF Plans, DeployInv, DeployTypes, Told
  <2>2. UNCHANGED <<repo, h>>
    BY <1>5 DEF Plans
  <2>3. pc' \in {"idle", "shipped", "ship"} /\ (pc' = "idle" => result' \in {"not now", "stopped"})
    BY <1>5 DEF Plans, Ends, Goes
  <2> QED BY <2>1, <2>2, <2>3, NothingUnderWay DEF DeployInv, DeployTypes
<1>6. CASE Ships
  <2>1. cmd' \in Told /\ ~ cmd'.kept
    BY <1>1, <1>2, <1>6 DEF Ships, DeployInv, DeployTypes, Told
  <2>2. UNCHANGED <<repo, h>>
    BY <1>6 DEF Ships
  <2>3. pc' \in {"idle", "shipped", "install", "deps"}
        /\ (pc' = "idle" => result' \in {"refused", "stopped"})
    BY <1>6 DEF Ships, Ends, Goes
  <2> QED BY <2>1, <2>2, <2>3, NothingUnderWay DEF DeployInv, DeployTypes
<1>7. CASE Installs
  BY <1>1, <1>4, <1>7, ShipScripts, ShipSends DEF Installs
<1>8. ASSUME UNCHANGED <<repo, cmd, h>>, pc' \in {"link", "migrate", "restart"}
      PROVE  DeployInv'
  BY <1>1, <1>8, NothingUnderWay DEF DeployInv, DeployTypes
<1>9. CASE InstallsDeps
  BY <1>1, <1>4, <1>8, <1>9, ShipScripts, ShipSends DEF InstallsDeps, Goes
<1>10. CASE Links
  BY <1>1, <1>4, <1>8, <1>10, ShipScripts, ShipSends DEF Links, Goes
<1>11. CASE Migrates
  BY <1>1, <1>4, <1>8, <1>11, ShipScripts, ShipSends DEF Migrates, Goes
<1>12. CASE RestartsServices
  <2>1. PICK services \in SUBSET Services :
          Sends(RestartScript(services), Goes("verify"), Ends("stopped"))
    BY <1>4, <1>12 DEF RestartsServices
  <2>2. UNCHANGED <<repo, cmd>>
    BY <1>12 DEF RestartsServices
  <2> QED BY <1>1, <1>4, <2>1, <2>2, ShipScripts, ShipSends
<1>13. CASE Verifies
  <2>1. pc' \in {"shipped", "idle"} /\ (pc' = "idle" => result' = "stopped")
    BY <1>13 DEF Verifies, Ends, Goes
  <2>2. UNCHANGED <<repo, h, cmd>>
    BY <1>13 DEF Verifies
  <2> QED BY <1>1, <2>1, <2>2, NothingUnderWay DEF DeployInv, DeployTypes
<1>14. CASE Shipping
  <2>1. UNCHANGED <<repo, h, cmd>>
    BY <1>14 DEF Shipping
  <2>2. CASE cmd.name = "all" /\ ~ cmd.ui
    <3>1. pc' = "confirm"
      BY <1>14, <2>2 DEF Shipping, Goes
    <3> QED BY <1>1, <2>1, <2>2, <3>1
            DEF DeployInv, DeployTypes, Aimed, Swapped, RevertRestores, DeployedServed
  <2>3. CASE ~ (cmd.name = "all" /\ ~ cmd.ui)
    <3>1. pc' \in {"inspect", "idle"} /\ (pc' = "idle" => result' = "shipped")
      BY <1>14, <2>3 DEF Shipping, Goes, Ends
    <3> QED BY <1>1, <2>1, <3>1, NothingUnderWay DEF DeployInv, DeployTypes
  <2> QED BY <2>2, <2>3
<1> QED BY <1>5, <1>6, <1>7, <1>9, <1>10, <1>11, <1>12, <1>13, <1>14

\* deploy_react.py up to the swap.
LEMMA AimsInv ==
  ASSUME DeployInv, Inspects \/ Uploads
  PROVE  DeployInv'
<1>1. ~ cmd.kept
  BY DEF DeployInv, Aimed, Inspects, Uploads
<1>2. UNCHANGED <<repo, h>>
  BY DEF Inspects, Uploads
<1>3. CASE Inspects
  <2>1. CASE pc' = "idle" /\ result' = "stopped" /\ UNCHANGED cmd
    BY <1>1, <1>2, <2>1, NothingUnderWay DEF DeployInv, DeployTypes
  <2>2. CASE pc' = "upload" /\ cmd' = [cmd EXCEPT !.before = [api |-> h.disk.api, dist |-> h.dist]]
    <3>1. h.disk.api \in Int /\ h.dist \in Int
      BY DEF DeployInv, DeployTypes, Host, Shipped, Parts
    <3>2. cmd' \in Told /\ ~ cmd'.kept /\ cmd'.before.api = h.disk.api /\ cmd'.before.dist = h.dist
      BY <1>1, <2>2, <3>1 DEF DeployInv, DeployTypes, Told
    <3> QED BY <1>2, <2>2, <3>2
            DEF DeployInv, DeployTypes, Aimed, Swapped, RevertRestores, DeployedServed
  <2> QED BY <1>3, <2>1, <2>2 DEF Inspects, Goes, Ends
<1>4. CASE Uploads
  <2>1. UNCHANGED cmd
    BY <1>4 DEF Uploads
  <2>2. CASE pc' = "swap"
    BY <1>1, <1>2, <1>4, <2>1, <2>2
       DEF Uploads, DeployInv, DeployTypes, Aimed, Swapped, RevertRestores, DeployedServed
  <2>3. CASE pc' = "idle" /\ result' = "reverted"
    BY <1>1, <1>2, <2>1, <2>3, NothingUnderWay DEF DeployInv, DeployTypes
  <2> QED BY <1>4, <2>2, <2>3 DEF Uploads, Goes, Ends
<1> QED BY <1>3, <1>4

LEMMA SwapsInv ==
  ASSUME DeployInv, Swaps
  PROVE  DeployInv'
<1>1. h \in Host /\ cmd \in Told /\ ~ cmd.kept
      /\ cmd.before.api = h.disk.api /\ cmd.before.dist = h.dist
  BY DEF DeployInv, DeployTypes, Aimed, Swaps
<1>2. cmd' = [cmd EXCEPT !.kept = Newest(h') > Newest(h)] /\ repo' = repo
  BY DEF Swaps
<1>3. /\ cmd' \in Told /\ cmd'.kept = (Newest(h') > Newest(h)) /\ cmd'.before = cmd.before
      /\ cmd'.repo = cmd.repo /\ cmd'.name = cmd.name /\ cmd'.ui = cmd.ui
  <2>1. (Newest(h') > Newest(h)) \in BOOLEAN
    OBVIOUS
  <2> QED BY <1>1, <1>2, <2>1 DEF Told
<1>4. PICK n \in 0 .. Len(ReactScript) :
        /\ h' = Ran(h, cmd, ReactScript, n)
        /\ \/ pc' = "check" /\ n = Len(ReactScript)
           \/ pc' = "revert"
  <2>1. Len(ReactScript) \in 0 .. Len(ReactScript)
    BY DEF ReactScript
  <2> QED BY <2>1 DEF Swaps, Sends, Goes
<1>5. /\ h' \in Host
      /\ Newest(h') > Newest(h) => Undoable(h', cmd.before)
      /\ n = Len(ReactScript) => Served(h', cmd)
  BY <1>1, <1>4, ReactRuns
<1>6. Served(h', cmd) => Served(h', cmd')
  BY <1>3 DEF Served
<1> QED BY <1>2, <1>3, <1>4, <1>5, <1>6
        DEF DeployInv, DeployTypes, Aimed, Swapped, RevertRestores, DeployedServed

LEMMA ChecksInv ==
  ASSUME DeployInv, Checks
  PROVE  DeployInv'
<1>1. pc = "check" /\ UNCHANGED <<repo, h, cmd>> /\ Served(h, cmd)
      /\ (cmd.kept => Undoable(h, cmd.before))
  BY DEF DeployInv, Swapped, Checks
<1>2. Served(h', cmd')
  BY <1>1
<1>3. CASE pc' = "confirm" /\ cmd.name = "all"
  BY <1>1, <1>2, <1>3 DEF DeployInv, DeployTypes, Aimed, Swapped, RevertRestores, DeployedServed, Served
<1>4. CASE pc' = "idle" /\ result' = "deployed"
  BY <1>1, <1>2, <1>4 DEF DeployInv, DeployTypes, Aimed, Swapped, RevertRestores, DeployedServed, Served
<1>5. CASE pc' = "revert"
  BY <1>1, <1>5 DEF DeployInv, DeployTypes, Aimed, Swapped, RevertRestores, DeployedServed
<1> QED BY <1>3, <1>4, <1>5 DEF Checks, Goes, Ends

\* The revert of a failed swap, and the operator's rollback.
LEMMA RestoresInv ==
  ASSUME DeployInv, Reverts \/ RollsBack
  PROVE  DeployInv'
<1>1. h \in Host /\ cmd \in Told /\ UNCHANGED <<repo, cmd>>
  BY DEF DeployInv, DeployTypes, Reverts, RollsBack
<1>2. /\ pc' = "idle" /\ h' \in Host
      /\ \/ result' \in {"stopped", "stopped reverting"}
         \/ RollsBack /\ result' = "rolled back"
         \/ Reverts /\ result' = "reverted" /\ Restorable(h)
            /\ h' = Ran(h, cmd, RevertScript, Len(RevertScript))
  <2>1. CASE ~ Restorable(h)
    BY <1>1, <2>1 DEF Reverts, RollsBack, Restores, Ends
  <2>2. CASE Restorable(h)
    <3>1. Len(RevertScript) \in 0 .. Len(RevertScript)
      BY DEF RevertScript
    <3>2. \A n \in 0 .. Len(RevertScript) : Ran(h, cmd, RevertScript, n) \in Host
      BY <1>1, <2>2, RevertRuns
    <3> QED BY <2>2, <3>1, <3>2 DEF Reverts, RollsBack, Restores, Sends, Ends
  <2> QED BY <2>1, <2>2
<1>3. ASSUME Reverts, result' = "reverted", cmd.kept, Restorable(h),
             h' = Ran(h, cmd, RevertScript, Len(RevertScript))
      PROVE  h'.disk.api = cmd.before.api /\ h'.dist = cmd.before.dist
  <2>1. Undoable(h, cmd.before)
    BY <1>3 DEF DeployInv, Swapped, Reverts
  <2>2. Unrestored(h) = Newest(h)
    BY <1>1, <2>1, UndoableIsNext
  <2>3. Len(RevertScript) \in 0 .. Len(RevertScript)
    BY DEF RevertScript
  <2>4. h'.disk.api = h.backups[Unrestored(h)].api /\ h'.dist = h.backups[Unrestored(h)].dist
    BY <1>1, <1>3, <2>3, RevertRuns
  <2>5. h.backups[Unrestored(h)].dist # NoBuild
    BY <1>3 DEF Restorable
  <2> QED BY <2>1, <2>2, <2>4, <2>5 DEF Undoable
<1>4. RollsBack => ~ cmd.kept
  BY DEF DeployInv, Aimed, RollsBack
<1>5. RevertRestores'
  BY <1>1, <1>2, <1>3, <1>4 DEF RevertRestores
<1> QED BY <1>1, <1>2, <1>5 DEF DeployInv, DeployTypes, Aimed, Swapped, DeployedServed

LEMMA ConfirmsInv ==
  ASSUME DeployInv, Confirms
  PROVE  DeployInv'
<1>1. UNCHANGED <<repo, h, cmd>> /\ pc' = "idle" /\ result' \in {"deployed", "stopped"}
      /\ cmd.name = "all"
  BY DEF Confirms, Ends, DeployInv, Swapped
<1> QED BY <1>1 DEF DeployInv, DeployTypes, Aimed, Swapped, RevertRestores, DeployedServed

LEMMA DeployStep == DeployInv /\ [Next]_vars => DeployInv'
<1> SUFFICES ASSUME DeployInv, [Next]_vars
             PROVE  DeployInv'
  OBVIOUS
<1>1. CASE UNCHANGED vars
  BY <1>1 DEF vars, DeployInv, DeployTypes, Aimed, Swapped, RevertRestores, DeployedServed, Served
<1>2. CASE Next
  BY <1>2, OutsideInv, BeginsInv, ShipInv, AimsInv, SwapsInv, ChecksInv, RestoresInv, ConfirmsInv
     DEF Next, Operator
<1> QED BY <1>1, <1>2

LEMMA DeployInvariant == Spec => []DeployInv
<1>1. Init => DeployInv
  BY DeployInit
<1>2. DeployInv /\ [Next]_vars => DeployInv'
  BY DeployStep
<1> QED BY <1>1, <1>2, PTL DEF Spec

\* When deploy_react.py says REVERTED after its script began, the modules and the
\* build are those before it: wherever the script stopped, whatever commits,
\* faults and restarts there were, and however many backups lie there.
THEOREM RevertPutsBack == Spec => []RevertRestores
<1>1. DeployInv => RevertRestores
  BY DEF DeployInv
<1> QED BY <1>1, DeployInvariant, PTL

\* When it says DEPLOYED, and before deploy_all.py's last look, port 80 serves the
\* build of the commit and the API runs its modules, whatever systemd started.
THEOREM DeployIsServed == Spec => []DeployedServed
<1>1. DeployInv => DeployedServed
  BY DEF DeployInv
<1> QED BY <1>1, DeployInvariant, PTL

----------------------------------------------------------------------------
(* What ship_host.py leaves running, when deploy_all.py asked for it.        *)

\* The services of which the plan changes something they load.
Touched(plan) ==
  {s \in Services : ~ plan.linked \/ (Loads[s] \cup {"deps"}) \cap plan.changed # {}}

\* The services the command starts again, in the migration or after it.
Taken == cmd.flags.restart \cup (IF Migrating THEN {"worker"} ELSE {})

\* The service runs all of the checkout; a worker may have ended instead.
Fresh(host, s) ==
  IF s = "api" THEN host.run.api = Image(host) ELSE host.run.worker \in {Image(host), Down}

Agreed == cmd.flags.migrate => cmd.plan.migration

\* The two programs read the same files, so that whatever is touched is taken; what
\* was taken runs the checkout from its start on, and VERIFY finds the worker up.
RestartInv ==
  cmd.name = "all" =>
    /\ pc = "ship" =>
         /\ cmd.flags = StepsFor(cmd.plan)
         /\ cmd.plan.changed = Differs /\ cmd.plan.linked = h.linked
    /\ pc \in {"install", "deps", "link", "migrate", "restart", "verify"} =>
         (Agreed => Touched(cmd.plan) \subseteq Taken)
    /\ pc = "restart" /\ Migrating => Fresh(h, "worker")
    /\ pc = "verify" => \A s \in Taken : Fresh(h, s)
    /\ pc = "shipped" =>
         /\ Agreed => \A s \in Touched(cmd.plan) : h.run[s] = Image(h)
         /\ Touched(cmd.plan) # {} => h.linked

\* A start brings its service up to the checkout and leaves the other as it is.
LEMMA StartFreshens ==
  ASSUME NEW host \in Host, NEW s \in Services
  PROVE  LET x == Start(host, s)
         IN  /\ Image(x) = Image(host)
             /\ x.run = [host.run EXCEPT ![s] = IF s = "worker" /\ ~ host.linked THEN Down
                                                ELSE Image(host)]
             /\ Fresh(x, s)
             /\ \A r \in Services : Fresh(host, r) => Fresh(x, r)
<1> DEFINE x == Start(host, s)
           started == IF s = "worker" /\ ~ host.linked THEN Down ELSE Image(host)
<1>1. x.venv = host.venv /\ x.disk = host.disk /\ x.linked = host.linked
  BY StartHost DEF Start, Host, Services
<1>2. x.run = [host.run EXCEPT ![s] = started]
  BY DEF Start, Host, Services
<1>3. Image(x) = Image(host)
  BY <1>1 DEF Image
<1>4. host.run \in [Services -> Process] /\ Services = {"api", "worker"}
  BY DEF Host, Services
<1> HIDE DEF x
<1>5. x.run[s] = started /\ \A r \in Services : r # s => x.run[r] = host.run[r]
  BY <1>2, <1>4
<1>6. Fresh(x, s)
  BY <1>3, <1>4, <1>5 DEF Fresh
<1>7. \A r \in Services : Fresh(host, r) => Fresh(x, r)
  BY <1>3, <1>4, <1>5, <1>6 DEF Fresh
<1> QED BY <1>2, <1>3, <1>6, <1>7 DEF x

\* The scripts that start services are short, and when all of them ran:
LEMMA ShortScripts ==
  ASSUME NEW host, NEW c, NEW script
  PROVE  /\ Len(script) = 0 => Ran(host, c, script, Len(script)) = host
         /\ Len(script) = 1 => Ran(host, c, script, Len(script)) = Command(host, c, script[1])
         /\ Len(script) = 2 => Ran(host, c, script, Len(script))
                                 = Command(Command(host, c, script[1]), c, script[2])
         /\ Len(script) = 3 => Ran(host, c, script, Len(script))
              = Command(Command(Command(host, c, script[1]), c, script[2]), c, script[3])
BY DEF Ran

LEMMA MigrateRuns ==
  ASSUME NEW host \in Host, NEW c \in Told
  PROVE  Fresh(Ran(host, c, MigrateScript, Len(MigrateScript)), "worker")
<1> DEFINE down == Command(host, c, <<"stop", "worker">>)
           up == Command(down, c, <<"upgrade">>)
<1>1. /\ Len(MigrateScript) = 3 /\ MigrateScript[1] = <<"stop", "worker">>
      /\ MigrateScript[2] = <<"upgrade">> /\ MigrateScript[3] = <<"start", "worker">>
  BY DEF MigrateScript
<1>2. Ran(host, c, MigrateScript, Len(MigrateScript))
        = Command(Command(Command(host, c, MigrateScript[1]), c, MigrateScript[2]),
                  c, MigrateScript[3])
  BY <1>1, ShortScripts
<1>4. <<"stop", "worker">> \in Plain /\ <<"upgrade">> \in Plain /\ "worker" \in Services
  BY DEF Plain, Services
<1>5. down \in Host
  BY <1>4, PlainKeepsHost
<1> HIDE DEF down
<1>6. up \in Host
  BY <1>4, <1>5, PlainKeepsHost
<1>7. Ran(host, c, MigrateScript, Len(MigrateScript)) = Command(up, c, <<"start", "worker">>)
  BY <1>1, <1>2 DEF down
<1> HIDE DEF up
<1>8. Command(up, c, <<"start", "worker">>) = Start(up, "worker")
  BY ShipCommands
<1>9. Fresh(Start(up, "worker"), "worker")
  BY <1>4, <1>6, StartFreshens
<1> QED BY <1>7, <1>8, <1>9, Zenon

LEMMA RestartRuns ==
  ASSUME NEW host \in Host, NEW c \in Told, NEW services \in SUBSET Services
  PROVE  LET x == Ran(host, c, RestartScript(services), Len(RestartScript(services)))
         IN  \A s \in Services : s \in services \/ Fresh(host, s) => Fresh(x, s)
<1> DEFINE script == RestartScript(services)
           x == Ran(host, c, script, Len(script))
           api == IF "api" \in services THEN Start(host, "api") ELSE host
           worker == IF "worker" \in services THEN Start(api, "worker") ELSE api
<1>1. "api" \in Services /\ "worker" \in Services
  BY DEF Services
<1>2. x = worker
  <2>1. \A y \in Host : /\ Command(y, c, <<"start", "api">>) = Start(y, "api")
                        /\ Command(y, c, <<"start", "worker">>) = Start(y, "worker")
    BY ShipCommands
  <2>2. Start(host, "api") \in Host
    BY <1>1, StartHost
  <2>3. CASE "api" \in services /\ "worker" \in services
    <3>1. script = <<<<"start", "api">>>> \o <<<<"start", "worker">>>>
      BY <2>3 DEF RestartScript
    <3>2. /\ Len(script) = 2
          /\ script[1] = <<"start", "api">> /\ script[2] = <<"start", "worker">>
      BY <3>1
    <3> HIDE DEF script
    <3>3. x = Command(Command(host, c, script[1]), c, script[2])
      BY <3>2, ShortScripts
    <3>4. x = Command(Start(host, "api"), c, <<"start", "worker">>)
      BY <2>1, <3>2, <3>3
    <3> QED BY <2>1, <2>2, <2>3, <3>4
  <2>4. CASE "api" \in services /\ "worker" \notin services
    <3>1. Len(script) = 1 /\ script[1] = <<"start", "api">>
      BY <2>4 DEF RestartScript
    <3> HIDE DEF script
    <3>2. x = Command(host, c, script[1])
      BY <3>1, ShortScripts
    <3> QED BY <2>1, <2>4, <3>1, <3>2
  <2>5. CASE "api" \notin services /\ "worker" \in services
    <3>1. Len(script) = 1 /\ script[1] = <<"start", "worker">>
      BY <2>5 DEF RestartScript
    <3> HIDE DEF script
    <3>2. x = Command(host, c, script[1])
      BY <3>1, ShortScripts
    <3> QED BY <2>1, <2>5, <3>1, <3>2
  <2>6. CASE "api" \notin services /\ "worker" \notin services
    <3>1. Len(script) = 0
      BY <2>6 DEF RestartScript
    <3> HIDE DEF script
    <3>2. x = host
      BY <3>1, ShortScripts
    <3> QED BY <2>6, <3>2
  <2> QED BY <2>3, <2>4, <2>5, <2>6
<1>3. api \in Host /\ \A s \in Services : s \in services \cap {"api"} \/ Fresh(host, s) => Fresh(api, s)
  BY <1>1, StartHost, StartFreshens
<1> HIDE DEF x, api
<1>4. \A s \in Services : s \in services \cap {"worker"} \/ Fresh(api, s) => Fresh(worker, s)
  BY <1>1, <1>3, StartFreshens
<1>5. Services = {"api", "worker"}
  BY DEF Services
<1> HIDE DEF worker
<1> QED BY <1>2, <1>3, <1>4, <1>5 DEF x

\* Nothing is owed while no command of deploy_all.py is with ship_host.py.
LEMMA NotShipping ==
  ASSUME \/ cmd'.name # "all"
         \/ pc' \notin {"ship", "install", "deps", "link", "migrate", "restart", "verify", "shipped"}
  PROVE  RestartInv'
BY DEF RestartInv

LEMMA RestartOutside ==
  ASSUME DeployInv, RestartInv, Commit \/ (\E s \in Services : Restarts(s))
  PROVE  RestartInv'
<1>1. CASE Commit
  BY <1>1, NotShipping DEF Commit
<1>2. CASE \E s \in Services : Restarts(s)
  <2>1. PICK s \in Services : h' = Start(h, s) /\ UNCHANGED <<repo, cmd, pc>>
    BY <1>2 DEF Restarts
  <2>2. /\ h'.disk = h.disk /\ h'.linked = h.linked /\ Image(h') = Image(h)
        /\ \A r \in Services : Fresh(h, r) => Fresh(h', r)
    BY <2>1, StartHost, StartFreshens DEF DeployInv, DeployTypes
  <2>3. Differs' = Differs /\ (StepsFor(cmd.plan))' = StepsFor(cmd.plan)
        /\ Taken' = Taken /\ Agreed' = Agreed /\ Migrating' = Migrating
    BY <2>1, <2>2 DEF Differs, Taken, Agreed, Migrating
  <2>4. Taken \subseteq Services /\ "worker" \in Services
    BY DEF Taken, DeployInv, DeployTypes, Told, Services
  <2>5. ASSUME h.linked, NEW r \in Services, h.run[r] = Image(h)
        PROVE  h'.run[r] = Image(h')
    <3>1. h.run \in [Services -> Process]
      BY DEF DeployInv, DeployTypes, Host
    <3>2. h'.run = [h.run EXCEPT ![s] = Image(h)]
      BY <2>1, <2>5, StartFreshens DEF DeployInv, DeployTypes
    <3> QED BY <2>2, <2>5, <3>1, <3>2
  <2>6. Touched(cmd.plan) \subseteq Services
    BY DEF Touched
  <2> QED BY <2>1, <2>2, <2>3, <2>4, <2>5, <2>6 DEF RestartInv
<1> QED BY <1>1, <1>2

\* What deploy_all.py asks for covers what the difference touches.
LEMMA StepsCover ==
  ASSUME NEW plan \in Plan
  PROVE  /\ StepsFor(plan).migrate = plan.migration
         /\ Touched(plan) \subseteq
              StepsFor(plan).restart \cup (IF plan.migration THEN {"worker"} ELSE {})
<1>1. CASE Nothing(plan) /\ ~ plan.migration
  BY <1>1 DEF StepsFor, NoFlags, Flags, Touched, Nothing, Plan
<1>2. CASE ~ (Nothing(plan) /\ ~ plan.migration)
  <2> DEFINE restart == IF ~ plan.linked \/ "deps" \in plan.changed THEN Services
                        ELSE RestartsFor(plan.changed)
  <2>1. StepsFor(plan).migrate = plan.migration
        /\ StepsFor(plan).restart = IF plan.migration THEN restart \ {"worker"} ELSE restart
    BY <1>2 DEF StepsFor, Flags
  <2>2. Touched(plan) \subseteq restart
    BY DEF Touched, RestartsFor
  <2> QED BY <2>1, <2>2
<1> QED BY <1>1, <1>2

\* deploy_all.py and ship_host.py read the host one after the other: only the
\* recorded revision may have moved between them.
LEMMA RestartPlans ==
  ASSUME DeployInv, RestartInv, Plans \/ Ships
  PROVE  RestartInv'
<1> USE DEF DeployInv, DeployTypes
<1>1. UNCHANGED <<repo, h>> /\ ReadPlan \in Plan
  BY ReadPlanType DEF Plans, Ships
<1>2. ReadPlan.changed = Differs /\ ReadPlan.linked = h.linked
  BY DEF ReadPlan
<1>3. Differs' = Differs
  BY <1>1 DEF Differs
<1>4. Nothing(ReadPlan) => Touched(ReadPlan) = {}
  BY DEF Nothing, Touched
<1>5. CASE Plans
  <2>1. CASE pc' = "idle"
    BY <2>1, NotShipping
  <2>2. CASE pc' # "idle"
    <3>1. cmd' = [cmd EXCEPT !.flags = StepsFor(ReadPlan), !.plan = ReadPlan]
          /\ (pc' = "ship" \/ (pc' = "shipped" /\ Nothing(ReadPlan)))
      BY <1>5, <2>2 DEF Plans, Ends, Goes
    <3>2. cmd'.flags = StepsFor(ReadPlan) /\ cmd'.plan = ReadPlan
      BY <3>1 DEF Told
    <3>3. (StepsFor(cmd.plan))' = StepsFor(ReadPlan) /\ (Touched(cmd.plan))' = Touched(ReadPlan)
      BY <3>2
    <3> QED BY <1>1, <1>2, <1>3, <1>4, <3>1, <3>2, <3>3 DEF RestartInv
  <2> QED BY <2>1, <2>2
<1>6. CASE Ships
  <2>1. CASE pc' = "idle" \/ cmd.name # "all"
    <3>1. cmd'.name = cmd.name
      BY <1>6 DEF Ships, Told
    <3> QED BY <2>1, <3>1, NotShipping
  <2>2. CASE pc' # "idle" /\ cmd.name = "all"
    <3>1. cmd' = [cmd EXCEPT !.plan = ReadPlan] /\ pc = "ship"
          /\ (pc' \in {"install", "deps"} \/ (pc' = "shipped" /\ Nothing(ReadPlan)))
      BY <1>6, <2>2 DEF Ships, Ends, Goes
    <3>2. cmd'.flags = cmd.flags /\ cmd'.plan = ReadPlan /\ cmd.plan \in Plan
      BY <3>1 DEF Told
    <3>3. cmd.flags = StepsFor(cmd.plan)
          /\ cmd.plan.changed = ReadPlan.changed /\ cmd.plan.linked = ReadPlan.linked
      BY <1>2, <2>2, <3>1 DEF RestartInv
    <3>4. Touched(ReadPlan) = Touched(cmd.plan)
      BY <3>3 DEF Touched
    <3>5. Agreed' => Touched(ReadPlan) \subseteq Taken'
      BY <3>2, <3>3, <3>4, StepsCover DEF Agreed, Taken, Migrating
    <3>6. (Touched(cmd.plan))' = Touched(ReadPlan)
      BY <3>2
    <3> QED BY <1>4, <3>1, <3>5, <3>6 DEF RestartInv
  <2> QED BY <2>1, <2>2
<1> QED BY <1>5, <1>6

\* ship_host.py from the install to the restarts.
LEMMA RestartShips ==
  ASSUME DeployInv, RestartInv,
         Installs \/ InstallsDeps \/ Links \/ Migrates \/ RestartsServices
  PROVE  RestartInv'
<1> USE DEF DeployInv, DeployTypes
<1>1. UNCHANGED <<repo, cmd>> /\ h \in Host /\ cmd \in Told
  BY DEF Installs, InstallsDeps, Links, Migrates, RestartsServices
<1>2. Touched(cmd.plan)' = Touched(cmd.plan) /\ Taken' = Taken /\ Agreed' = Agreed
      /\ Migrating' = Migrating
  BY <1>1 DEF Taken, Agreed, Migrating
<1>3. CASE pc' = "idle" \/ cmd.name # "all"
  BY <1>1, <1>3, NotShipping
<1>4. CASE pc' # "idle" /\ cmd.name = "all"
  <2>1. CASE Installs \/ InstallsDeps \/ Links
    BY <1>1, <1>2, <1>4, <2>1 DEF RestartInv, Installs, InstallsDeps, Links, Sends, Goes, Ends
  <2>2. CASE Migrates
    <3>1. pc = "migrate" /\ pc' = "restart"
      BY <1>4, <2>2 DEF Migrates, Sends, Goes, Ends
    <3>2. Migrating => Fresh(h', "worker")
      <4>1. Migrating => h' = Ran(h, cmd, MigrateScript, Len(MigrateScript))
        BY <1>4, <2>2 DEF Migrates, Sends, Ends
      <4> QED BY <1>1, <4>1, MigrateRuns
    <3> QED BY <1>1, <1>2, <1>4, <3>1, <3>2 DEF RestartInv
  <2>3. CASE RestartsServices
    <3> DEFINE services == cmd.flags.restart \ (IF Migrating THEN {"worker"} ELSE {})
    <3>1. /\ pc = "restart" /\ pc' = "verify"
          /\ h' = Ran(h, cmd, RestartScript(services), Len(RestartScript(services)))
      BY <1>4, <2>3 DEF RestartsServices, Sends, Goes, Ends
    <3>2. services \in SUBSET Services /\ Taken \subseteq Services
      BY <1>1 DEF Told, Taken, Services
    <3>3. \A s \in Services : s \in services \/ Fresh(h, s) => Fresh(h', s)
      <4> HIDE DEF services
      <4> QED BY <1>1, <3>1, <3>2, RestartRuns
    <3>4. Migrating => Fresh(h, "worker")
      BY <1>4, <3>1 DEF RestartInv
    <3>5. \A s \in Taken : Fresh(h', s)
      BY <3>2, <3>3, <3>4 DEF Taken
    <3> QED BY <1>1, <1>2, <1>4, <3>1, <3>5 DEF RestartInv
  <2> QED BY <2>1, <2>2, <2>3, <1>3, <1>4
          DEF Installs, InstallsDeps, Links, Migrates, RestartsServices
<1> QED BY <1>3, <1>4

\* VERIFY: the worker is up, and the package is the checkout.
LEMMA RestartVerifies ==
  ASSUME DeployInv, RestartInv, Verifies
  PROVE  RestartInv'
<1>1. UNCHANGED <<repo, h, cmd>> /\ pc = "verify"
  BY DEF Verifies
<1>2. CASE pc' = "idle" \/ cmd.name # "all"
  BY <1>1, <1>2, NotShipping
<1>3. CASE pc' # "idle" /\ cmd.name = "all"
  <2>1. pc' = "shipped" /\ h.run.worker.up /\ h.linked
    BY <1>3 DEF Verifies, Goes, Ends
  <2>2. ~ Down.up
    BY DEF Down
  <2>3. \A s \in Services : Fresh(h, s) => h.run[s] = Image(h)
    BY <2>1, <2>2 DEF Fresh, Services
  <2>4. Agreed => \A s \in Touched(cmd.plan) : h.run[s] = Image(h)
    BY <1>1, <1>3, <2>3 DEF RestartInv, Touched
  <2> QED BY <1>1, <1>3, <2>1, <2>4 DEF RestartInv, Agreed, Touched, Image
<1> QED BY <1>2, <1>3

LEMMA RestartStep ==
  ASSUME DeployInv, RestartInv, [Next]_vars
  PROVE  RestartInv'
<1>1. CASE UNCHANGED vars
  BY <1>1 DEF vars, RestartInv, Agreed, Taken, Migrating, Differs, Touched, StepsFor, Fresh
<1>2. CASE RunsAll \/ RunsReact \/ RunsRollback
  BY <1>2, NotShipping DEF RunsAll, RunsReact, RunsRollback, Begins
<1>3. CASE RunsShip
  <2>1. cmd'.name = "ship"
    BY <1>3, IdleType DEF RunsShip, Begins, Told
  <2> QED BY <2>1, NotShipping
<1>4. CASE \/ Shipping \/ Inspects \/ Uploads \/ Swaps \/ Checks \/ Reverts \/ RollsBack
           \/ Confirms
  <2>1. pc' \in {"idle", "inspect", "confirm", "upload", "swap", "check", "revert"}
    BY <1>4 DEF Shipping, Inspects, Uploads, Swaps, Checks, Reverts, RollsBack, Confirms,
                Restores, Sends, Goes, Ends
  <2> QED BY <2>1, NotShipping
<1> QED BY <1>1, <1>2, <1>3, <1>4, RestartOutside, RestartPlans, RestartShips, RestartVerifies
        DEF Next, Operator

\* When deploy_all.py's ship_host.py is done, and both read the same of the
\* migration, every service of which a file or a dependency differed runs all of
\* the checkout: whatever a run before it left behind, and whatever systemd starts.
THEOREM RestartsLeaveNoMixture == Spec => []RestartedAsPlanned
<1>1. Init => RestartInv
  BY DEF Init, RestartInv, Idle, None
<1>2. RestartInv => RestartedAsPlanned
  BY DEF RestartInv, RestartedAsPlanned, LoadedRuns, Agreed, Touched
<1>3. DeployInv /\ RestartInv /\ [Next]_vars => RestartInv'
  BY RestartStep
<1> QED BY <1>1, <1>2, <1>3, DeployInvariant, PTL DEF Spec

=============================================================================
