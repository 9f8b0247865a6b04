------------------------------ MODULE Inception ------------------------------
(* The containers of docker-compose.yml and the scripts they start with:       *)
(* mariadb prepares its data directory, wordpress sets the site up in it and   *)
(* on its own volume, nginx makes its certificate and proxies.  Any of them    *)
(* may be killed at any moment and is started again; volumes survive that, and *)
(* so do the files of a container.                                             *)
EXTENDS Integers, Sequences

CONSTANTS MaxKills      \* a bound of the model: containers killed

VARIABLES mariadb,      \* what the container mariadb does
          data,         \* its volume: the data directory and what is in it
          wordpress,    \* what the container wordpress does
          site,         \* the steps of wp-config.sh whose result is there
          nginx,        \* what the container nginx does
          certificate,  \* the files of the key and of the certificate
          kills,        \* how often a container was killed
          cut           \* the scripts that were killed half-way

vars == <<mariadb, data, wordpress, site, nginx, certificate, kills, cut>>
db == <<mariadb, data>>
wp == <<wordpress, site>>
ng == <<nginx, certificate>>
faults == <<kills, cut>>

\* wp-config.sh behind its guard, in order; the file that the guard looks for is
\* there after the first.
Steps == <<"config", "redis host", "install", "user", "plugin", "redis">>
NeedDatabase == {"config", "install", "user", "plugin", "redis"}

Init ==
  /\ mariadb = "created" /\ data = {}
  /\ wordpress = "created" /\ site = {}
  /\ nginx = "created" /\ certificate = {}
  /\ kills = 0 /\ cut = {}

-----------------------------------------------------------------------------
(* mariadb: init.sh *)

StartMariadb ==
  /\ mariadb \in {"created", "restarting"}
  /\ mariadb' = IF "directory" \in data THEN "starting" ELSE "installing"
  /\ UNCHANGED <<data, wp, ng, faults>>

\* mariadb-install-db makes the directory first and fills it then.
InstallDatabase ==
  /\ mariadb = "installing"
  /\ IF "directory" \notin data THEN data' = data \union {"directory"} /\ UNCHANGED mariadb
     ELSE data' = data \union {"tables"} /\ mariadb' = "initialising"
  /\ UNCHANGED <<wp, ng, faults>>

\* The first server runs the statements before it listens, and is waited for:
\* it serves until it is killed.
RunInitFile ==
  /\ mariadb = "initialising"
  /\ data' = data \union {"user"}
  /\ mariadb' = "serving"
  /\ UNCHANGED <<wp, ng, faults>>

\* A server without its tables ends, and so does its container.
StartServer ==
  /\ mariadb = "starting"
  /\ mariadb' = IF "tables" \in data THEN "serving" ELSE "restarting"
  /\ UNCHANGED <<data, wp, ng, faults>>

\* mysqladmin ping is content with a server that refuses the user.
Healthy == mariadb = "serving"
DatabaseAnswers == mariadb = "serving" /\ "user" \in data

-----------------------------------------------------------------------------
(* wordpress: wp-config.sh *)

\* depends_on with service_healthy holds for the first start only.
StartWordpress ==
  /\ wordpress = "restarting" \/ (wordpress = "created" /\ Healthy)
  /\ wordpress' = IF "config" \in site THEN "serving" ELSE "setting up"
  /\ UNCHANGED <<site, db, ng, faults>>

\* Those before it have been done in this start: the first one not there yet.
NextStep == Steps[CHOOSE i \in DOMAIN Steps : /\ Steps[i] \notin site
                                              /\ \A j \in 1 .. i - 1 : Steps[j] \in site]

Does(step) == site' = site \union {step} /\ UNCHANGED wordpress

\* Mutant: without set -e the script goes on to the server.
GoOnAnyway == wordpress' = "serving" /\ UNCHANGED site

\* set -e: a step that fails ends the container.
Fails == wordpress' = "restarting" /\ UNCHANGED site

SetUp ==
  /\ wordpress = "setting up"
  /\ IF site = {Steps[i] : i \in DOMAIN Steps} THEN wordpress' = "serving" /\ UNCHANGED site
     ELSE IF NextStep \in NeedDatabase /\ ~DatabaseAnswers THEN Fails
     ELSE Does(NextStep)
  /\ cut' = IF wordpress' = "restarting" /\ "config" \in site THEN cut \union {"wordpress"} ELSE cut
  /\ UNCHANGED <<db, ng, kills>>

-----------------------------------------------------------------------------
(* nginx: init.sh *)

StartNginx ==
  /\ nginx = "restarting" \/ (nginx = "created" /\ wordpress # "created")
  /\ nginx' = IF "key" \in certificate THEN "starting" ELSE "making"
  /\ UNCHANGED <<certificate, db, wp, faults>>

\* openssl writes the key, then the certificate.
MakeCertificate ==
  /\ nginx = "making"
  /\ IF "key" \notin certificate THEN certificate' = {"key"} /\ UNCHANGED nginx
     ELSE certificate' = {"key", "crt"} /\ nginx' = "starting"
  /\ UNCHANGED <<db, wp, faults>>

\* nginx wants both files and the name of its upstream, which has one while its
\* container runs.
RunNginx ==
  /\ nginx = "starting"
  /\ nginx' = IF "crt" \in certificate /\ wordpress \notin {"created", "restarting"}
              THEN "serving" ELSE "restarting"
  /\ UNCHANGED <<certificate, db, wp, faults>>

-----------------------------------------------------------------------------
\* The script is past the point from which a new start would not repeat it.
HalfWay(c) ==
  CASE c = "mariadb" -> mariadb \in {"installing", "initialising"} /\ "directory" \in data
    [] c = "wordpress" -> wordpress = "setting up" /\ "config" \in site
    [] c = "nginx" -> nginx = "making" /\ "key" \in certificate

Kill(c) ==
  /\ kills < MaxKills
  /\ kills' = kills + 1
  /\ cut' = IF HalfWay(c) THEN cut \union {c} ELSE cut
  /\ \/ c = "mariadb" /\ mariadb # "created" /\ mariadb' = "restarting" /\ UNCHANGED <<data, wp, ng>>
     \/ c = "wordpress" /\ wordpress # "created" /\ wordpress' = "restarting" /\ UNCHANGED <<site, db, ng>>
     \/ c = "nginx" /\ nginx # "created" /\ nginx' = "restarting" /\ UNCHANGED <<certificate, db, wp>>

Mariadb == StartMariadb \/ InstallDatabase \/ RunInitFile \/ StartServer
Wordpress == StartWordpress \/ SetUp
Nginx == StartNginx \/ MakeCertificate \/ RunNginx

Next == Mariadb \/ Wordpress \/ Nginx \/ \E c \in {"mariadb", "wordpress", "nginx"} : Kill(c)

Spec == Init /\ [][Next]_vars /\ WF_vars(Mariadb) /\ WF_vars(Wordpress) /\ WF_vars(Nginx)

-----------------------------------------------------------------------------
Whole == site = {Steps[i] : i \in DOMAIN Steps}

(* wordpress serves a site that is set up, and mariadb a database with its     *)
(* user, unless the start that was to do it was cut after it had left what the *)
(* guard of the next start looks for: wp-config.php (wp-config.sh:5) and the   *)
(* data directory (init.sh:11) are made by the first step of many.             *)
HalfIsServedOnlyAfterACut ==
  /\ wordpress = "serving" /\ ~Whole => "wordpress" \in cut
  /\ mariadb = "serving" /\ "user" \notin data => "mariadb" \in cut

(* However often containers are killed, the site comes up whole in the end,    *)
(* and stays, unless one of the three scripts was cut: it waits for mariadb by *)
(* failing until mariadb answers, and nginx for it.                            *)
SiteComesUp ==
  \/ <>(cut # {})
  \/ <>[](mariadb = "serving" /\ wordpress = "serving" /\ Whole /\ nginx = "serving")
=============================================================================
