---------------------------- MODULE GeoIPManager ----------------------------
(***************************************************************************)
(* The GeoIP database on disk and the index in memory.  A refresh tries    *)
(* the download addresses in turn, replaces the file when it has checked   *)
(* what it got, and adopts it when the replacement is done; another one    *)
(* meanwhile is refused.  The process may stop at any time and starts by   *)
(* loading the file as it finds it.                                        *)
(***************************************************************************)
EXTENDS Integers

CONSTANTS Databases,  \* databases that pass the checks of a download
          Poor,       \* one that does not: empty, cut off, an error page
          NoDatabase,
          Urls        \* the number of download addresses

ASSUME GeoIPManagerAssumption ==
    /\ Urls \in Nat \ {0}
    /\ Poor # NoDatabase /\ {Poor, NoDatabase} \cap Databases = {}

VARIABLES geoFile,   \* geoip.dat
          served,    \* the database of the index, NoDatabase if it is empty
          geoLoaded, \* status.loaded
          geoError,  \* status.error # null
          starting,  \* init has not loaded the file yet
          refresh    \* the refresh under way

geoVars == <<geoFile, served, geoLoaded, geoError, starting, refresh>>

Contents == Databases \cup {Poor, NoDatabase}

\* at: trying the address url ("fetch"), having checked got ("rename"), or
\* having replaced the file by it ("adopt").
NoRefresh == [at |-> "idle", url |-> 0, got |-> NoDatabase]

GeoTypeOK ==
    /\ geoFile \in Contents /\ served \in Contents
    /\ {geoLoaded, geoError, starting} \subseteq BOOLEAN
    /\ refresh \in [at : {"idle", "fetch", "rename", "adopt"},
                    url : 0 .. Urls, got : Contents]

GeoInit ==
    /\ geoFile \in Contents
    /\ served = NoDatabase
    /\ geoLoaded = FALSE /\ geoError = FALSE
    /\ starting = TRUE
    /\ refresh = NoRefresh

-----------------------------------------------------------------------------

\* init, loadFromFile, parseDatFile: the file is taken as it is, or there
\* is none, or it cannot be read.  (A file that cannot be parsed is loaded
\* too, without an error, and leaves an empty index: what Poor stands for.)
Load ==
    /\ starting
    /\ starting' = FALSE
    /\ \/ /\ geoFile # NoDatabase
          /\ served' = geoFile
          /\ geoLoaded' = TRUE /\ geoError' = FALSE
       \/ /\ geoLoaded' = FALSE /\ geoError' = TRUE
          /\ UNCHANGED served
    /\ UNCHANGED <<geoFile, refresh>>

BeginRefresh ==
    /\ refresh.at = "idle"
    /\ refresh' = [at |-> "fetch", url |-> 1, got |-> NoDatabase]
    /\ UNCHANGED <<geoFile, served, geoLoaded, geoError, starting>>

\* An address is done without a database: the next one, or the end.
NextUrl ==
    \/ /\ refresh.url < Urls
       /\ refresh' = [refresh EXCEPT !.at = "fetch", !.url = @ + 1]
       /\ UNCHANGED geoError
    \/ /\ refresh.url = Urls
       /\ refresh' = NoRefresh
       /\ geoError' = TRUE

FetchUnchecked ==
    /\ refresh.at = "fetch"
    /\ \/ /\ \E got \in Databases \cup {Poor} :
                refresh' = [refresh EXCEPT !.at = "rename", !.got = got]
          /\ UNCHANGED geoError
       \/ NextUrl
    /\ UNCHANGED <<geoFile, served, geoLoaded, starting>>

\* The download fails or is rejected, or it is a database that passes.
Fetch ==
    /\ refresh.at = "fetch"
    /\ \/ /\ \E got \in Databases :
                refresh' = [refresh EXCEPT !.at = "rename", !.got = got]
          /\ UNCHANGED geoError
       \/ NextUrl
    /\ UNCHANGED <<geoFile, served, geoLoaded, starting>>

ReplaceAfterAdopting ==
    /\ refresh.at = "rename"
    /\ served' = refresh.got /\ geoLoaded' = TRUE
    /\ \/ /\ geoFile' = refresh.got
          /\ refresh' = [refresh EXCEPT !.at = "adopt"]
          /\ UNCHANGED geoError
       \/ NextUrl /\ UNCHANGED geoFile
    /\ UNCHANGED starting

\* The rename of the temporary file, or its failure.
Replace ==
    /\ refresh.at = "rename"
    /\ \/ /\ geoFile' = refresh.got
          /\ refresh' = [refresh EXCEPT !.at = "adopt"]
          /\ UNCHANGED geoError
       \/ NextUrl /\ UNCHANGED geoFile
    /\ UNCHANGED <<served, geoLoaded, starting>>

Adopt ==
    /\ refresh.at = "adopt"
    /\ served' = refresh.got
    /\ geoLoaded' = TRUE /\ geoError' = FALSE
    /\ refresh' = NoRefresh
    /\ UNCHANGED <<geoFile, starting>>

\* The graceful shutdown; a refresh under way goes on until the exit.
Cleanup ==
    /\ served' = NoDatabase
    /\ geoLoaded' = FALSE /\ geoError' = FALSE
    /\ UNCHANGED <<geoFile, starting, refresh>>

\* The process ends, gracefully or not, and is started again.
GeoRestart ==
    /\ served' = NoDatabase
    /\ geoLoaded' = FALSE /\ geoError' = FALSE
    /\ starting' = TRUE
    /\ refresh' = NoRefresh
    /\ UNCHANGED geoFile

GeoNext == \/ Load \/ BeginRefresh \/ Fetch \/ Replace \/ Adopt
           \/ Cleanup \/ GeoRestart

GeoSpec == GeoInit /\ [][GeoNext]_geoVars

-----------------------------------------------------------------------------
(* Properties.                                                             *)

\* While a database is served it is the one on disk, which a restart would
\* load, except between the two steps in which a refresh swaps them;
\* whatever download, check or replacement fails, and with a load at the
\* start or a shutdown in between.
ServesTheFile ==
    geoLoaded => served = geoFile \/ refresh.at = "adopt"

\* A good database is never lost to a bad one: neither memory nor disk go
\* from a database that passed the checks to one that would not, whatever
\* is downloaded and whenever the process stops.
KeepsGoodDatabase ==
    [][/\ geoFile \in Databases => geoFile' \in Databases
       /\ geoLoaded /\ geoLoaded' /\ served \in Databases
              => served' \in Databases]_geoVars
=============================================================================
