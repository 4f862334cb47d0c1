----------------------------- MODULE DriverFiles -----------------------------
(***************************************************************************)
(* dynamic.Driver: Stage, Install, Remove and the error file, one action   *)
(* per access to a file that another goroutine may have open.  Nothing     *)
(* here takes a lock.  A built-in driver has no files.                     *)
(***************************************************************************)
EXTENDS DriverState

\* Everything but the disk, and what a caller knows of it.
others == <<record, pending, requests, schema, connected, schemaLock, job, drv, listed, todo>>

IsBuiltin(c) == drv[c] \in Builtin

\* What Stage leads to: the handler compares names, the startup installs.
Staged(c)    == IF c = Startup THEN "open" ELSE "nameCheck"
Installed(c) == IF c = Startup THEN "nextDriver" ELSE "genLock"

\* getError: the error of a former Stage is returned once, and forgotten.
GetError(c) ==
    /\ IF errFile[drv[c]]
       THEN Step(c, "getError", Erred(c)) /\ errFile' = [errFile EXCEPT ![drv[c]] = FALSE]
       ELSE Step(c, "getError", "isInstalled") /\ UNCHANGED errFile
    /\ UNCHANGED <<others, store, binary, src, failures>>

\* setError: an error of stage is kept.
StageFails(c, a) ==
    /\ Step(c, a, Erred(c)) /\ Fail
    /\ errFile' = [errFile EXCEPT ![drv[c]] = TRUE]

\* isInstalled: what the cache file names needs no download.
IsInstalled(c) ==
    /\ \/ /\ Step(c, "isInstalled", IF IsBuiltin(c) \/ cache[drv[c]] THEN Staged(c) ELSE "download")
          /\ NoFail /\ UNCHANGED errFile
       \/ ~IsBuiltin(c) /\ StageFails(c, "isInstalled")
    /\ UNCHANGED <<others, store, binary, src>>

\* Mutant of Download: the cache file is written before the binary is complete.
CacheBeforeCopy(c) ==
    /\ \/ /\ Step(c, "download", "copyStaged") /\ NoFail
          /\ staged' = [staged EXCEPT ![drv[c]] = c]
          /\ cache' = [cache EXCEPT ![drv[c]] = TRUE] /\ UNCHANGED errFile
       \/ StageFails(c, "download") /\ UNCHANGED <<staged, cache>>
    /\ UNCHANGED <<others, binary, src>>

\* The download, its hash and its extraction are in files of c alone.  Then
\* the staged binary is created, or truncated: who is copying it gets a part.
Download(c) ==
    /\ \/ /\ Step(c, "download", "copyStaged") /\ NoFail
          /\ staged' = [staged EXCEPT ![drv[c]] = c]
          /\ src' = [e \in Callers |-> IF pc[e] = "copy" /\ drv[e] = drv[c] THEN "torn"
                                       ELSE src[e]]
          /\ UNCHANGED errFile
       \/ StageFails(c, "download") /\ UNCHANGED <<staged, src>>
    /\ UNCHANGED <<others, cache, binary>>

\* copyBinary: the staged binary is written.
CopyStaged(c) ==
    /\ \/ /\ Step(c, "copyStaged", "nameCache") /\ NoFail
          /\ staged' = Closed(staged, c, "whole") /\ UNCHANGED errFile
       \/ StageFails(c, "copyStaged") /\ staged' = Closed(staged, c, "torn")
    /\ UNCHANGED <<others, cache, binary, src>>

\* ... and then the cache file.  A cache file that a crash leaves empty reads
\* as none at all.
NameCache(c) ==
    /\ \/ /\ Step(c, "nameCache", Staged(c)) /\ NoFail
          /\ cache' = [cache EXCEPT ![drv[c]] = TRUE] /\ UNCHANGED errFile
       \/ StageFails(c, "nameCache") /\ UNCHANGED cache
    /\ UNCHANGED <<others, staged, binary, src>>

Stage(c) == GetError(c) \/ IsInstalled(c) \/ Download(c) \/ CopyStaged(c) \/ NameCache(c)

\* Mutant of Open: the binary is written where it is run from.
OpenInPlace(c) ==
    /\ pc[c] = "open"
    /\ IF IsBuiltin(c) THEN Goto(c, Installed(c)) /\ UNCHANGED <<bin, src>>
       ELSE /\ staged[drv[c]] # "none"
            /\ Goto(c, "copy")
            /\ bin' = [bin EXCEPT ![Name(c)] = c]
            /\ src' = [src EXCEPT ![c] = IF staged[drv[c]] = "whole" THEN "whole" ELSE "torn"]
    /\ UNCHANGED <<others, store, errFile, tmp, failures>>

\* Install, first half: the "-tmp" file is truncated before the staged binary
\* is found to be there.
Open(c) ==
    /\ pc[c] = "open"
    /\ IF IsBuiltin(c) THEN Goto(c, Installed(c)) /\ NoFail /\ UNCHANGED <<tmp, src>>
       ELSE \/ /\ staged[drv[c]] # "none"
               /\ Goto(c, "copy") /\ NoFail
               /\ tmp' = [tmp EXCEPT ![Name(c)] = c]
               /\ src' = [src EXCEPT ![c] = IF staged[drv[c]] = "whole" THEN "whole" ELSE "torn"]
            \/ /\ staged[drv[c]] = "none"
               /\ Goto(c, Erred(c)) /\ NoFail
               /\ tmp' = [tmp EXCEPT ![Name(c)] = "torn"] /\ UNCHANGED src
            \/ Goto(c, Erred(c)) /\ Fail /\ UNCHANGED <<tmp, src>>
    /\ UNCHANGED <<others, store, errFile, bin>>

\* Mutant of Copy: its error is not looked at.
CopyUnchecked(c) ==
    /\ \/ /\ Step(c, "copy", "rename") /\ NoFail
          /\ tmp' = Closed(tmp, c, src[c]) /\ bin' = Closed(bin, c, src[c])
       \/ /\ Step(c, "copy", "rename") /\ Fail
          /\ tmp' = Closed(tmp, c, "torn") /\ bin' = Closed(bin, c, "torn")
    /\ src' = [src EXCEPT ![c] = "torn"]
    /\ UNCHANGED <<others, store, errFile>>

\* io.Copy: a part of a binary is copied without an error.
Copy(c) ==
    /\ \/ /\ Step(c, "copy", "rename") /\ NoFail
          /\ tmp' = Closed(tmp, c, src[c]) /\ bin' = Closed(bin, c, src[c])
       \/ /\ Step(c, "copy", Erred(c)) /\ Fail
          /\ tmp' = Closed(tmp, c, "torn") /\ bin' = Closed(bin, c, "torn")
    /\ src' = [src EXCEPT ![c] = "torn"]
    /\ UNCHANGED <<others, store, errFile>>

\* Install, second half: whatever the "-tmp" file is by now is moved.
Rename(c) ==
    /\ \/ /\ tmp[Name(c)] # "none" /\ Step(c, "rename", Installed(c)) /\ NoFail
          /\ bin' = [bin EXCEPT ![Name(c)] = tmp[Name(c)]]
          /\ tmp' = [tmp EXCEPT ![Name(c)] = "none"]
       \/ /\ tmp[Name(c)] = "none" /\ Step(c, "rename", Erred(c)) /\ NoFail
          /\ UNCHANGED binary
       \/ Step(c, "rename", Erred(c)) /\ Fail /\ UNCHANGED binary
    /\ UNCHANGED <<others, store, errFile, src>>

Install(c) == Open(c) \/ Copy(c) \/ Rename(c)

-----------------------------------------------------------------------------
\* Remove: nothing to do without a cache file; what it names goes first, it
\* goes last, and no error of os.Remove is looked at.
RemoveBinary(c) ==
    /\ IF cache[drv[c]]
       THEN Step(c, "rmBin", "rmStaged") /\ bin' = [bin EXCEPT ![Name(c)] = "none"]
       ELSE Step(c, "rmBin", "uploadLock") /\ UNCHANGED bin
    /\ UNCHANGED <<others, store, errFile, tmp, src, failures>>

RemoveStaged(c) ==
    /\ Step(c, "rmStaged", "rmCache")
    /\ staged' = [staged EXCEPT ![drv[c]] = "none"]
    /\ UNCHANGED <<others, cache, errFile, binary, src, failures>>

RemoveCache(c) ==
    /\ Step(c, "rmCache", "uploadLock")
    /\ cache' = [cache EXCEPT ![drv[c]] = FALSE]
    /\ UNCHANGED <<others, staged, errFile, binary, src, failures>>

Remove(c) == RemoveBinary(c) \/ RemoveStaged(c) \/ RemoveCache(c)

\* Mutant of ClearError: the file is left.
ClearNothing(c) ==
    /\ Step(c, "clearError", "publish")
    /\ UNCHANGED <<others, disk, src, failures>>

ClearError(c) ==
    /\ Step(c, "clearError", "publish")
    /\ errFile' = [errFile EXCEPT ![drv[c]] = FALSE]
    /\ UNCHANGED <<others, store, binary, src, failures>>

=============================================================================
