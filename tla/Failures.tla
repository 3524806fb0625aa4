------------------------------- MODULE Failures -------------------------------
(***************************************************************************)
(* The errors a command can end with, and the class each is reported as    *)
(* (error.rs, the From<...> for Error of every port and command): what the *)
(* caller should do next, and the exit code.                               *)
(*                                                                         *)
(* An error is <<variant>>, or <<port, variant>> when a command passes on  *)
(* what one of its ports came to.                                          *)
(***************************************************************************)

Classes == {"usage", "config", "integrity", "missing", "unavailable", "canceled"}

Passed(port, errors) == {<<port, e>> : e \in errors}
Own(variants) == {<<v>> : v \in variants}

-----------------------------------------------------------------------------
(* The ports *)

RepoErrors == {"Walk", "Git", "Canceled"}
RepoClass(e) == IF e = "Canceled" THEN "canceled" ELSE "unavailable"

StoreErrors == {"Io", "HashMismatch", "Canceled"}
StoreClass(e) == CASE e = "Io" -> "unavailable"
                   [] e = "HashMismatch" -> "integrity"
                   [] e = "Canceled" -> "canceled"

\* "Failed" is an rclone that ran and failed, or a test that came before it.
RemoteErrors == {"Io", "Failed", "InvalidListing", "SizeMismatch", "Canceled"}
RemoteClass(e) == CASE e \in {"Io", "Failed", "InvalidListing"} -> "unavailable"
                    [] e = "SizeMismatch" -> "integrity"
                    [] e = "Canceled" -> "canceled"

-----------------------------------------------------------------------------
(* The commands on the working tree *)

AddErrors == Passed("Repo", RepoErrors) \cup Passed("Store", StoreErrors)
               \cup Own({"AlreadyTracked", "CacheLinkUnreachable", "NoRelativePath", "Io", "Canceled"})

\* add takes every error of the store for one that may pass.
AddClass(e) == CASE e \in {<<"Repo", "Canceled">>, <<"Canceled">>} -> "canceled"
                 [] e = <<"AlreadyTracked">> -> "usage"
                 [] e \in {<<"CacheLinkUnreachable">>, <<"NoRelativePath">>} -> "config"
                 [] OTHER -> "unavailable"

\* What import finds wrong with its arguments before it touches anything.
Rejections == Own({"DestinationOutsideRepo", "DestinationInsideGitSfs", "DestinationInsideGit",
                   "DestinationNotADirectory", "DestinationAlreadyExists", "DestinationCollision",
                   "NoSources", "SourceSymlinkRequiresFollow", "SourceSymlinkTargetNotRegular",
                   "UnsupportedSourceType", "NonUtf8Path"})

ImportErrors == Rejections \cup Passed("Store", StoreErrors)
                  \cup Own({"Walk", "NoRelativePath", "CacheLinkUnreachable", "Io", "Canceled"})

ImportClass(e) == CASE e \in {<<"Canceled">>, <<"Store", "Canceled">>} -> "canceled"
                    [] e = <<"Store", "HashMismatch">> -> "integrity"
                    [] e \in {<<"NoRelativePath">>, <<"CacheLinkUnreachable">>} -> "config"
                    [] e \in Rejections -> "usage"
                    [] OTHER -> "unavailable"

MvErrors == Passed("Repo", RepoErrors)
              \cup Own({"NotATrackedLink", "DestinationExists", "NoRelativePath", "Io", "Canceled"})

MvClass(e) == CASE e \in {<<"Repo", "Canceled">>, <<"Canceled">>} -> "canceled"
                [] e \in {<<"NotATrackedLink">>, <<"DestinationExists">>} -> "usage"
                [] e = <<"NoRelativePath">> -> "config"
                [] OTHER -> "unavailable"

-----------------------------------------------------------------------------
(* The commands that know a remote: they report what a port came to as it is *)

PortClass(e) == CASE e[1] = "Repo" -> RepoClass(e[2])
                  [] e[1] = "Store" -> StoreClass(e[2])
                  [] e[1] = "Remote" -> RemoteClass(e[2])

Ports == Passed("Repo", RepoErrors) \cup Passed("Store", StoreErrors) \cup Passed("Remote", RemoteErrors)

PushErrors == Ports \cup Passed("Plan", {"MissingCachedFile"})
PushClass(e) == IF e[1] = "Plan" THEN "missing" ELSE PortClass(e)

\* A verification that found issues is classified by them, in Reports.
VerifyErrors == Ports \cup Own({"Scratch"})
VerifyClass(e) == IF e = <<"Scratch">> THEN "unavailable" ELSE PortClass(e)

StatusErrors == Ports
StatusClass(e) == PortClass(e)

-----------------------------------------------------------------------------

\* Every error has a class.
ASSUME ClassesAreTotal ==
  /\ \A e \in AddErrors : AddClass(e) \in Classes
  /\ \A e \in ImportErrors : ImportClass(e) \in Classes
  /\ \A e \in MvErrors : MvClass(e) \in Classes
  /\ \A e \in PushErrors : PushClass(e) \in Classes
  /\ \A e \in VerifyErrors : VerifyClass(e) \in Classes
  /\ \A e \in StatusErrors : StatusClass(e) \in Classes

\* A port that was canceled, or that found wrong bytes, is reported as such by
\* every command but add, which calls both a failure that may pass.
ASSUME PortsKeepTheirClass ==
  LET Kept(errors, Class(_)) ==
        \A e \in errors : e \in Ports /\ PortClass(e) \in {"canceled", "integrity"} => Class(e) = PortClass(e)
  IN /\ Kept(AddErrors \ Passed("Store", StoreErrors), AddClass)
     /\ Kept(ImportErrors, ImportClass) /\ Kept(MvErrors, MvClass)
     /\ Kept(PushErrors, PushClass) /\ Kept(VerifyErrors, VerifyClass)
=============================================================================
