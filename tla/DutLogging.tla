------------------------------ MODULE DutLogging ------------------------------
(***************************************************************************)
(* server/dut_logging.py: the log of one launch of a test.  A log is the   *)
(* record of a DUTLogging object and of the file it writes:                *)
(*   test  the test_name it was constructed with                           *)
(*   file  "absent"  no file yet, created when the first message arrives   *)
(*         "open"    __filename is set: header written, messages appended  *)
(*         "ended"   closed by an END line                                 *)
(*         "torn"    __filename was cleared but the END line was not saved *)
(*   end   the status on the END line                                      *)
(* The header, the dates and the text of the messages are left out.        *)
(***************************************************************************)
CONSTANT Commands  \* the tests, one for each configuration

\* EndStatus, and "None" where no status was given or none is written yet.
ServerEnds == {"NORMAL_END", "SOFT_APP_REBOOT", "SOFT_OS_REBOOT", "HARD_REBOOT"}
EndStatus == ServerEnds \cup {"UNKNOWN"}

Log == [test : Commands,
        file : {"absent", "open", "ended", "torn"},
        end  : EndStatus \cup {"None"}]

\* __init__
Opened(test) == [test |-> test, file |-> "absent", end |-> "None"]

\* __create_file_if_does_not_exist, before a message is appended
Created(log) ==
    IF log.file = "open" THEN log
    ELSE [log EXCEPT !.file = "open", !.end = "None"]

\* finish_this_dut_log
Finished(log, status) ==
    IF log.file = "open" THEN [log EXCEPT !.file = "ended", !.end = status]
    ELSE log

\* finish_this_dut_log when the disk refuses the END line as the file is
\* closed: __filename was already reset to None.
Torn(log) == [log EXCEPT !.file = "torn"]

\* __del__
Deleted(log) == Finished(log, "UNKNOWN")
===============================================================================
