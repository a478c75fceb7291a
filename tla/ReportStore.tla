----------------------------- MODULE ReportStore -----------------------------
(***************************************************************************)
(* mcp/store.py: scan reports, one file each, in a directory that several  *)
(* processes may share.  A report is written in place: the file is emptied *)
(* and then filled, so that others may find half a report, and keep        *)
(* finding it when the writer ended before it was done.  Half a report is  *)
(* no JSON.  The name of the file is the scan id; links, other directories *)
(* and names that are not safe are refused before any of this.             *)
(***************************************************************************)
EXTENDS Naturals

CONSTANTS ScanIds, Absent, Half

ASSUME StoreAssumption == Absent # Half

VARIABLE files       \* [ScanIds -> a report, or Absent or Half]

InitStore == files = [scan_id \in ScanIds |-> Absent]

\* load and load_resolved_path: a file that is there and parses.
Readable(scan_id) == files[scan_id] \notin {Absent, Half}

\* save: write_text opens the file, and so empties it; then it writes.
OpenForWriting(scan_id) == files' = [files EXCEPT ![scan_id] = Half]

Write(report) == files' = [files EXCEPT ![report.scan] = report]
=============================================================================
