------------------------------ MODULE PmmScan ------------------------------
(***************************************************************************)
(* pmm_alloc_pages (kernel/memory/pmm.c) loop iteration by loop iteration: *)
(* the nested loops over regions and pages, the run being collected in     *)
(* start and found, and the allocation once found reaches the count asked  *)
(* for.  Pmm takes the search as one step that yields the first fit; here  *)
(* that step is refined.  The other operations run while no search is.     *)
(***************************************************************************)
EXTENDS Pmm

VARIABLES
  request,   \* the count argument of the call in progress, 0 if there is none
  region,    \* the outer loop's i
  page,      \* the inner loop's page
  start, found

scanVars == <<request, region, page, start, found>>

ScanInit ==
  /\ Init
  /\ request = 0 /\ region = 1 /\ page = 0 /\ start = 0 /\ found = 0

\* The values the locals start a region with.
Restart == page' = 0 /\ start' = 0 /\ found' = 0

\* count = 0 returns at once and count = 1 is pmm_alloc_page.
Call ==
  /\ request = 0
  /\ request' \in 2 .. MaxCount
  /\ UNCHANGED <<region, page, start, found, pmmVars>>

InRange == request # 0 /\ region <= pmm_region_count /\ page < total_pages(region)

\* Mutant: the page is not advanced.
BusyStay ==
  /\ InRange
  /\ <<region, page>> \in bitmap
  /\ found' = 0
  /\ UNCHANGED <<request, region, page, start, pmmVars>>

\* The page is taken: the run is lost.
Busy ==
  /\ InRange
  /\ <<region, page>> \in bitmap
  /\ found' = 0
  /\ page' = page + 1
  /\ UNCHANGED <<request, region, start, pmmVars>>

\* start after the page at hand joined the run.
RunStart == IF found = 0 THEN page ELSE start

\* The page is free and the run is not long enough, or (which ScanInv
\* excludes) long enough and beyond the region.
Extend ==
  /\ InRange
  /\ <<region, page>> \notin bitmap
  /\ found + 1 = request => RunStart + request > total_pages(region)
  /\ start' = RunStart
  /\ found' = IF found + 1 = request THEN 0 ELSE found + 1
  /\ page' = page + 1
  /\ UNCHANGED <<request, region, pmmVars>>

\* Mutant: the last page of the run is not marked.
TakeShort ==
  /\ InRange
  /\ <<region, page>> \notin bitmap
  /\ found + 1 = request
  /\ RunStart + request <= total_pages(region)
  /\ Allocate(Run(region, RunStart, request - 1))
  /\ UNCHANGED page_table_pages
  /\ request' = 0 /\ region' = 1
  /\ Restart

\* The run is complete: allocate it and return its address.
Take ==
  /\ InRange
  /\ <<region, page>> \notin bitmap
  /\ found + 1 = request
  /\ RunStart + request <= total_pages(region)
  /\ Allocate(Run(region, RunStart, request))
  /\ UNCHANGED page_table_pages
  /\ request' = 0 /\ region' = 1
  /\ Restart

\* Mutant: the search gives up after the first region.
NextRegionNone ==
  /\ request # 0
  /\ region <= pmm_region_count
  /\ page >= total_pages(region)
  /\ region' = pmm_region_count + 1
  /\ Restart
  /\ UNCHANGED <<request, pmmVars>>

NextRegion ==
  /\ request # 0
  /\ region <= pmm_region_count
  /\ page >= total_pages(region)
  /\ region' = region + 1
  /\ Restart
  /\ UNCHANGED <<request, pmmVars>>

\* No region has the run: return 0.
Fail ==
  /\ request # 0
  /\ region > pmm_region_count
  /\ request' = 0 /\ region' = 1
  /\ Restart
  /\ UNCHANGED pmmVars

ScanLoop == Busy \/ Extend \/ Take \/ NextRegion \/ Fail

ScanNext ==
  \/ Call
  \/ ScanLoop
  \/ request = 0 /\ AnyNext /\ UNCHANGED scanVars

ScanSpec == ScanInit /\ [][ScanNext]_<<pmmVars, scanVars>>

FairScanSpec == ScanSpec /\ WF_<<pmmVars, scanVars>>(ScanLoop)

\* The same with callers that free what they hold.
HeldScanNext ==
  \/ Call
  \/ ScanLoop
  \/ request = 0 /\ Next /\ UNCHANGED scanVars

FairHeldScanSpec ==
  /\ ScanInit /\ [][HeldScanNext]_<<pmmVars, scanVars>>
  /\ WF_<<pmmVars, scanVars>>(ScanLoop)

-----------------------------------------------------------------------------
(* Properties. *)

\* The loop invariant: the last found pages before page are clear and make
\* up the run from start, and no start that was passed over, in this region
\* or an earlier one, begins a free run of the length asked for.
ScanInv ==
  request # 0 =>
    /\ found < request /\ found <= page
    /\ found > 0 => start = page - found
    /\ \A p \in page - found .. page - 1 : <<region, p>> \notin bitmap
    /\ region <= pmm_region_count =>
         \A s \in 0 .. page - found - 1 : ~ FreeRun(region, s, request)
    /\ \A r \in 1 .. region - 1 : \A s \in 0 .. total_pages(r) :
         ~ FreeRun(r, s, request)

\* The search gives up only when no region has a run of the length asked for.
FailOnlyWhenFull ==
  request # 0 /\ region > pmm_region_count =>
    \A r \in Region : \A s \in 0 .. total_pages(r) : ~ FreeRun(r, s, request)

\* The loops implement the one-step first fit of Pmm.
PmmAnySpec == AnySpec

\* Every call returns.
Returns == request # 0 ~> request = 0
=============================================================================
