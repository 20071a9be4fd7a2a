------------------------------ MODULE MCScrape ------------------------------
(***************************************************************************)
(* Instances of Scrape.  A listing is what sidecars really send: best to   *)
(* worst, a full snapshot having its own slot as base.                     *)
(***************************************************************************)
EXTENDS Scrape

Full(s)   == [slot |-> s, baseSlot |-> s]
Inc(b, s) == [slot |-> s, baseSlot |-> b]

\* A chain, and later another one with a new full snapshot at the slot of its
\* incremental one: three snapshots at two slots.
Old == << Inc(1, 2), Full(1) >>
New == << Full(3), Inc(1, 3), Full(1) >>
MCListings == { Old, New, << >> }

MCExtends == { <<1, 1>> }
MCGroupOf == [s \in Scrapers |-> 1]
\* A file or consul discovery loses the target or fails.
Unsteady == [s \in Scrapers |-> { Targets, {} }]
\* Any history.
AllPlans == [Targets -> [Times -> Listings \cup {Down}]]
=============================================================================
