------------------------ MODULE MCFatImageSelection ------------------------
(* Every milestone, the version after it and one before all of them; every *)
(* cutover with the day before, and the ends of years.                     *)
EXTENDS FatImageSelection

MCMsrv == {3800} \cup UNION {{m, m + 1} : m \in Milestone}
MCDates == {20180601, 20190705, 20190706, 20191106, 20191231, 20200101, 20201231, 20210813,
            20210814, 20230609, 20230610, 20231228, 20250808, 20250809, 20251231, 20260101}
MCPublished == {20210209, 20250301}
=============================================================================
