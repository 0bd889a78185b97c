----------------------------- MODULE MCBulkJobs -----------------------------
(***************************************************************************)
(* BulkJobs over four entities, of which the first has no "extra".  For    *)
(* every job: rows that meet in one batch and across two, rows that find   *)
(* different entities in one batch and across two, and new entities; rows  *)
(* that end the process; files that are run with do_updates and without.   *)
(***************************************************************************)
EXTENDS BulkJobs

CONSTANTS x, y, z, w, n, p1, q1, o1, arxiv, issn, u, v, broken, arxivPdf, r, s, t,
          k, l, c, lang, e, f, g, h

E(ids, urls, links, marks) ==
    [to |-> 0, ids |-> ids, urls |-> urls, links |-> links, marks |-> marks]
MCSeed == << E({x}, {u, broken}, {r}, {l, c}), E({y, x}, {}, {}, {l, c, f}),
             E({x, w}, {v}, {s}, {g}), E({x, z}, {}, {}, {g}) >>

R(own, ids, ident, urls, links, marks) ==
    [own |-> own, ids |-> ids, ident |-> ident, urls |-> urls, links |-> links,
     marks |-> marks, journal |-> {}]

MCFileRows ==
    { << R(x, {}, 0, {v}, {s}, {k}), R(y, {}, 0, {v}, {s}, {k, l}), R(n, {}, 0, {u}, {r}, {k, l}) >>,
      << R(y, {}, 0, {u}, {r}, {k, l}), R(x, {}, 0, {v}, {s}, {k, l}), R(x, {}, 0, {arxivPdf}, {s}, {l}) >>,
      << R(y, {}, 0, {u}, {s}, {k, l}), R(w, {}, 0, {u}, {r}, {k, l}), R(z, {}, 0, {u}, {r}, {k, l}) >>,
      << R(y, {}, 0, {v}, {r}, {k, l}), R(n, {}, 0, {u}, {r, t}, {k, l}) >> }
MCFilesAsTheyAre == << R(x, {}, 0, {v}, {s}, {k}), R(n, {}, 0, {u}, {t}, {k}) >>

RR(own, ids, marks, journal) ==
    [R(own, ids, 0, {}, {}, marks) EXCEPT !.journal = journal]
MCReleaseRows ==
    { << RR(p1, {x}, {k, e}, {}), RR(q1, {n}, {k, e}, {}) >>,
      << RR(p1, {y}, {k, e}, {issn}), RR(q1, {y}, {k, l, lang, f}, {issn}), RR(o1, {arxiv}, {k, e}, {}) >>,
      << RR(p1, {y}, {k, e}, {}), RR(q1, {x}, {l, e}, {}) >>,
      << RR(p1, {w}, {k, e}, {}), RR(q1, {z}, {k}, {}) >>,
      << RR(p1, {y}, {k, l, e}, {}), RR(q1, {w}, {k, e}, {issn}), RR(o1, {z}, {k, e}, {}) >> }
MCReleasesAsTheyAre == << RR(p1, {y}, {k, e}, {}), RR(q1, {n}, {k}, {}) >>

MCContainerRows ==
    { << R(y, {}, 2, {}, {}, {k, e}), R(x, {}, 1, {}, {}, {k, h}), R(n, {}, 0, {}, {}, {l}) >>,
      << R(y, {}, 2, {}, {}, {k, e}), R(y, {}, 2, {}, {}, {l, f}), R(x, {}, 0, {}, {}, {k, h}) >>,
      << R(y, {}, 0, {}, {}, {k, e}), R(w, {}, 0, {}, {}, {h}), R(z, {}, 0, {}, {}, {e, h}) >> }
MCContainersAsTheyAre == << R(y, {}, 2, {}, {}, {k, e}), R(n, {}, 0, {}, {}, {l}) >>

M(idents, primary) == [idents |-> idents, primary |-> primary, ext |-> x]
MCMergeRows ==
    { << M({1, 2}, 0) >>, << M({1, 2}, 0), M({2, 3}, 0) >>, << M({1, 2, 3}, 0) >>,
      << M({1, 3}, 0), M({2, 3}, 3) >>, << M({3}, 0), M({2, 5}, 0) >>,
      << M({1, 2}, 0), M({1, 3}, 0), M({2, 3}, 0) >>, << M({1, 2}, 0), M({3, 4}, 3) >> }

MCCleanRows ==
    { << [ident |-> 1, body |-> MCSeed[1]], [ident |-> 3, body |-> MCSeed[3]] >>,
      << [ident |-> 1, body |-> MCSeed[1]], [ident |-> 1, body |-> MCSeed[1]] >> }

MCUpdating ==
    [job : FileImporters, rows : MCFileRows]
    \cup [job : ReleaseImporters, rows : MCReleaseRows]
    \cup [job : ContainerImporters, rows : MCContainerRows]
MCFiles ==
    MCUpdating
    \cup { [job |-> "arabesque", rows |-> MCFilesAsTheyAre],
           [job |-> "chocula", rows |-> MCContainersAsTheyAre] }
    \cup [job : {"doaj", "dblp", "pubmed"}, rows : {MCReleasesAsTheyAre}]
    \cup [job : Mergers, rows : MCMergeRows]
    \cup [job : {"clean_files"}, rows : MCCleanRows]

=============================================================================
