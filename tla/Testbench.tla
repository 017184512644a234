----------------------------- MODULE Testbench -----------------------------
(***************************************************************************)
(* test-csim and test-se: each test runs the reference and the student's   *)
(* program, compares what the two leave in files and removes the files.    *)
(* What the programs do is external here: an outcome is how much of its    *)
(* file a program has written and how it ended.                            *)
(***************************************************************************)
EXTENDS Integers, Sequences, FiniteSets

CONSTANTS
    Benches,     \* the benches run: [program, tests, weights, week], where
                 \* tests is a sequence of [dir, name]
    Results      \* what a program may print: a sequence of statistics, or of
                 \* the lines of a checkpoint

\* Every test counts, in a directory that has a weight; every directory has
\* tests, and results are not empty.
ASSUME TestbenchAssumption ==
    /\ \A b \in Benches :
          /\ Len(b.tests) \in Nat \ {0} /\ DOMAIN b.tests = 1..Len(b.tests)
          /\ Len(b.weights) \in Nat /\ DOMAIN b.weights = 1..Len(b.weights)
          /\ \A n \in DOMAIN b.tests : b.tests[n].dir \in DOMAIN b.weights
          /\ \A d \in DOMAIN b.weights :
                /\ b.weights[d] \in Nat \ {0}
                /\ \E n \in DOMAIN b.tests : b.tests[n].dir = d
    /\ \A r \in Results : Len(r) \in Nat \ {0} /\ DOMAIN r = 1..Len(r)

VARIABLES
    bench,
    files,       \* the contents of each file
    t,           \* the test under way
    step, prog,  \* what comes next of it, and for which program
    died,        \* programs of the test a signal has ended
    got,         \* what has been read, by program
    judged,      \* the tests done: the points in hundredths, whether what was
                 \* read is what the test's own runs wrote, whether one died
    score

tbVars == <<bench, files, t, step, prog, died, got, judged, score>>

Programs == {"ref", "student"}
None  == [by |-> "none", test |-> 0, data |-> <<>>]
Empty(p) == [by |-> p, test |-> t, data |-> <<>>]
NothingRead == [p \in Programs |-> None]

\* csim's two runs write the same file; se's checkpoints are named for the
\* test, without its directory.
FileOf(p) ==
    IF bench.program = "csim" THEN <<".csim_results">>
    ELSE <<p, bench.tests[t].name>>
FileNames(b) ==
    IF b.program = "csim" THEN {<<".csim_results">>}
    ELSE Programs \X {b.tests[n].name : n \in DOMAIN b.tests}

FirstStep == IF bench.program = "csim" THEN "rm" ELSE "run"

\* An earlier run of the bench, cut short by its alarm, may have left files.
TestbenchInit ==
    /\ bench \in Benches
    /\ files \in [FileNames(bench) ->
                    {None} \cup [by : {"before"}, test : {0}, data : Results]]
    /\ t = 1 /\ step = FirstStep /\ prog = "ref"
    /\ died = {} /\ got = NothingRead
    /\ judged = <<>> /\ score = -1

Own == \A p \in Programs : got[p].by = p /\ got[p].test = t

\* runtrace or run_test returns; the next test begins.
return(points) ==
    /\ judged' = Append(judged, [points |-> points, own |-> Own, died |-> died # {}])
    /\ t' = t + 1
    /\ step' = (IF t = Len(bench.tests) THEN "score" ELSE FirstStep)
    /\ prog' = "ref"
    /\ died' = {} /\ got' = NothingRead
    /\ UNCHANGED <<bench, score>>

\* Mutant: the file is not removed before the student's run.
remove_results_once ==
    /\ step = "rm"
    /\ files' = IF prog = "ref" THEN [files EXCEPT ![FileOf(prog)] = None] ELSE files
    /\ step' = "run"
    /\ UNCHANGED <<bench, t, prog, died, got, judged, score>>

\* test-csim removes the file before each run.
remove_results ==
    /\ step = "rm"
    /\ files' = [files EXCEPT ![FileOf(prog)] = None]
    /\ step' = "run"
    /\ UNCHANGED <<bench, t, prog, died, got, judged, score>>

\* What a program leaves in its file, and its end.  csim writes the file at
\* once before it returns, and exits with 0 when it prints its usage; se opens
\* its checkpoint first, unless the directory, and with it any file there, is
\* missing, and writes it last.
Outcomes(p) ==
    LET old  == files[FileOf(p)]
        full == [by : {p}, test : {t}, data : Results]
    IN [file : full, end : {"exit 0", "signal"}]
         \cup [file : {Empty(p), old}, end : {"signal"}]
         \cup (IF bench.program = "csim"
               THEN [file : {old}, end : {"exit 0", "exit 1"}]
               ELSE [file : {Empty(p)}, end : {"exit 1"}]
                      \cup [file : {old} \cap {None}, end : {"exit 0"}])

\* test-csim reads the file of each program after its run; test-se runs both
\* first.
after_run ==
    /\ step' = IF bench.program = "csim" THEN "read"
               ELSE IF prog = "ref" THEN "run" ELSE "diff"
    /\ prog' = IF bench.program = "csim" THEN prog ELSE "student"
    /\ UNCHANGED <<bench, t, got, judged, score>>

\* system(): a status other than 0 ends the test, but only WIFEXITED ones.
run_program ==
    /\ step = "run"
    /\ \E o \in Outcomes(prog) :
        /\ files' = [files EXCEPT ![FileOf(prog)] = o.file]
        /\ IF o.end = "exit 1" THEN return(0)
           ELSE /\ after_run
                /\ died' = IF o.end = "signal" THEN died \cup {prog} ELSE died

\* fopen fails.
results_missing ==
    /\ step = "read" /\ files[FileOf(prog)] = None
    /\ return(0)
    /\ UNCHANGED files

\* fopen and fscanf.  Nothing is scanned from an empty file, which leaves what
\* happens to be on the stack.
read_results ==
    /\ step = "read" /\ files[FileOf(prog)] # None
    /\ LET f == files[FileOf(prog)]
       IN \E r \in IF f.data = <<>> THEN Results ELSE {f.data} :
             got' = [got EXCEPT ![prog] = [f EXCEPT !.data = r]]
    /\ step' = IF prog = "ref" THEN "rm" ELSE "compare"
    /\ prog' = "student"
    /\ UNCHANGED <<bench, files, t, died, judged, score>>

\* runtrace removes the file and returns; test_csim gives points for each
\* statistic that agrees.
Agree == {k \in DOMAIN got["ref"].data : got["ref"].data[k] = got["student"].data[k]}
compare ==
    /\ step = "compare"
    /\ files' = [files EXCEPT ![FileOf(prog)] = None]
    /\ return((100 * Cardinality(Agree)) \div Len(got["ref"].data))

\* diff fails for a missing file; then both checkpoints are removed.
diff ==
    /\ step = "diff"
    /\ got' = [p \in Programs |-> files[FileOf(p)]]
    /\ step' = "cleanup"
    /\ UNCHANGED <<bench, files, t, prog, died, judged, score>>

Same == /\ \A p \in Programs : got[p] # None
        /\ got["ref"].data = got["student"].data
cleanup ==
    /\ step = "cleanup"
    /\ files' = [f \in DOMAIN files |->
                    IF f \in {FileOf(p) : p \in Programs} THEN None ELSE files[f]]
    /\ return(IF Same THEN 100 ELSE 0)

\* The points: a weight for each test of test-csim, which is the one of its
\* dir, and for each directory of test-se, times the share its tests have got;
\* in week 1 that share is an integer division.
Sums(f) ==
    LET sum[k \in Nat] == IF k = 0 THEN 0 ELSE sum[k - 1] + f[k]
    IN sum

OfDir(d, value) ==
    Sums([n \in DOMAIN bench.tests |->
              IF bench.tests[n].dir = d THEN value[n] ELSE 0])[Len(bench.tests)]
Share(d) ==
    LET got_d == OfDir(d, [n \in DOMAIN bench.tests |-> judged[n].points])
        num   == OfDir(d, [n \in DOMAIN bench.tests |-> 1])
    IN IF bench.week = 1 THEN 100 * (got_d \div (100 * num)) ELSE got_d \div num
Total(share) ==
    Sums([d \in DOMAIN bench.weights |-> bench.weights[d] * share[d]])
        [Len(bench.weights)]

add_scores ==
    /\ step = "score"
    /\ score' = Total([d \in DOMAIN bench.weights |-> Share(d)])
    /\ step' = "done"
    /\ UNCHANGED <<bench, files, t, prog, died, got, judged>>

\* The alarm ends the bench wherever it is, and the files stay.
sigalrm_handler ==
    /\ step \notin {"done", "timed out"}
    /\ step' = "timed out" /\ prog' = "ref"
    /\ score' = 0
    /\ t' = 1 /\ died' = {} /\ got' = NothingRead /\ judged' = <<>>
    /\ UNCHANGED <<bench, files>>

TestbenchNext ==
    \/ remove_results \/ run_program \/ results_missing \/ read_results \/ compare
    \/ diff \/ cleanup
    \/ add_scores \/ sigalrm_handler

TestbenchSpec == TestbenchInit /\ [][TestbenchNext]_tbVars

----------------------------------------------------------------------------
(* Properties.                                                             *)

TestbenchOK ==
    /\ t \in 1..(Len(bench.tests) + 1)
    /\ Len(judged) = t - 1
    /\ prog \in Programs /\ died \subseteq Programs
    /\ \A f \in DOMAIN files : files[f].data \in Results \cup {<<>>}

\* Whatever earlier tests, an earlier run of the bench or the other program
\* have left behind, a test gets points only for what its own two runs have
\* written, unless a signal has ended one of them.
Earned ==
    \A n \in DOMAIN judged :
        (judged[n].points > 0 /\ ~judged[n].died) => judged[n].own

\* Only a bench all of whose tests pass gets the full score.
FullScoreForAll ==
    (step = "done" /\ score = Total([d \in DOMAIN bench.weights |-> 100])) =>
        \A n \in DOMAIN bench.tests : judged[n].points = 100

\* test-csim.c:63-126 and 180-192, test-se.c:77-141 and 218-235: a bench gives
\* points for nothing but the runs of the test, and all of them for all tests.
PassesAreEarned == Earned /\ FullScoreForAll
=============================================================================
