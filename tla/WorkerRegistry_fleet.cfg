SPECIFICATION FairListSpec
CONSTANT Workers = {w1, w2}
PROPERTY ListedWhileThere
PROPERTY RowAndWorkerAgree
