SPECIFICATION PipelineSpec
CONSTANTS
    a = a  b = b  i = i  j = j
    Sources = {"registrar", "oai", "pubmed"}
    LastDay = 3
    CatchupDays = 2
    RecordsOf <- MCRecordsOf
    MaxHarvestDeaths = 1
    Key <- MCKey
    Journal <- MCJournal
    NoJournal = NoJournal
    EditBatchSize = 2
    ConsumeBatch = 2
    MaxContainers = 4
    MaxImportDeaths = 1
    Crawled <- MCCrawled
CHECK_DEADLOCK FALSE
INVARIANTS PipelineTypeOK DatesDelivered RecordsKept InsertedOnce ContainersPublished OneContainerPerJournal
PROPERTIES EnqueuedHarvested RecordsImported
