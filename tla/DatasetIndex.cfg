CONSTANTS
    s1 = s1
    s2 = s2
    s3 = s3
    d = d
    e = e
    save1 = save1
    drop1 = drop1
    dropd = dropd
    find1 = find1
    find2 = find2
    Sid = {s1, s2, s3}
    Dataset = {d, e}
    DatasetOf <- MCDatasetOf
    Saved = {s2, s3}
    Save = {save1}
    Drop = {drop1}
    DropData = {dropd}
    Find = {find1}
    SidOf <- MCSidOf
    AskedFor <- MCAskedFor
    Dropped = e
    NoSid = NoSid
    Expiring = {d}
    MaxInFlight = 2
SPECIFICATION IndexSpec
CHECK_DEADLOCK FALSE
INVARIANT FindsLive
INVARIANT DeletedStaysHidden
